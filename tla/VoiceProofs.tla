----------------------------- MODULE VoiceProofs -----------------------------
(***************************************************************************)
(* Proofs about the parts of a spoken take, for every value of their       *)
(* constants: whichever of its exits a take leaves by, the worker rests    *)
(* with all it took given back; no helper that mutes and no transcription  *)
(* sidecar is left running; and what is shown as listening for the wake    *)
(* word is.                                                                *)
(***************************************************************************)
EXTENDS MCVoice, SequenceTheorems, FiniteSetTheorems, TLAPS

-----------------------------------------------------------------------------
(* The dictation worker                                                    *)

(* The types, by kind.                                                     *)
Counts ==
  /\ dictationQueue \in Seq(D!Commands) /\ sent \in 0..MaxCommands
  /\ failures \in 0..MaxFailures /\ ticks \in 0..MaxTake /\ wake \in Seq(Modes)

Flags == {dictationOpen, suppress, lease, mic, dictationGate, spoken, spoilt} \subseteq BOOLEAN

Names ==
  /\ dictationPc \in {"wait", "poll", "rest", "lease", "start", "gate", "listen", "finish",
                      "decode", "deliver", "paste", "restore", "dwell", "gone"}
  /\ mode \in Modes /\ vad \in {"none", "running", "failed"} /\ dictationShown \in D!States
  /\ clip \in D!Contents /\ saved \in D!Contents \cup {"nothing"}

(* What the worker holds at each of its steps: the lease from before_take  *)
(* on, the microphone from its start to finish_take, the gate from where   *)
(* it is raised, the user's clipboard between snapshot and restore; and    *)
(* the state it shows while it waits and rests.                            *)
Holds ==
  /\ dictationPc \in {"wait", "poll"} => failures < MaxFailures /\ dictationShown = "preparing"
  /\ dictationPc \in {"rest", "gone"} => dictationShown \in {"idle", "preparing"}
  /\ lease => dictationPc \notin {"wait", "poll", "rest", "lease", "gone"}
  /\ mic => dictationPc \in {"gate", "listen", "finish"}
  /\ dictationPc \in {"listen", "finish"} => dictationGate
  /\ dictationGate => dictationPc \in {"listen", "finish", "decode", "deliver", "paste",
                                       "restore", "dwell"}
  /\ D!SilenceTypesNothing
  /\ clip = "transcript" => spoilt \/ dictationPc \in {"paste", "restore"}
  /\ saved = "transcript" => spoilt
  /\ dictationPc \in {"paste", "restore"} => saved # "nothing"

(* Commands name a mode the build has.                                     *)
LEMMA CommandsHaveModes ==
  ASSUME D!DictationAssumption
  PROVE  /\ \A m \in Modes : D!Press(m, "key") \in D!Commands /\ D!Press(m, "wake") \in D!Commands
         /\ D!Release \in D!Commands
         /\ \A c \in D!Commands : c.mode \in Modes
<1>1. "Inject" \in Modes
  BY DEF D!DictationAssumption
<1>2. ASSUME NEW c \in D!Commands
      PROVE  c.mode \in Modes
  <2>1. (\E m \in Modes, by \in {"key", "wake"} : c = D!Press(m, by)) \/ c = D!Release
    BY DEF D!Commands
  <2> QED BY <1>1, <2>1 DEF D!Press, D!Release
<1> QED BY <1>2 DEF D!Commands

(* Every step keeps the counts in their bounds.                            *)
LEMMA CountsStep ==
  ASSUME D!DictationAssumption, Counts, Holds, [D!Next]_(D!vars)
  PROVE  Counts'
<1>0. MaxFailures \in Nat /\ MaxTake \in Nat /\ MaxCommands \in Nat /\ 0 < MaxFailures
  BY DEF D!DictationAssumption
<1>1. \A c \in D!Commands : D!Send(c) =>
        dictationQueue' \in Seq(D!Commands) /\ sent' \in 0..MaxCommands
  BY <1>0 DEF D!Send, Counts
<1>2. ASSUME NEW m \in Modes, D!KeyPressed(m) \/ D!WakeDetected(m)
      PROVE  Counts'
  <2>1. CASE D!KeyPressed(m)
    <3>1. D!Send(D!Press(m, "key")) /\ UNCHANGED <<failures, ticks, wake>>
      BY <2>1 DEF D!KeyPressed, D!take
    <3> QED BY <1>1, <3>1, CommandsHaveModes DEF Counts
  <2>2. CASE D!WakeDetected(m)
    BY <2>2 DEF D!WakeDetected, D!take, Counts
  <2> QED BY <1>2, <2>1, <2>2
<1>3. CASE D!KeyReleased
  BY <1>1, <1>3, CommandsHaveModes DEF D!KeyReleased, D!take, Counts
<1>4. CASE D!WakeTrigger
  <2>1. Head(wake) \in Modes /\ Tail(wake) \in Seq(Modes)
    BY <1>4, HeadTailProperties DEF D!WakeTrigger, Counts
  <2> QED BY <1>1, <1>4, <2>1, CommandsHaveModes DEF D!WakeTrigger, D!take, Counts
<1>5. CASE D!Close
  BY <1>5, EmptySeq DEF D!Close, D!take, Counts
<1>6. CASE D!WaitDrop \/ D!Receive \/ D!Hear
  <2>1. Tail(dictationQueue) \in Seq(D!Commands)
    BY <1>6, HeadTailProperties DEF D!WaitDrop, D!Receive, D!Hear, Counts
  <2>2. dictationQueue' = Tail(dictationQueue) /\ UNCHANGED <<sent, failures, ticks, wake>>
    BY <1>6 DEF D!WaitDrop, D!Receive, D!Hear, D!take
  <2> QED BY <2>1, <2>2 DEF Counts
<1>7. ASSUME NEW answer \in {"preparing", "down", "end"}, D!Health(answer)
      PROVE  Counts'
  <2>1. /\ failures' \in {0, failures, failures + 1} /\ failures < MaxFailures
        /\ UNCHANGED <<dictationQueue, sent, ticks, wake>>
    BY <1>7 DEF D!Health, D!take, Holds
  <2> QED BY <1>0, <2>1 DEF Counts
<1>8. CASE D!RaiseGate
  BY <1>0, <1>8 DEF D!RaiseGate, Counts
<1>9. ASSUME NEW heard \in BOOLEAN, NEW outcome \in {"go", "end", "fail"},
             D!Tick(heard, outcome)
      PROVE  Counts'
  <2>1. ticks' = ticks + 1 /\ ticks < MaxTake /\ UNCHANGED <<dictationQueue, sent, failures, wake>>
    BY <1>9 DEF D!Tick
  <2> QED BY <1>0, <2>1 DEF Counts
<1>10. CASE UNCHANGED <<dictationQueue, sent, failures, ticks, wake>>
  BY <1>10 DEF Counts
<1> QED
  BY <1>2, <1>3, <1>4, <1>5, <1>6, <1>7, <1>8, <1>9, <1>10
     DEF D!Next, D!Worker, D!Environment, D!Listening, D!SetSuppress, D!WaitPoll,
         D!Shutdown, D!BeforeTake, D!CaptureStart, D!Disconnected, D!FinishTake, D!Decode,
         D!Dispatch, D!Inject, D!Paste, D!Restore, D!DwellEnds, D!take, D!vars

(* Every step leaves a flag a flag.                                        *)
LEMMA FlagsStep ==
  ASSUME Flags, [D!Next]_(D!vars)
  PROVE  Flags'
<1> USE DEF Flags
<1>1. CASE D!Environment
  BY <1>1 DEF D!Environment, D!KeyPressed, D!WakeDetected, D!KeyReleased, D!WakeTrigger,
              D!Close, D!SetSuppress, D!Send, D!take, D!board
<1>2. CASE D!WaitDrop \/ D!WaitPoll \/ (\E answer \in {"preparing", "down", "end"} : D!Health(answer))
  BY <1>2 DEF D!WaitDrop, D!WaitPoll, D!Health, D!take, D!board
<1>3. CASE D!Receive \/ D!Shutdown \/ D!RaiseGate
  BY <1>3 DEF D!Receive, D!Shutdown, D!RaiseGate, D!take, D!board
<1>4. CASE D!Listening
  BY <1>4 DEF D!Listening, D!Hear, D!Disconnected, D!Tick, D!take, D!board
<1>5. CASE D!Dispatch \/ D!Restore \/ D!DwellEnds
  BY <1>5 DEF D!Dispatch, D!Restore, D!DwellEnds, D!BackToRest, D!board
<1>6. ASSUME NEW ok \in BOOLEAN, D!BeforeTake(ok) \/ D!CaptureStart(ok)
      PROVE  Flags'
  BY <1>6 DEF D!BeforeTake, D!CaptureStart, D!BackToRest, D!board
<1>7. ASSUME NEW ok \in BOOLEAN, D!FinishTake(ok) \/ D!Decode(ok) \/ D!Paste(ok)
      PROVE  Flags'
  BY <1>7 DEF D!FinishTake, D!Decode, D!Paste, D!BackToRest, D!Fail, D!take, D!board
<1>8. ASSUME NEW ok \in BOOLEAN, NEW empty \in BOOLEAN, D!Inject(empty, ok)
      PROVE  Flags'
  BY <1>8 DEF D!Inject, D!BackToRest, D!Snapshot, D!Fail, D!take, D!board
<1>9. CASE UNCHANGED D!vars
  BY <1>9 DEF D!vars, D!take, D!board
<1> QED BY <1>1, <1>2, <1>3, <1>4, <1>5, <1>6, <1>7, <1>8, <1>9 DEF D!Next, D!Worker

(* Every step comes to a step, a state and a mode that there is.           *)
LEMMA NamesStep ==
  ASSUME D!DictationAssumption, Counts, Names, Holds, [D!Next]_(D!vars)
  PROVE  Names'
<1> USE DEF Names, D!States, D!Contents
<1>1. CASE D!Environment
  BY <1>1 DEF D!Environment, D!KeyPressed, D!WakeDetected, D!KeyReleased, D!WakeTrigger,
              D!Close, D!SetSuppress, D!Send, D!take, D!board
<1>2. CASE D!WaitDrop \/ D!WaitPoll \/ (\E answer \in {"preparing", "down", "end"} : D!Health(answer))
  BY <1>2 DEF D!WaitDrop, D!WaitPoll, D!Health, D!take, D!board
<1>3. CASE D!Receive
  <2>1. Head(dictationQueue) \in D!Commands
    BY <1>3, HeadTailProperties DEF D!Receive, Counts
  <2> QED BY <1>3, <2>1, CommandsHaveModes DEF D!Receive, D!take, D!board
<1>4. CASE D!Shutdown \/ D!RaiseGate
  BY <1>4 DEF D!Shutdown, D!RaiseGate, D!take, D!board
<1>5. CASE D!Listening
  BY <1>5 DEF D!Listening, D!Hear, D!Disconnected, D!Tick, D!take, D!board
<1>6. CASE D!Dispatch \/ D!Restore \/ D!DwellEnds
  BY <1>6 DEF D!Dispatch, D!Restore, D!DwellEnds, D!BackToRest, D!board, Holds
<1>7. ASSUME NEW ok \in BOOLEAN, D!BeforeTake(ok) \/ D!CaptureStart(ok)
      PROVE  Names'
  BY <1>7 DEF D!BeforeTake, D!CaptureStart, D!BackToRest, D!board
<1>8. ASSUME NEW ok \in BOOLEAN, D!FinishTake(ok) \/ D!Decode(ok) \/ D!Paste(ok)
      PROVE  Names'
  BY <1>8 DEF D!FinishTake, D!Decode, D!Paste, D!BackToRest, D!Fail, D!take, D!board
<1>9. ASSUME NEW ok \in BOOLEAN, NEW empty \in BOOLEAN, D!Inject(empty, ok)
      PROVE  Names'
  BY <1>9 DEF D!Inject, D!BackToRest, D!Snapshot, D!Fail, D!take, D!board
<1>10. CASE UNCHANGED D!vars
  BY <1>10 DEF D!vars, D!take, D!board
<1> QED BY <1>1, <1>2, <1>3, <1>4, <1>5, <1>6, <1>7, <1>8, <1>9, <1>10 DEF D!Next, D!Worker

(* Every exit of a take gives back what the take holds.                    *)
LEMMA HoldsStep ==
  ASSUME D!DictationAssumption, Counts, Flags, Names, Holds, [D!Next]_(D!vars)
  PROVE  Holds'
<1> USE DEF Holds, D!SilenceTypesNothing
<1>1. CASE D!Environment
  BY <1>1 DEF D!Environment, D!KeyPressed, D!WakeDetected, D!KeyReleased, D!WakeTrigger,
              D!Close, D!SetSuppress, D!Send, D!take, D!board
<1>2. CASE D!WaitDrop \/ D!WaitPoll
  BY <1>2 DEF D!WaitDrop, D!WaitPoll, D!take, D!board
<1>3. ASSUME NEW answer \in {"preparing", "down", "end"}, D!Health(answer)
      PROVE  Holds'
  <2>1. failures' = MaxFailures \/ failures' < MaxFailures
    <3>1. failures' \in {0, failures, failures + 1} /\ failures < MaxFailures
      BY <1>3 DEF D!Health
    <3> QED BY <3>1 DEF Counts, D!DictationAssumption
  <2> QED BY <1>3, <2>1 DEF D!Health, D!take, D!board
<1>4. CASE D!Receive \/ D!Shutdown \/ D!RaiseGate
  BY <1>4 DEF D!Receive, D!Shutdown, D!RaiseGate, D!take, D!board
<1>5. CASE D!Listening
  BY <1>5 DEF D!Listening, D!Hear, D!Disconnected, D!Tick, D!take, D!board
<1>6. CASE D!Dispatch \/ D!Restore \/ D!DwellEnds
  <2>1. CASE D!Dispatch
    BY <2>1 DEF D!Dispatch, D!BackToRest, D!board
  <2>2. CASE D!DwellEnds
    BY <2>2 DEF D!DwellEnds, D!BackToRest, D!board
  <2>3. CASE D!Restore
    <3>1. /\ dictationPc' = "rest" /\ dictationShown' = "idle" /\ lease' = FALSE
          /\ dictationGate' = FALSE /\ saved' = "nothing" /\ mic' = mic /\ ~mic
      BY <2>3 DEF D!Restore, D!BackToRest
    <3>2. clip' = "transcript" => spoilt'
      BY <2>3 DEF D!Restore
    <3> QED BY <3>1, <3>2
  <2> QED BY <1>6, <2>1, <2>2, <2>3
<1>7. ASSUME NEW ok \in BOOLEAN, D!BeforeTake(ok) \/ D!CaptureStart(ok)
      PROVE  Holds'
  BY <1>7 DEF D!BeforeTake, D!CaptureStart, D!BackToRest, D!board
<1>8. ASSUME NEW ok \in BOOLEAN, D!FinishTake(ok) \/ D!Decode(ok) \/ D!Paste(ok)
      PROVE  Holds'
  BY <1>8 DEF D!FinishTake, D!Worth, D!Decode, D!Paste, D!BackToRest, D!Fail, D!take, D!board
<1>9. ASSUME NEW ok \in BOOLEAN, NEW empty \in BOOLEAN, D!Inject(empty, ok)
      PROVE  Holds'
  <2>0. dictationPc = "deliver" /\ UNCHANGED <<failures, mic, vad, spoken>>
    BY <1>9 DEF D!Inject
  <2>1. CASE empty
    BY <1>9, <2>0, <2>1 DEF D!Inject, D!BackToRest, D!board
  <2>2. CASE ~empty /\ ok
    <3>1. /\ saved' = clip /\ clip' = "transcript" /\ dictationPc' = "paste"
          /\ UNCHANGED <<lease, dictationGate, dictationShown, spoilt>>
      BY <1>9, <2>2 DEF D!Inject, D!Snapshot
    <3>2. clip # "nothing" /\ ~mic
      BY <2>0 DEF Names, D!Contents
    <3> QED BY <2>0, <3>1, <3>2
  <2>3. CASE ~empty /\ ~ok
    BY <1>9, <2>0, <2>3 DEF D!Inject, D!Fail, D!board
  <2> QED BY <2>1, <2>2, <2>3
<1>10. CASE UNCHANGED D!vars
  BY <1>10 DEF D!vars, D!take, D!board
<1> QED BY <1>1, <1>2, <1>3, <1>4, <1>5, <1>6, <1>7, <1>8, <1>9, <1>10 DEF D!Next, D!Worker

(* Only the way back to rest gives up the lease, with the microphone       *)
(* closed.                                                                 *)
LEMMA LeaseStep ==
  ASSUME Flags, Holds, [D!Next]_(D!vars), lease, ~lease'
  PROVE  dictationPc' = "rest" /\ ~mic'
<1> USE DEF Holds
<1>1. CASE D!Environment
  BY <1>1 DEF D!Environment, D!KeyPressed, D!WakeDetected, D!KeyReleased, D!WakeTrigger,
              D!Close, D!SetSuppress, D!take
<1>2. CASE D!WaitDrop \/ D!WaitPoll \/ D!Receive \/ D!Shutdown \/ D!RaiseGate \/ D!Listening
  BY <1>2 DEF D!WaitDrop, D!WaitPoll, D!Receive, D!Shutdown, D!RaiseGate, D!Listening,
              D!Hear, D!Disconnected, D!Tick, D!take
<1>3. ASSUME NEW answer \in {"preparing", "down", "end"}, D!Health(answer)
      PROVE  FALSE
  BY <1>3 DEF D!Health, D!take
<1>4. CASE D!Dispatch \/ D!Restore \/ D!DwellEnds
  BY <1>4 DEF D!Dispatch, D!Restore, D!DwellEnds, D!BackToRest, Flags
<1>5. ASSUME NEW ok \in BOOLEAN, D!BeforeTake(ok) \/ D!Decode(ok) \/ D!Paste(ok)
      PROVE  FALSE
  BY <1>5 DEF D!BeforeTake, D!Decode, D!Paste, D!Fail, D!take
<1>6. ASSUME NEW ok \in BOOLEAN, D!CaptureStart(ok) \/ D!FinishTake(ok)
      PROVE  dictationPc' = "rest" /\ ~mic'
  BY <1>6 DEF D!CaptureStart, D!FinishTake, D!BackToRest, Flags
<1>7. ASSUME NEW ok \in BOOLEAN, NEW empty \in BOOLEAN, D!Inject(empty, ok)
      PROVE  dictationPc' = "rest" /\ ~mic'
  BY <1>7 DEF D!Inject, D!BackToRest, D!Fail, Flags
<1>8. CASE UNCHANGED D!vars
  BY <1>8 DEF D!vars
<1> QED BY <1>1, <1>2, <1>3, <1>4, <1>5, <1>6, <1>7, <1>8 DEF D!Next, D!Worker

(* The parts make up the component's invariant.                            *)
DictationPart == part = "dictation" => Counts /\ Flags /\ Names /\ Holds

(* At the start the worker waits for its model and holds nothing.          *)
LEMMA DictationInit == D!DictationAssumption /\ D!Init => Counts /\ Flags /\ Names /\ Holds
<1> SUFFICES ASSUME D!DictationAssumption, D!Init
             PROVE  Counts /\ Flags /\ Names /\ Holds
  OBVIOUS
<1>1. Counts
  BY EmptySeq DEF D!Init, D!DictationAssumption, Counts
<1>2. Flags
  BY DEF D!Init, Flags
<1>3. Names
  BY DEF D!Init, D!DictationAssumption, Names, D!States, D!Contents
<1>4. Holds
  BY DEF D!Init, D!DictationAssumption, Holds, D!SilenceTypesNothing
<1> QED BY <1>1, <1>2, <1>3, <1>4

(* What the worker's parts say together.                                   *)
LEMMA DictationMeans ==
  ASSUME Counts, Flags, Names, Holds
  PROVE  D!DictationInv
<1>1. D!DictationTypeOK
  BY DEF Counts, Flags, Names, D!DictationTypeOK
<1>2. D!RestsClean /\ D!GateCoversMic /\ D!SilenceTypesNothing /\ D!ClipboardBack
  BY DEF Flags, Names, Holds, D!RestsClean, D!GateCoversMic, D!ClipboardBack
<1> QED BY <1>1, <1>2 DEF D!DictationInv

-----------------------------------------------------------------------------
(* The detector of the end of an utterance                                 *)

Energetic == {"energy", "speech"}

(* `last` is the index, from 0, of the last frame of h whose band is one   *)
(* of these.                                                               *)
LastOf(h, last, bands) ==
  \/ last = E!Never /\ \A i \in 1..Len(h) : h[i] \notin bands
  \/ /\ last \in 0..(Len(h) - 1) /\ h[last + 1] \in bands
     /\ \A i \in 1..Len(h) : i > last + 1 => h[i] \notin bands

SpeechIn(h) == {i \in 1..Len(h) : h[i] = "speech"}

(* The rule on a history, said of any sequence of bands.                   *)
OverIn(h, n) ==
  LET voiced == {i \in 1..n : h[i] = "speech"} IN
  \/ voiced = {} /\ n >= NoSpeech
  \/ voiced # {} /\ n > Silence /\ \A i \in (n - Silence + 1)..n : h[i] = "quiet"
  \/ voiced # {} /\ n > Hold /\ \A i \in (n - Hold + 1)..n : h[i] # "speech"

(* What the detector holds: its counters are those of the frames heard.    *)
Frames ==
  /\ endpointHeard \in Seq(E!Bands) /\ Len(endpointHeard) <= MaxFrames
  /\ e \in [frames : Nat, speech : Nat, lastSpeech : Nat, lastEnergy : Nat, ended : BOOLEAN]
  /\ takes \in 0..MaxTakes

Counters ==
  /\ e.frames = Len(endpointHeard) /\ e.speech = Cardinality(SpeechIn(endpointHeard))
  /\ LastOf(endpointHeard, e.lastSpeech, {"speech"})
  /\ LastOf(endpointHeard, e.lastEnergy, Energetic)

(* A frame is scored with its own take's context, or with none.            *)
OwnContext == context \in {0, takes} /\ judged \subseteq {0, takes}

(* One frame more: the last frame of a kind is that frame or the last one. *)
LEMMA LastOfAppend ==
  ASSUME NEW h \in Seq(E!Bands), NEW b \in E!Bands, NEW last \in Nat, NEW bands,
         E!EndpointAssumption, Len(h) < MaxFrames, LastOf(h, last, bands)
  PROVE  LastOf(Append(h, b), IF b \in bands THEN Len(h) ELSE last, bands)
<1> DEFINE g == Append(h, b)
<1>1. /\ Len(g) = Len(h) + 1 /\ Len(h) \in Nat /\ g[Len(h) + 1] = b
      /\ \A i \in 1..Len(h) : g[i] = h[i]
  OBVIOUS
<1>2. CASE b \in bands
  <2>1. Len(h) \in 0..(Len(g) - 1) /\ g[Len(h) + 1] \in bands
    BY <1>1, <1>2
  <2>2. \A i \in 1..Len(g) : ~(i > Len(h) + 1)
    BY <1>1
  <2> HIDE DEF g
  <2> QED BY <1>2, <2>1, <2>2 DEF LastOf
<1>3. CASE b \notin bands
  <2>1. CASE last = E!Never /\ \A i \in 1..Len(h) : h[i] \notin bands
    <3>1. \A i \in 1..Len(g) : g[i] \notin bands
      BY <1>1, <1>3, <2>1
    <3> HIDE DEF g
    <3> QED BY <1>3, <2>1, <3>1 DEF LastOf
  <2>2. CASE /\ last \in 0..(Len(h) - 1) /\ h[last + 1] \in bands
             /\ \A i \in 1..Len(h) : i > last + 1 => h[i] \notin bands
    <3>1. last \in 0..(Len(g) - 1) /\ g[last + 1] \in bands
      BY <1>1, <2>2
    <3>2. \A i \in 1..Len(g) : i > last + 1 => g[i] \notin bands
      BY <1>1, <1>3, <2>2
    <3> HIDE DEF g
    <3> QED BY <1>3, <3>1, <3>2 DEF LastOf
  <2> QED BY <2>1, <2>2 DEF LastOf
<1> QED BY <1>2, <1>3

(* Counting the speech as it comes counts the speech that was heard.       *)
LEMMA SpeechInAppend ==
  ASSUME NEW h \in Seq(E!Bands), NEW b \in E!Bands
  PROVE  /\ Cardinality(SpeechIn(h)) \in 0..Len(h)
         /\ Cardinality(SpeechIn(Append(h, b)))
              = Cardinality(SpeechIn(h)) + (IF b = "speech" THEN 1 ELSE 0)
<1> DEFINE g == Append(h, b)
<1>1. /\ Len(g) = Len(h) + 1 /\ Len(h) \in Nat /\ g[Len(h) + 1] = b
      /\ \A i \in 1..Len(h) : g[i] = h[i]
  OBVIOUS
<1>2. IsFiniteSet(1..Len(h)) /\ Cardinality(1..Len(h)) = Len(h)
  BY <1>1, FS_Interval, SMTT(30)
<1>3. IsFiniteSet(SpeechIn(h)) /\ Cardinality(SpeechIn(h)) <= Len(h)
  BY <1>2, FS_Subset DEF SpeechIn
<1>4. Cardinality(SpeechIn(h)) \in Nat
  BY <1>3, FS_CardinalityType
<1>5. Len(h) + 1 \notin SpeechIn(h)
  BY <1>1 DEF SpeechIn
<1>6. SpeechIn(g) = IF b = "speech" THEN SpeechIn(h) \cup {Len(h) + 1} ELSE SpeechIn(h)
  BY <1>1 DEF SpeechIn
<1>7. Cardinality(SpeechIn(h) \cup {Len(h) + 1}) = Cardinality(SpeechIn(h)) + 1
  BY <1>3, <1>5, FS_AddElement
<1> HIDE DEF g
<1>8. Cardinality(SpeechIn(g)) = Cardinality(SpeechIn(h)) + (IF b = "speech" THEN 1 ELSE 0)
  BY <1>4, <1>6, <1>7
<1> QED BY <1>1, <1>3, <1>4, <1>8 DEF g

(* The two distances the detector looks at say what the rule says of the   *)
(* whole history.                                                          *)
LEMMA MarksDecide ==
  ASSUME E!EndpointAssumption, NEW h \in Seq(E!Bands), Len(h) \in 1..MaxFrames,
         NEW r, r.frames = Len(h), r.lastSpeech \in Nat, r.lastEnergy \in Nat,
         LastOf(h, r.lastSpeech, {"speech"}), LastOf(h, r.lastEnergy, Energetic)
  PROVE  E!Decide(r, Len(h) - 1) <=> OverIn(h, Len(h))
<1> DEFINE n == Len(h)
           voiced == {i \in 1..n : h[i] = "speech"}
<1>0. /\ Silence \in Nat /\ Hold \in Nat /\ NoSpeech \in Nat /\ MaxFrames \in Nat
      /\ Silence > 0 /\ Hold > 0 /\ n \in Nat /\ 0 < n /\ n < E!Never
  BY DEF E!EndpointAssumption, E!Never
<1>1. CASE r.lastSpeech = E!Never
  <2>1. voiced = {}
    BY <1>0, <1>1 DEF LastOf
  <2> QED BY <1>1, <2>1 DEF E!Decide, OverIn
<1>2. CASE r.lastSpeech # E!Never
  <2>1. /\ r.lastSpeech \in 0..(n - 1) /\ h[r.lastSpeech + 1] = "speech"
        /\ \A i \in 1..n : i > r.lastSpeech + 1 => h[i] # "speech"
    BY <1>2 DEF LastOf
  <2>2. r.lastSpeech + 1 \in voiced
    BY <1>0, <2>1
  <2>3. /\ r.lastEnergy \in 0..(n - 1) /\ h[r.lastEnergy + 1] \in Energetic
        /\ \A i \in 1..n : i > r.lastEnergy + 1 => h[i] \notin Energetic
    <3>1. r.lastSpeech + 1 \in 1..n /\ h[r.lastSpeech + 1] \in Energetic
      BY <1>0, <2>1 DEF Energetic
    <3> QED BY <3>1 DEF LastOf
  <2>4. \A i \in 1..n : h[i] \in Energetic <=> h[i] # "quiet"
    BY DEF E!Bands, Energetic
  <2>5. n - 1 - r.lastEnergy >= Silence
          <=> n > Silence /\ \A i \in (n - Silence + 1)..n : h[i] = "quiet"
    <3>1. ASSUME n - 1 - r.lastEnergy >= Silence
          PROVE  n > Silence /\ \A i \in (n - Silence + 1)..n : h[i] = "quiet"
      <4>1. n > Silence
        BY <1>0, <2>3, <3>1
      <4>2. ASSUME NEW i \in (n - Silence + 1)..n
            PROVE  h[i] = "quiet"
        <5>1. i \in 1..n /\ i > r.lastEnergy + 1
          BY <1>0, <2>3, <3>1, <4>1
        <5> QED BY <2>3, <2>4, <5>1
      <4> QED BY <4>1, <4>2
    <3>2. ASSUME n > Silence, \A i \in (n - Silence + 1)..n : h[i] = "quiet"
          PROVE  n - 1 - r.lastEnergy >= Silence
      <4>1. r.lastEnergy + 1 \in 1..n /\ h[r.lastEnergy + 1] # "quiet"
        BY <1>0, <2>3 DEF Energetic
      <4>2. ~(r.lastEnergy + 1 \in (n - Silence + 1)..n)
        BY <3>2, <4>1
      <4> QED BY <1>0, <2>3, <4>1, <4>2
    <3> QED BY <3>1, <3>2
  <2>6. n - 1 - r.lastSpeech >= Hold
          <=> n > Hold /\ \A i \in (n - Hold + 1)..n : h[i] # "speech"
    <3>1. ASSUME n - 1 - r.lastSpeech >= Hold
          PROVE  n > Hold /\ \A i \in (n - Hold + 1)..n : h[i] # "speech"
      BY <1>0, <2>1, <3>1
    <3>2. ASSUME n > Hold, \A i \in (n - Hold + 1)..n : h[i] # "speech"
          PROVE  n - 1 - r.lastSpeech >= Hold
      <4>1. ~(r.lastSpeech + 1 \in (n - Hold + 1)..n)
        BY <2>1, <3>2
      <4> QED BY <1>0, <2>1, <4>1
    <3> QED BY <3>1, <3>2
  <2>7. voiced # {}
    BY <2>2
  <2>8. OverIn(h, n) <=>
          \/ n > Silence /\ \A i \in (n - Silence + 1)..n : h[i] = "quiet"
          \/ n > Hold /\ \A i \in (n - Hold + 1)..n : h[i] # "speech"
    BY <2>7 DEF OverIn
  <2>9. E!Decide(r, n - 1) <=> n - 1 - r.lastEnergy >= Silence \/ n - 1 - r.lastSpeech >= Hold
    BY <1>2 DEF E!Decide
  <2> QED BY <2>5, <2>6, <2>8, <2>9
<1> QED BY <1>1, <1>2

(* What is over of a history stays so as the history grows.                *)
LEMMA OverInAppend ==
  ASSUME E!EndpointAssumption, NEW h \in Seq(E!Bands), NEW b \in E!Bands, NEW n \in 1..Len(h)
  PROVE  OverIn(Append(h, b), n) <=> OverIn(h, n)
<1> DEFINE g == Append(h, b)
<1>1. \A i \in 1..n : g[i] = h[i]
  OBVIOUS
<1>2. Silence \in Nat /\ Hold \in Nat /\ n \in Nat
  BY DEF E!EndpointAssumption
<1> HIDE DEF g
<1>3. {i \in 1..n : g[i] = "speech"} = {i \in 1..n : h[i] = "speech"}
  BY <1>1
<1>4. n > Silence => ((\A i \in (n - Silence + 1)..n : g[i] = "quiet")
                        <=> (\A i \in (n - Silence + 1)..n : h[i] = "quiet"))
  BY <1>1, <1>2
<1>5. n > Hold => ((\A i \in (n - Hold + 1)..n : g[i] # "speech")
                     <=> (\A i \in (n - Hold + 1)..n : h[i] # "speech"))
  BY <1>1, <1>2
<1>6. OverIn(g, n) <=> OverIn(h, n)
  BY <1>3, <1>4, <1>5 DEF OverIn
<1> QED BY <1>6 DEF g

(* A frame is counted as the rule on the whole history counts it.          *)
LEMMA FrameStep ==
  ASSUME E!EndpointAssumption, Frames, Counters, OwnContext, E!EndsByTheRule,
         NEW b \in E!Bands, E!Frame(b)
  PROVE  Frames' /\ Counters' /\ OwnContext' /\ E!EndsByTheRule'
<1> DEFINE h == endpointHeard
           n == Len(endpointHeard)
<1>0. /\ h \in Seq(E!Bands) /\ n \in Nat /\ n < MaxFrames /\ MaxFrames \in Nat
      /\ endpointHeard' = Append(h, b) /\ e' = E!Observe(e, b) /\ ~e.ended
      /\ takes' = takes /\ context' = takes /\ judged' = judged \cup {context}
  BY DEF E!Frame, Frames, E!EndpointAssumption
<1>1. Len(endpointHeard') = n + 1 /\ endpointHeard' \in Seq(E!Bands)
  BY <1>0
<1> DEFINE next == [e EXCEPT !.frames = @ + 1,
                             !.speech = IF b = "speech" THEN @ + 1 ELSE @,
                             !.lastSpeech = IF b = "speech" THEN n ELSE @,
                             !.lastEnergy = IF b = "quiet" THEN @ ELSE n]
<1>2. e' = [next EXCEPT !.ended = E!Decide(next, n)]
  BY <1>0 DEF E!Observe, Counters
<1>3. /\ e'.frames = n + 1
      /\ e'.speech = e.speech + (IF b = "speech" THEN 1 ELSE 0)
      /\ e'.lastSpeech = (IF b \in {"speech"} THEN n ELSE e.lastSpeech)
      /\ e'.lastEnergy = (IF b \in Energetic THEN n ELSE e.lastEnergy)
      /\ e' \in [frames : Nat, speech : Nat, lastSpeech : Nat, lastEnergy : Nat, ended : BOOLEAN]
  <2>1. b = "quiet" <=> b \notin Energetic
    BY DEF E!Bands, Energetic
  <2>2. E!Decide(next, n) \in BOOLEAN
    <3>1. (next.frames >= NoSpeech) \in BOOLEAN
      OBVIOUS
    <3>2. (n - next.lastEnergy >= Silence \/ n - next.lastSpeech >= Hold) \in BOOLEAN
      OBVIOUS
    <3> HIDE DEF next
    <3> QED BY <3>1, <3>2, Zenon DEF E!Decide
  <2>3. e \in [frames : Nat, speech : Nat, lastSpeech : Nat, lastEnergy : Nat, ended : BOOLEAN]
        /\ e.frames = n
    BY DEF Frames, Counters
  <2>4. next \in [frames : Nat, speech : Nat, lastSpeech : Nat, lastEnergy : Nat, ended : BOOLEAN]
    <3>1. /\ e.frames + 1 \in Nat /\ (IF b = "speech" THEN e.speech + 1 ELSE e.speech) \in Nat
          /\ (IF b = "speech" THEN n ELSE e.lastSpeech) \in Nat
          /\ (IF b = "quiet" THEN e.lastEnergy ELSE n) \in Nat
      BY <1>0, <2>3
    <3>2. ASSUME NEW f \in Nat, NEW s \in Nat, NEW ls \in Nat, NEW le \in Nat
          PROVE  [e EXCEPT !.frames = f, !.speech = s, !.lastSpeech = ls, !.lastEnergy = le]
                   \in [frames : Nat, speech : Nat, lastSpeech : Nat, lastEnergy : Nat, ended : BOOLEAN]
      BY <2>3
    <3> QED BY <3>1, <3>2
  <2>5. /\ next.frames = n + 1
        /\ next.speech = e.speech + (IF b = "speech" THEN 1 ELSE 0)
        /\ next.lastSpeech = (IF b \in {"speech"} THEN n ELSE e.lastSpeech)
        /\ next.lastEnergy = (IF b \in Energetic THEN n ELSE e.lastEnergy)
    BY <1>0, <2>1, <2>3
  <2> HIDE DEF next
  <2>6. /\ e' \in [frames : Nat, speech : Nat, lastSpeech : Nat, lastEnergy : Nat, ended : BOOLEAN]
        /\ e'.frames = next.frames /\ e'.speech = next.speech
        /\ e'.lastSpeech = next.lastSpeech /\ e'.lastEnergy = next.lastEnergy
    BY <1>2, <2>2, <2>4
  <2> QED BY <2>5, <2>6
<1>4. e'.ended <=> E!Decide(e', n)
  <2>1. e'.ended = E!Decide(next, n)
    <3>1. e \in [frames : Nat, speech : Nat, lastSpeech : Nat, lastEnergy : Nat, ended : BOOLEAN]
      BY DEF Frames
    <3> QED BY <1>2, <3>1
  <2>2. e'.frames = next.frames /\ e'.lastSpeech = next.lastSpeech /\ e'.lastEnergy = next.lastEnergy
    BY <1>2
  <2> QED BY <2>1, <2>2 DEF E!Decide
<1> HIDE DEF next
<1>5. Frames'
  BY <1>0, <1>1, <1>3 DEF Frames
<1>6. Counters'
  <2>1. LastOf(endpointHeard', e'.lastSpeech, {"speech"})
    BY <1>0, <1>3, LastOfAppend DEF Frames, Counters
  <2>2. LastOf(endpointHeard', e'.lastEnergy, Energetic)
    BY <1>0, <1>3, LastOfAppend DEF Frames, Counters
  <2>3. e'.speech = Cardinality(SpeechIn(endpointHeard'))
    BY <1>0, <1>3, SpeechInAppend DEF Counters
  <2> QED BY <1>1, <1>3, <2>1, <2>2, <2>3 DEF Counters
<1>7. OwnContext'
  BY <1>0 DEF OwnContext
<1>8. E!EndsByTheRule'
  <2>1. \A k \in Nat : E!Over(k) <=> OverIn(h, k)
    BY DEF E!Over, OverIn
  <2>3. e'.ended <=> OverIn(endpointHeard', n + 1)
    <3>1. n + 1 \in 1..MaxFrames /\ (n + 1) - 1 = n
      BY <1>0
    <3> QED BY <1>1, <1>3, <1>4, <1>6, <3>1, MarksDecide DEF Counters
  <2>4. \A k \in 1..n : ~OverIn(h, k)
    <3>1. \A k \in 1..(n - 1) : ~E!Over(k)
      BY DEF E!EndsByTheRule
    <3>2. ~E!Over(n)
      BY <1>0 DEF E!EndsByTheRule
    <3> QED BY <1>0, <2>1, <3>1, <3>2
  <2>5. \A k \in 1..n : ~OverIn(endpointHeard', k)
    BY <1>0, <2>4, OverInAppend
  <2>6. E!EndsByTheRule' <=>
          /\ e'.ended <=> OverIn(endpointHeard', Len(endpointHeard'))
          /\ \A k \in 1..(Len(endpointHeard') - 1) : ~OverIn(endpointHeard', k)
    BY DEF E!EndsByTheRule, E!Over, OverIn
  <2> QED BY <1>0, <1>1, <2>3, <2>5, <2>6
<1> QED BY <1>5, <1>6, <1>7, <1>8

(* A take begins with nothing heard, and no take's context.                *)
LEMMA FreshDetector ==
  ASSUME E!EndpointAssumption, NEW detector, NEW frames,
         detector = E!New, frames = <<>>
  PROVE  /\ frames \in Seq(E!Bands) /\ Len(frames) = 0 /\ SpeechIn(frames) = {}
         /\ detector.frames = 0 /\ detector.speech = 0 /\ ~detector.ended
         /\ detector \in [frames : Nat, speech : Nat, lastSpeech : Nat, lastEnergy : Nat, ended : BOOLEAN]
         /\ LastOf(frames, detector.lastSpeech, {"speech"})
         /\ LastOf(frames, detector.lastEnergy, Energetic)
         /\ ~OverIn(frames, 0)
<1>1. MaxFrames \in Nat /\ NoSpeech \in Nat /\ NoSpeech > 0 /\ Silence \in Nat /\ Hold \in Nat
  BY DEF E!EndpointAssumption
<1>2. Len(frames) = 0 /\ frames \in Seq(E!Bands)
  OBVIOUS
<1>3. ~OverIn(frames, 0)
  BY <1>1 DEF OverIn
<1>4. SpeechIn(frames) = {}
  BY <1>2 DEF SpeechIn
<1> QED BY <1>1, <1>2, <1>3, <1>4 DEF E!New, E!Never, LastOf

EndpointHolds == Frames /\ Counters /\ OwnContext /\ E!EndsByTheRule

(* At the start nothing was heard.                                         *)
LEMMA EndpointInit == E!EndpointAssumption /\ E!Init => EndpointHolds
<1> SUFFICES ASSUME E!EndpointAssumption, E!Init
             PROVE  EndpointHolds
  OBVIOUS
<1>1. Len(endpointHeard) = 0 /\ SpeechIn(endpointHeard) = {} /\ ~OverIn(endpointHeard, 0)
  BY FreshDetector DEF E!Init
<1>2. MaxFrames \in Nat /\ MaxTakes \in Nat
  BY DEF E!EndpointAssumption
<1>3. Frames
  BY <1>1, <1>2, FreshDetector DEF E!Init, Frames
<1>4. Counters
  BY <1>1, FreshDetector, FS_EmptySet DEF E!Init, Counters
<1>5. ~E!Over(0)
  BY <1>1 DEF E!Over, OverIn
<1>6. ~e.ended
  BY FreshDetector DEF E!Init
<1>7. E!EndsByTheRule
  BY <1>1, <1>5, <1>6 DEF E!EndsByTheRule
<1>8. OwnContext
  BY DEF E!Init, OwnContext
<1> QED BY <1>3, <1>4, <1>7, <1>8 DEF EndpointHolds

(* Every frame, every buffer and every reset keeps the counters right.     *)
LEMMA EndpointStep ==
  ASSUME E!EndpointAssumption, EndpointHolds, [E!Next]_(E!vars)
  PROVE  EndpointHolds'
<1>1. CASE E!Begin
  <2>1. Len(endpointHeard') = 0 /\ SpeechIn(endpointHeard') = {} /\ ~OverIn(endpointHeard', 0)
    BY <1>1, FreshDetector DEF E!Begin
  <2>2. MaxFrames \in Nat /\ MaxTakes \in Nat
    BY DEF E!EndpointAssumption
  <2>3. takes' \in 0..MaxTakes
    BY <1>1, <2>2 DEF E!Begin, EndpointHolds, Frames
  <2>4. Frames'
    BY <1>1, <2>1, <2>2, <2>3, FreshDetector DEF E!Begin, Frames
  <2>5. Counters'
    BY <1>1, <2>1, FreshDetector, FS_EmptySet DEF E!Begin, Counters
  <2>6. ~E!Over(0)'
    BY <2>1 DEF E!Over, OverIn
  <2>7. ~e'.ended
    BY <1>1, FreshDetector DEF E!Begin
  <2>8. E!EndsByTheRule'
    BY <2>1, <2>6, <2>7 DEF E!EndsByTheRule
  <2>9. OwnContext'
    BY <1>1 DEF E!Begin, E!Reset, OwnContext
  <2> QED BY <2>4, <2>5, <2>8, <2>9 DEF EndpointHolds
<1>2. ASSUME NEW b \in E!Bands, E!Frame(b)
      PROVE  EndpointHolds'
  BY <1>2, FrameStep DEF EndpointHolds
<1>3. CASE UNCHANGED E!vars
  BY <1>3 DEF E!vars, EndpointHolds, Frames, Counters, OwnContext, E!EndsByTheRule, E!Over
<1> QED BY <1>1, <1>2, <1>3 DEF E!Next

(* Counters that are right end a take where the rule says.                 *)
LEMMA EndpointMeans ==
  ASSUME E!EndpointAssumption, EndpointHolds
  PROVE  E!EndpointInv
<1> DEFINE n == Len(endpointHeard)
<1>0. MaxFrames \in Nat /\ Margin \in Nat /\ n \in 0..MaxFrames
  BY DEF E!EndpointAssumption, EndpointHolds, Frames
<1>1. e.lastSpeech \in 0..E!Never /\ e.lastEnergy \in 0..E!Never
  BY <1>0 DEF EndpointHolds, Counters, LastOf, E!Never
<1>2. Cardinality(SpeechIn(endpointHeard)) \in 0..n
  BY SpeechInAppend DEF EndpointHolds, Frames, E!Bands
<1>3. E!EndpointTypeOK
  <2>1. e.frames \in 0..MaxFrames /\ e.speech \in 0..MaxFrames
    BY <1>0, <1>2 DEF EndpointHolds, Counters
  <2>2. e \in [frames : 0..MaxFrames, speech : 0..MaxFrames,
               lastSpeech : 0..E!Never, lastEnergy : 0..E!Never, ended : BOOLEAN]
    BY <1>1, <2>1 DEF EndpointHolds, Frames
  <2>3. MaxTakes \in Nat
    BY DEF E!EndpointAssumption
  <2>4. {context, takes} \subseteq 0..MaxTakes /\ judged \subseteq 0..MaxTakes
    BY <2>3 DEF EndpointHolds, Frames, OwnContext
  <2> QED BY <2>2, <2>4 DEF EndpointHolds, Frames, E!EndpointTypeOK
<1>4. E!KeepsSpeech
  <2> SUFFICES ASSUME NEW i \in 1..n, endpointHeard[i] = "speech"
               PROVE  i <= E!Keep(e)
    BY DEF E!KeepsSpeech
  <2>1. e.lastSpeech # E!Never /\ i <= e.lastSpeech + 1
    BY <1>0, <1>1 DEF EndpointHolds, Counters, LastOf, E!Never
  <2> QED BY <1>0, <1>1, <2>1 DEF E!Keep, E!Never
<1>5. E!DiscardsOnlySilence
  <2>1. e.speech = Cardinality({i \in 1..Len(endpointHeard) : endpointHeard[i] = "speech"})
    BY DEF EndpointHolds, Counters, SpeechIn
  <2> DEFINE voiced == Cardinality({i \in 1..Len(endpointHeard) : endpointHeard[i] = "speech"})
  <2>2. E!HeardSpeech(e) <=> voiced >= MinSpeech
    <3> HIDE DEF voiced
    <3>1. e.speech = voiced
      BY <2>1 DEF voiced
    <3> QED BY <3>1 DEF E!HeardSpeech
  <2>3. E!DiscardsOnlySilence <=> (E!HeardSpeech(e) <=> voiced >= MinSpeech)
    <3>1. \A frames : E!Cardinality(frames) = Cardinality(frames)
      BY Zenon DEF E!Cardinality, Cardinality
    <3> QED BY <3>1, Zenon DEF E!DiscardsOnlySilence
  <2> QED BY <2>2, <2>3
<1> QED BY <1>3, <1>4, <1>5 DEF EndpointHolds, OwnContext, E!NoCarryOver, E!EndpointInv

-----------------------------------------------------------------------------
(* The mute of Discord                                                     *)

(* A helper is there only from its spawn until its lease has dropped.      *)
HelpersAreHeld ==
  \A t \in {"worker", "test"} : helper[t] # "none" =>
    discordMutePc[t] \in {"waiting", "held", "dropping", "dropping failed"}

DiscordHolds == Q!DiscordTypeOK /\ Q!KeyUpWhenUnheld /\ HelpersAreHeld

(* Every step of a taker, its helper and the setup keeps the key up unless *)
(* a helper holds it, and no helper outlives its lease.                    *)
LEMMA DiscordStep ==
  ASSUME DiscordHolds, [Q!Next]_(Q!vars)
  PROVE  DiscordHolds'
<1> DEFINE Taker == {"worker", "test"}
           Places == {"idle", "spawning", "waiting", "held", "failed", "dropping",
                      "dropping failed"}
           Ways == {"none", "starting", "holding", "gone"}
<1>1. Q!DiscordTypeOK'
  <2> USE DEF DiscordHolds, Q!DiscordTypeOK
  <2>1. ASSUME NEW t \in Taker,
               Q!Swap(t) \/ Q!SpawnFails(t) \/ Q!SpawnChild(t) \/ Q!Ready(t) \/ Q!NotReady(t)
                 \/ Q!Release(t) \/ Q!ClearAfterError(t)
        PROVE  Q!DiscordTypeOK'
    <3>1. CASE Q!Swap(t)
      BY <3>1 DEF Q!Swap, Q!Go
    <3>2. CASE Q!SpawnFails(t) \/ Q!SpawnChild(t)
      <4>1. /\ UNCHANGED <<active, down, setup, alive>>
            /\ helper' = helper \/ helper' = [helper EXCEPT ![t] = "starting"]
            /\ \E to \in Places : discordMutePc' = [discordMutePc EXCEPT ![t] = to]
        BY <3>2 DEF Q!SpawnFails, Q!SpawnChild, Q!Go
      <4>2. helper' \in [Taker -> Ways] /\ setup' \in [{"setup"} -> {"idle", "click"}]
        BY <4>1
      <4>3. discordMutePc' \in [Taker -> Places]
        BY <4>1
      <4>4. {active', down', alive'} \subseteq BOOLEAN
        BY <4>1
      <4> QED BY <4>2, <4>3, <4>4
    <3>3. CASE Q!Ready(t) \/ Q!NotReady(t) \/ Q!Release(t) \/ Q!ClearAfterError(t)
      BY <3>3 DEF Q!Ready, Q!NotReady, Q!Release, Q!ClearAfterError, Q!Go
    <3> QED BY <2>1, <3>1, <3>2, <3>3
  <2>2. ASSUME NEW t \in Taker, Q!Dropping(t) \/ Q!Helper(t)
        PROVE  Q!DiscordTypeOK'
    BY <2>2 DEF Q!Dropping, Q!Drop, Q!Go, Q!Reap, Q!Fallback, Q!Helper, Q!HelperPress,
                Q!HelperFails, Q!HelperReleases, Q!Child
  <2>3. CASE Q!Crash \/ \E s \in {"setup"} : Q!SetupCheck(s) \/ Q!SetupClick(s)
    BY <2>3 DEF Q!Crash, Q!SetupCheck, Q!SetupClick
  <2>4. CASE UNCHANGED Q!vars
    BY <2>4 DEF Q!vars
  <2> QED BY <2>1, <2>2, <2>3, <2>4 DEF Q!Next
<1>2. Q!KeyUpWhenUnheld' /\ HelpersAreHeld'
  <2> USE DEF DiscordHolds, Q!KeyUpWhenUnheld, HelpersAreHeld
  <2>0. discordMutePc \in [Taker -> Places] /\ helper \in [Taker -> Ways]
    BY DEF Q!DiscordTypeOK
  <2>1. ASSUME NEW t \in Taker,
               Q!Swap(t) \/ Q!SpawnFails(t) \/ Q!Ready(t) \/ Q!NotReady(t) \/ Q!Release(t)
                 \/ Q!ClearAfterError(t)
        PROVE  Q!KeyUpWhenUnheld' /\ HelpersAreHeld'
    <3>1. /\ UNCHANGED <<helper, down>>
          /\ discordMutePc' = [discordMutePc EXCEPT ![t] = discordMutePc'[t]]
          /\ discordMutePc[t] \in {"waiting", "held"} =>
               discordMutePc'[t] \in {"held", "dropping", "dropping failed"}
          /\ discordMutePc[t] \in {"idle", "spawning", "failed", "waiting", "held"}
      BY <2>0, <2>1 DEF Q!Swap, Q!SpawnFails, Q!Ready, Q!NotReady, Q!Release,
                  Q!ClearAfterError, Q!Go
    <3> QED BY <2>0, <3>1
  <2>2. ASSUME NEW t \in Taker, Q!SpawnChild(t)
        PROVE  Q!KeyUpWhenUnheld' /\ HelpersAreHeld'
    BY <2>0, <2>2 DEF Q!SpawnChild, Q!Go
  <2>3. ASSUME NEW t \in Taker, Q!Dropping(t)
        PROVE  Q!KeyUpWhenUnheld' /\ HelpersAreHeld'
    BY <2>0, <2>3 DEF Q!Dropping, Q!Drop, Q!Go, Q!Reap, Q!Fallback
  <2>4. ASSUME NEW t \in Taker, Q!Helper(t)
        PROVE  Q!KeyUpWhenUnheld' /\ HelpersAreHeld'
    BY <2>0, <2>4 DEF Q!Helper, Q!HelperPress, Q!HelperFails, Q!HelperReleases, Q!Child
  <2>5. ASSUME NEW s \in {"setup"}, Q!SetupCheck(s) \/ Q!SetupClick(s)
        PROVE  Q!KeyUpWhenUnheld' /\ HelpersAreHeld'
    <3>1. UNCHANGED <<helper, discordMutePc>> /\ (down' => down)
      <4>1. CASE Q!SetupCheck(s)
        BY <4>1 DEF Q!SetupCheck
      <4>2. CASE Q!SetupClick(s)
        BY <4>2 DEF Q!SetupClick
      <4> QED BY <2>5, <4>1, <4>2
    <3>2. Q!KeyUpWhenUnheld'
      BY <3>1
    <3>3. HelpersAreHeld'
      BY <3>1
    <3> QED BY <3>2, <3>3
  <2>6. CASE Q!Crash \/ UNCHANGED Q!vars
    <3>1. UNCHANGED <<helper, down, discordMutePc>>
      BY <2>6 DEF Q!Crash, Q!vars
    <3>2. Q!KeyUpWhenUnheld'
      BY <3>1
    <3>3. HelpersAreHeld'
      BY <3>1
    <3> QED BY <3>2, <3>3
  <2> QED BY <2>1, <2>2, <2>3, <2>4, <2>5, <2>6 DEF Q!Next
<1> QED BY <1>1, <1>2 DEF DiscordHolds

(* At the start nobody has a lease and the key is up.                      *)
LEMMA DiscordInit == Q!Init => DiscordHolds
BY DEF Q!Init, DiscordHolds, HelpersAreHeld, Q!DiscordTypeOK, Q!KeyUpWhenUnheld

(* No lease is left and no key is down without its helper.                 *)
LEMMA DiscordMeans == DiscordHolds => Q!DiscordInv
BY DEF DiscordHolds, HelpersAreHeld, Q!DiscordInv, Q!NoHelperLeftBehind

-----------------------------------------------------------------------------
(* The processes that transcribe                                           *)

Owners == {"app", "worker"}
Lines == {"noise", "token", "port"}
Sidecars ==
  [st : {"none", "alive", "dead"}, owner : Owners \cup {None}, script : Seq(Lines),
   ready : BOOLEAN, logged : Nat]
Tokened == [pid : Nat, token : Nat]
AtOf == {"idle", "asked", "handshake", "has", "sent"}
SidecarCalls ==
  [at : AtOf, kind : {"health", "decode", None}, pid : Nat \cup {None}, token : Nat \cup {None}]

Once(s) == \A i, j \in 1..Len(s) : s[i] = s[j] => i = j

SidecarTypes(k) ==
  /\ procs \in [1..k.spawns -> Sidecars] /\ spawns \in 0..k.spawns
  /\ \A p \in 1..k.spawns : procs[p].logged <= k.pipe
  /\ slot \in [Owners -> Tokened \cup {None}]
  /\ sidecarQueue \in [Owners -> Seq(k.callers)]
  /\ call \in [k.callers -> SidecarCalls]

(* The lock of an owner is taken in turn, once by each caller, and who has *)
(* started a process holds it until the handshake is over.                 *)
LocksAreTaken(k) ==
  /\ \A o \in Owners :
       /\ Once(sidecarQueue[o])
       /\ \A i \in 1..Len(sidecarQueue[o]) :
            /\ call[sidecarQueue[o][i]].at \in {"asked", "handshake"}
            /\ S(k)!OwnerOf(sidecarQueue[o][i]) = o
  /\ \A c \in k.callers : call[c].at = "handshake" =>
       LET o == S(k)!OwnerOf(c)
       IN  sidecarQueue[o] # <<>> /\ sidecarQueue[o][1] = c /\ slot[o] = None

(* A caller waits for a process of its owner's, and takes from it the      *)
(* token it calls it with.                                                 *)
TokensAreTold(k) ==
  \A c \in k.callers :
    /\ call[c].at = "handshake" =>
         /\ call[c].pid \in 1..spawns /\ procs[call[c].pid].owner = S(k)!OwnerOf(c)
         /\ call[c].token \in {None, call[c].pid}
    /\ call[c].at \in {"has", "sent"} =>
         call[c].pid \in 1..spawns /\ call[c].token = call[c].pid

SlotsAreOwned ==
  \A o \in Owners : slot[o] # None =>
    /\ slot[o].pid \in 1..spawns /\ slot[o].token = slot[o].pid
    /\ procs[slot[o].pid].owner = o

StartedInTurn(k) ==
  \A p \in 1..k.spawns : IF p > spawns THEN procs[p].st = "none"
                         ELSE procs[p].st # "none" /\ procs[p].owner \in Owners

SidecarHolds(k) ==
  /\ SidecarTypes(k) /\ LocksAreTaken(k) /\ TokensAreTold(k) /\ SlotsAreOwned
  /\ StartedInTurn(k) /\ S(k)!NoSidecarLeft

(* The first passes the lock on.                                           *)
LEMMA PassesOn ==
  ASSUME NEW E0, NEW s \in Seq(E0), Once(s), s # <<>>
  PROVE  /\ Tail(s) \in Seq(E0) /\ Once(Tail(s)) /\ Head(s) = s[1] /\ s[1] \in E0
         /\ \A j \in 1..Len(Tail(s)) : Tail(s)[j] # s[1] /\ \E i \in 1..Len(s) : Tail(s)[j] = s[i]
<1>1. /\ Tail(s) \in Seq(E0) /\ Len(Tail(s)) = Len(s) - 1 /\ Len(s) \in Nat /\ Len(s) > 0
      /\ \A j \in 1..Len(Tail(s)) : Tail(s)[j] = s[j + 1]
      /\ Head(s) = s[1] /\ s[1] \in E0
  BY HeadTailProperties, LenProperties, EmptySeq, ElementOfSeq
<1> QED BY <1>1 DEF Once

(* Who comes goes to the end, and is there once.                           *)
LEMMA ComesLast ==
  ASSUME NEW E0, NEW s \in Seq(E0), Once(s), NEW c \in E0, \A i \in 1..Len(s) : s[i] # c
  PROVE  LET r == Append(s, c)
         IN  /\ r \in Seq(E0) /\ Once(r) /\ r # <<>>
             /\ \A j \in 1..Len(r) : r[j] = c \/ \E i \in 1..Len(s) : r[j] = s[i]
             /\ s # <<>> => r[1] = s[1]
<1> DEFINE r == Append(s, c)
<1>1. /\ r \in Seq(E0) /\ Len(r) = Len(s) + 1 /\ Len(s) \in Nat
      /\ \A j \in 1..Len(s) : r[j] = s[j]
      /\ r[Len(s) + 1] = c
  BY AppendProperties, LenProperties
<1> HIDE DEF r
<1>2. Once(r)
  BY <1>1 DEF Once
<1>3. \A j \in 1..Len(r) : r[j] = c \/ \E i \in 1..Len(s) : r[j] = s[i]
  BY <1>1
<1>4. r # <<>> /\ (s # <<>> => r[1] = s[1])
  BY <1>1, EmptySeq
<1> QED BY <1>1, <1>2, <1>3, <1>4 DEF r

(* A call that changes is a call, of one of the two owners.                *)
LEMMA ACallStays ==
  ASSUME NEW k, S(k)!PipeAssumption, SidecarTypes(k), NEW c \in k.callers
  PROVE  /\ S(k)!OwnerOf(c) \in Owners
         /\ S(k)!Idle \in SidecarCalls
         /\ \A kind \in {"health", "decode"} :
              [S(k)!Idle EXCEPT !.at = "asked", !.kind = kind] \in SidecarCalls
         /\ \A r \in SidecarCalls : [call EXCEPT ![c] = r] \in [k.callers -> SidecarCalls]
         /\ \A at \in AtOf, p \in Nat, t \in Nat \cup {None} :
              /\ [call[c] EXCEPT !.at = at] \in SidecarCalls
              /\ [call[c] EXCEPT !.token = t] \in SidecarCalls
              /\ [call[c] EXCEPT !.at = at, !.pid = p, !.token = t] \in SidecarCalls
<1>1. S(k)!OwnerOf(c) \in Owners
  BY DEF S!OwnerOf, Owners
<1>2. S(k)!Idle \in SidecarCalls
  BY DEF S!Idle, SidecarCalls, AtOf
<1>3. \A kind \in {"health", "decode"} :
        [S(k)!Idle EXCEPT !.at = "asked", !.kind = kind] \in SidecarCalls
  BY DEF S!Idle, SidecarCalls, AtOf
<1>4. call[c] \in SidecarCalls /\ call \in [k.callers -> SidecarCalls]
  BY DEF SidecarTypes
<1>5. \A at \in AtOf, p \in Nat, t \in Nat \cup {None} :
        /\ [call[c] EXCEPT !.at = at] \in SidecarCalls
        /\ [call[c] EXCEPT !.token = t] \in SidecarCalls
        /\ [call[c] EXCEPT !.at = at, !.pid = p, !.token = t] \in SidecarCalls
  BY <1>4 DEF SidecarCalls
<1> QED BY <1>1, <1>2, <1>3, <1>4, <1>5

(* The caller stands in line for the lock of its owner.                    *)
LEMMA AskStep ==
  ASSUME NEW k, S(k)!PipeAssumption, SidecarHolds(k), NEW c \in k.callers,
         NEW kind \in {"health", "decode"}, S(k)!Ask(c, kind)
  PROVE  SidecarHolds(k)'
<1> DEFINE o == S(k)!OwnerOf(c)
           r == [S(k)!Idle EXCEPT !.at = "asked", !.kind = kind]
<1>1. /\ call' = [call EXCEPT ![c] = r] /\ call[c].at = "idle"
      /\ sidecarQueue' = [sidecarQueue EXCEPT ![o] = Append(sidecarQueue[o], c)]
      /\ UNCHANGED <<procs, slot, spawns>>
  BY DEF S!Ask
<1>2. o \in Owners /\ r \in SidecarCalls /\ r.at = "asked"
  BY ACallStays DEF SidecarHolds, S!Idle
<1> HIDE DEF o, r
<1>3. /\ sidecarQueue[o] \in Seq(k.callers) /\ Once(sidecarQueue[o])
      /\ \A i \in 1..Len(sidecarQueue[o]) : sidecarQueue[o][i] # c
  BY <1>1, <1>2 DEF SidecarHolds, SidecarTypes, LocksAreTaken
<1> DEFINE q == Append(sidecarQueue[o], c)
<1>4. /\ q \in Seq(k.callers) /\ Once(q) /\ q # <<>>
      /\ \A j \in 1..Len(q) : q[j] = c \/ \E i \in 1..Len(sidecarQueue[o]) : q[j] = sidecarQueue[o][i]
      /\ sidecarQueue[o] # <<>> => q[1] = sidecarQueue[o][1]
  BY <1>3, ComesLast
<1> HIDE DEF q
<1>5. /\ sidecarQueue'[o] = q /\ \A w \in Owners : w # o => sidecarQueue'[w] = sidecarQueue[w]
      /\ call'[c] = r /\ \A d \in k.callers : d # c => call'[d] = call[d]
  BY <1>1, <1>2 DEF q, SidecarHolds, SidecarTypes
<1>6. SidecarTypes(k)'
  BY <1>1, <1>2, <1>4, ACallStays DEF q, SidecarHolds, SidecarTypes
<1>7. LocksAreTaken(k)'
  <2>1. ASSUME NEW w \in Owners
        PROVE  /\ Once(sidecarQueue'[w])
               /\ \A i \in 1..Len(sidecarQueue'[w]) :
                    /\ call'[sidecarQueue'[w][i]].at \in {"asked", "handshake"}
                    /\ S(k)!OwnerOf(sidecarQueue'[w][i]) = w
    <3>1. CASE w # o
      <4>1. \A i \in 1..Len(sidecarQueue[w]) : sidecarQueue[w][i] \in k.callers /\ sidecarQueue[w][i] # c
        BY <1>1, ElementOfSeq DEF SidecarHolds, SidecarTypes, LocksAreTaken
      <4> QED BY <1>5, <3>1, <4>1 DEF SidecarHolds, LocksAreTaken
    <3>2. CASE w = o
      <4>1. \A i \in 1..Len(sidecarQueue[o]) :
              /\ sidecarQueue[o][i] \in k.callers /\ sidecarQueue[o][i] # c
              /\ call[sidecarQueue[o][i]].at \in {"asked", "handshake"}
              /\ S(k)!OwnerOf(sidecarQueue[o][i]) = o
        BY <1>2, <1>3, ElementOfSeq DEF SidecarHolds, LocksAreTaken
      <4>2. S(k)!OwnerOf(c) = o
        BY DEF o
      <4> QED BY <1>2, <1>4, <1>5, <3>2, <4>1, <4>2
    <3> QED BY <3>1, <3>2
  <2>2. ASSUME NEW d \in k.callers, call'[d].at = "handshake"
        PROVE  /\ sidecarQueue'[S(k)!OwnerOf(d)] # <<>> /\ sidecarQueue'[S(k)!OwnerOf(d)][1] = d
               /\ slot'[S(k)!OwnerOf(d)] = None
    <3>1. d # c /\ call[d].at = "handshake"
      BY <1>2, <1>5, <2>2
    <3>2. /\ sidecarQueue[S(k)!OwnerOf(d)] # <<>> /\ sidecarQueue[S(k)!OwnerOf(d)][1] = d
          /\ slot[S(k)!OwnerOf(d)] = None /\ S(k)!OwnerOf(d) \in Owners
      BY <3>1, ACallStays DEF SidecarHolds, LocksAreTaken
    <3> QED BY <1>1, <1>4, <1>5, <3>2
  <2> QED BY <2>1, <2>2 DEF LocksAreTaken
<1>8. TokensAreTold(k)'
  BY <1>1, <1>2, <1>5 DEF SidecarHolds, TokensAreTold
<1>9. SlotsAreOwned' /\ StartedInTurn(k)'
  BY <1>1 DEF SidecarHolds, SlotsAreOwned, StartedInTurn
<1>10. S(k)!NoSidecarLeft'
  BY <1>1, <1>2, <1>5 DEF SidecarHolds, S!NoSidecarLeft, S!Alive, S!Pids, S!Owners, Owners
<1> QED BY <1>6, <1>7, <1>8, <1>9, <1>10 DEF SidecarHolds

(* The first of a line leaves it, with nothing started that the handshake  *)
(* is not over of.                                                         *)
LEMMA FirstLeaves ==
  ASSUME NEW k, S(k)!PipeAssumption, SidecarTypes(k), LocksAreTaken(k), NEW c \in k.callers,
         S(k)!HasLock(c), NEW r \in SidecarCalls, r.at \notin {"asked", "handshake"},
         call' = [call EXCEPT ![c] = r], sidecarQueue' = S(k)!Frees(c),
         \A o \in Owners : o # S(k)!OwnerOf(c) => slot'[o] = slot[o]
  PROVE  /\ LocksAreTaken(k)' /\ sidecarQueue' \in [Owners -> Seq(k.callers)]
         /\ call' \in [k.callers -> SidecarCalls]
         /\ call'[c] = r /\ \A d \in k.callers : d # c => call'[d] = call[d]
         /\ \A d \in k.callers : d # c /\ call[d].at = "handshake" =>
              S(k)!OwnerOf(d) # S(k)!OwnerOf(c)
<1> DEFINE o == S(k)!OwnerOf(c)
           s == sidecarQueue[o]
<1>1. /\ o \in Owners /\ s \in Seq(k.callers) /\ Once(s) /\ s # <<>> /\ Head(s) = c
      /\ sidecarQueue' = [sidecarQueue EXCEPT ![o] = Tail(s)]
  BY ACallStays DEF SidecarTypes, LocksAreTaken, S!HasLock, S!Frees
<1> HIDE DEF o
<1>2. /\ Tail(s) \in Seq(k.callers) /\ Once(Tail(s)) /\ s[1] = c
      /\ \A j \in 1..Len(Tail(s)) : Tail(s)[j] # c /\ \E i \in 1..Len(s) : Tail(s)[j] = s[i]
  <2> HIDE DEF s
  <2> QED BY <1>1, PassesOn
<1>3. /\ sidecarQueue'[o] = Tail(s) /\ \A w \in Owners : w # o => sidecarQueue'[w] = sidecarQueue[w]
      /\ call'[c] = r /\ \A d \in k.callers : d # c => call'[d] = call[d]
  BY <1>1 DEF SidecarTypes
<1>4. \A d \in k.callers : d # c /\ call[d].at = "handshake" => S(k)!OwnerOf(d) # o
  BY <1>2 DEF LocksAreTaken
<1>5. sidecarQueue' \in [Owners -> Seq(k.callers)] /\ call' \in [k.callers -> SidecarCalls]
  BY <1>1, <1>2, ACallStays DEF SidecarTypes
<1>6. ASSUME NEW w \in Owners
      PROVE  /\ Once(sidecarQueue'[w])
             /\ \A i \in 1..Len(sidecarQueue'[w]) :
                  /\ call'[sidecarQueue'[w][i]].at \in {"asked", "handshake"}
                  /\ S(k)!OwnerOf(sidecarQueue'[w][i]) = w
  <2>1. CASE w # o
    <3>1. S(k)!OwnerOf(c) = o
      BY DEF o
    <3>2. \A i \in 1..Len(sidecarQueue[w]) : sidecarQueue[w][i] \in k.callers /\ sidecarQueue[w][i] # c
      BY <2>1, <3>1, ElementOfSeq DEF SidecarTypes, LocksAreTaken
    <3> QED BY <1>3, <2>1, <3>2 DEF LocksAreTaken
  <2>2. CASE w = o
    <3>1. \A i \in 1..Len(s) :
            /\ s[i] \in k.callers /\ call[s[i]].at \in {"asked", "handshake"}
            /\ S(k)!OwnerOf(s[i]) = o
      BY <1>1, ElementOfSeq DEF LocksAreTaken
    <3> HIDE DEF s
    <3>2. ASSUME NEW i \in 1..Len(Tail(s))
          PROVE  /\ call'[Tail(s)[i]].at \in {"asked", "handshake"}
                 /\ S(k)!OwnerOf(Tail(s)[i]) = o
      <4>1. PICK j \in 1..Len(s) : Tail(s)[i] = s[j]
        BY <1>2
      <4>2. s[j] \in k.callers /\ s[j] # c
        BY <1>2, <3>1, <4>1
      <4>3. call'[s[j]] = call[s[j]]
        BY <1>3, <4>2
      <4> QED BY <3>1, <4>1, <4>3
    <3> QED BY <1>2, <1>3, <2>2, <3>2
  <2> QED BY <2>1, <2>2
<1>7. ASSUME NEW d \in k.callers, call'[d].at = "handshake"
      PROVE  /\ sidecarQueue'[S(k)!OwnerOf(d)] # <<>> /\ sidecarQueue'[S(k)!OwnerOf(d)][1] = d
             /\ slot'[S(k)!OwnerOf(d)] = None
  <2>1. d # c /\ call[d].at = "handshake"
    BY <1>3, <1>7
  <2>2. /\ sidecarQueue[S(k)!OwnerOf(d)] # <<>> /\ sidecarQueue[S(k)!OwnerOf(d)][1] = d
        /\ slot[S(k)!OwnerOf(d)] = None /\ S(k)!OwnerOf(d) \in Owners
    BY <2>1, ACallStays DEF LocksAreTaken
  <2>3. S(k)!OwnerOf(d) # o
    BY <1>4, <2>1
  <2> QED BY <1>3, <2>2, <2>3 DEF o
<1> QED BY <1>3, <1>4, <1>5, <1>6, <1>7 DEF LocksAreTaken, o

(* A caller that is in no line stays out of it.                            *)
LEMMA OthersStayInLine ==
  ASSUME NEW k, S(k)!PipeAssumption, SidecarTypes(k), LocksAreTaken(k), NEW c \in k.callers,
         call[c].at \notin {"asked", "handshake"}, NEW r \in SidecarCalls,
         r.at # "handshake", call' = [call EXCEPT ![c] = r], UNCHANGED <<sidecarQueue, slot>>
  PROVE  /\ LocksAreTaken(k)' /\ call' \in [k.callers -> SidecarCalls]
         /\ call'[c] = r /\ \A d \in k.callers : d # c => call'[d] = call[d]
<1>1. call'[c] = r /\ \A d \in k.callers : d # c => call'[d] = call[d]
  BY DEF SidecarTypes
<1>2. call' \in [k.callers -> SidecarCalls]
  BY ACallStays
<1>3. \A w \in Owners : \A i \in 1..Len(sidecarQueue[w]) :
        sidecarQueue[w][i] \in k.callers /\ sidecarQueue[w][i] # c
  BY ElementOfSeq DEF SidecarTypes, LocksAreTaken
<1> QED BY <1>1, <1>2, <1>3 DEF LocksAreTaken

(* Processes that only die, log or print are those that were started.      *)
LEMMA ProcessesGoOn ==
  ASSUME NEW k, S(k)!PipeAssumption, SidecarHolds(k), UNCHANGED spawns,
         \A p \in 1..k.spawns :
           /\ procs'[p].owner = procs[p].owner
           /\ procs'[p].st = procs[p].st \/ (procs[p].st = "alive" /\ procs'[p].st = "dead")
  PROVE  /\ StartedInTurn(k)'
         /\ UNCHANGED slot => SlotsAreOwned'
         /\ UNCHANGED call => TokensAreTold(k)'
         /\ UNCHANGED <<call, slot>> => S(k)!NoSidecarLeft'
<1>0. 1..spawns \subseteq 1..k.spawns
  BY DEF SidecarHolds, SidecarTypes, S!PipeAssumption
<1>1. StartedInTurn(k)'
  BY DEF SidecarHolds, StartedInTurn
<1>2. UNCHANGED slot => SlotsAreOwned'
  BY <1>0 DEF SidecarHolds, SlotsAreOwned
<1>3. UNCHANGED call => TokensAreTold(k)'
  BY <1>0 DEF SidecarHolds, TokensAreTold
<1>4. UNCHANGED <<call, slot>> => S(k)!NoSidecarLeft'
  BY DEF SidecarHolds, S!NoSidecarLeft, S!Alive, S!Pids
<1> QED BY <1>1, <1>2, <1>3, <1>4

(* The token of the slot is that of the process it is in.                  *)
LEMMA FoundStep ==
  ASSUME NEW k, S(k)!PipeAssumption, SidecarHolds(k), NEW c \in k.callers, S(k)!Found(c)
  PROVE  SidecarHolds(k)'
<1> DEFINE o == S(k)!OwnerOf(c)
           r == [call[c] EXCEPT !.at = "has", !.pid = slot[o].pid, !.token = slot[o].token]
<1>1. /\ call[c].at = "asked" /\ S(k)!HasLock(c) /\ slot[o] # None
      /\ call' = [call EXCEPT ![c] = r] /\ sidecarQueue' = S(k)!Frees(c)
      /\ UNCHANGED <<procs, slot, spawns>>
  BY DEF S!Found
<1>2. /\ o \in Owners /\ slot[o].pid \in 1..spawns /\ slot[o].token = slot[o].pid
      /\ slot[o].pid \in Nat
  <2>1. o \in Owners
    BY DEF S!OwnerOf, Owners
  <2> QED BY <1>1, <2>1 DEF SidecarHolds, SlotsAreOwned, SidecarTypes, Tokened
<1>3. call[c] \in SidecarCalls /\ "has" \in AtOf
  BY DEF SidecarHolds, SidecarTypes, AtOf
<1>4. r \in SidecarCalls /\ r.at = "has" /\ r.pid = slot[o].pid /\ r.token = slot[o].token
  BY <1>2, <1>3 DEF SidecarCalls
<1> HIDE DEF r
<1>5. /\ LocksAreTaken(k)' /\ sidecarQueue' \in [Owners -> Seq(k.callers)]
      /\ call' \in [k.callers -> SidecarCalls]
      /\ call'[c] = r /\ \A d \in k.callers : d # c => call'[d] = call[d]
  BY <1>1, <1>4, FirstLeaves DEF SidecarHolds
<1>6. SidecarTypes(k)'
  BY <1>1, <1>5 DEF SidecarHolds, SidecarTypes
<1>7. TokensAreTold(k)'
  BY <1>1, <1>2, <1>4, <1>5 DEF SidecarHolds, TokensAreTold
<1>8. SlotsAreOwned' /\ StartedInTurn(k)'
  BY <1>1 DEF SidecarHolds, SlotsAreOwned, StartedInTurn
<1>9. S(k)!NoSidecarLeft'
  BY <1>1, <1>5 DEF SidecarHolds, S!NoSidecarLeft, S!Alive, S!Pids
<1> QED BY <1>5, <1>6, <1>7, <1>8, <1>9 DEF SidecarHolds

(* Only the holder of the lock, who found the slot empty, starts one.      *)
LEMMA SpawnStep ==
  ASSUME NEW k, S(k)!PipeAssumption, SidecarHolds(k), NEW c \in k.callers,
         NEW script \in Seq(Lines), S(k)!Spawn(c, script)
  PROVE  SidecarHolds(k)'
<1> DEFINE o == S(k)!OwnerOf(c)
           n == spawns + 1
           r == [call[c] EXCEPT !.at = "handshake", !.pid = n, !.token = None]
           x == S(k)!Command(c, script)
<1>1. /\ call[c].at = "asked" /\ S(k)!HasLock(c) /\ slot[o] = None /\ spawns < k.spawns
      /\ spawns' = n /\ procs' = [procs EXCEPT ![n] = x]
      /\ call' = [call EXCEPT ![c] = r] /\ UNCHANGED <<slot, sidecarQueue>>
  BY DEF S!Spawn
<1>2. /\ o \in Owners /\ k.spawns \in Nat /\ spawns \in Nat /\ n \in 1..k.spawns
      /\ call[c] \in SidecarCalls /\ "handshake" \in AtOf
  <2>1. o \in Owners
    BY DEF S!OwnerOf, Owners
  <2>2. k.spawns \in Nat /\ spawns \in Nat
    BY DEF SidecarHolds, SidecarTypes, S!PipeAssumption
  <2>3. n \in 1..k.spawns
    BY <1>1, <2>2
  <2>4. call[c] \in SidecarCalls /\ "handshake" \in AtOf
    BY DEF SidecarHolds, SidecarTypes, AtOf
  <2> QED BY <2>1, <2>2, <2>3, <2>4
<1>3. r \in SidecarCalls /\ r.at = "handshake" /\ r.pid = n /\ r.token = None
  <2>1. n \in Nat
    BY <1>2
  <2> HIDE DEF n
  <2> QED BY <1>2, <2>1 DEF SidecarCalls
<1>4. x \in Sidecars /\ x.st = "alive" /\ x.owner = o /\ x.logged = 0
  BY <1>2 DEF S!Command, S!NotStarted, Sidecars
<1> HIDE DEF r, x, n
<1>5. /\ procs'[n] = x /\ \A p \in 1..k.spawns : p # n => procs'[p] = procs[p]
      /\ call'[c] = r /\ \A d \in k.callers : d # c => call'[d] = call[d]
      /\ procs' \in [1..k.spawns -> Sidecars] /\ call' \in [k.callers -> SidecarCalls]
  BY <1>1, <1>2, <1>3, <1>4 DEF SidecarHolds, SidecarTypes
<1>6. SidecarTypes(k)'
  <2>1. \A p \in 1..k.spawns : procs'[p].logged <= k.pipe
    BY <1>4, <1>5 DEF SidecarHolds, SidecarTypes, S!PipeAssumption
  <2>2. spawns' \in 0..k.spawns
    BY <1>1, <1>2
  <2> QED BY <1>1, <1>5, <2>1, <2>2 DEF SidecarHolds, SidecarTypes
<1>7. LocksAreTaken(k)'
  <2>1. sidecarQueue[o] # <<>> /\ sidecarQueue[o][1] = c
    BY <1>1, <1>2 DEF S!HasLock, SidecarHolds, SidecarTypes
  <2>2. \A w \in Owners : \A i \in 1..Len(sidecarQueue[w]) : sidecarQueue[w][i] \in k.callers
    BY ElementOfSeq DEF SidecarHolds, SidecarTypes
  <2> QED BY <1>1, <1>3, <1>5, <2>1, <2>2 DEF SidecarHolds, LocksAreTaken
<1>8. \A p \in 1..spawns : p \in 1..k.spawns /\ p # n /\ p \in 1..spawns'
  BY <1>1, <1>2 DEF n
<1>9. n \in 1..spawns'
  BY <1>1, <1>2
<1>10. TokensAreTold(k)'
  <2>1. ASSUME NEW d \in k.callers, d # c
        PROVE  /\ call'[d].at = "handshake" =>
                    /\ call'[d].pid \in 1..spawns' /\ procs'[call'[d].pid].owner = S(k)!OwnerOf(d)
                    /\ call'[d].token \in {None, call'[d].pid}
               /\ call'[d].at \in {"has", "sent"} =>
                    call'[d].pid \in 1..spawns' /\ call'[d].token = call'[d].pid
    BY <1>5, <1>8, <2>1 DEF SidecarHolds, TokensAreTold
  <2> QED BY <1>3, <1>4, <1>5, <1>9, <2>1 DEF TokensAreTold, o
<1>11. SlotsAreOwned'
  BY <1>1, <1>5, <1>8 DEF SidecarHolds, SlotsAreOwned
<1>12. StartedInTurn(k)'
  BY <1>1, <1>2, <1>4, <1>5, SMTT(20) DEF SidecarHolds, StartedInTurn, n
<1>13. S(k)!NoSidecarLeft'
  <2>1. ASSUME NEW p \in 1..k.spawns, procs'[p].st = "alive"
        PROVE  \/ \E w \in Owners : slot'[w] # None /\ slot'[w].pid = p
               \/ \E d \in k.callers : call'[d].at = "handshake" /\ call'[d].pid = p
    <3>1. CASE p = n
      BY <1>3, <1>5, <3>1
    <3>2. CASE p # n
      <4>1. procs[p].st = "alive"
        BY <1>5, <2>1, <3>2
      <4>2. \/ \E w \in Owners : slot[w] # None /\ slot[w].pid = p
            \/ \E d \in k.callers : call[d].at = "handshake" /\ call[d].pid = p
        BY <4>1 DEF SidecarHolds, S!NoSidecarLeft, S!Alive, S!Pids, S!Owners, Owners
      <4> QED BY <1>1, <1>5, <4>2
    <3> QED BY <3>1, <3>2
  <2> QED BY <2>1 DEF S!NoSidecarLeft, S!Alive, S!Pids, S!Owners, Owners
<1> QED BY <1>6, <1>7, <1>10, <1>11, <1>12, <1>13 DEF SidecarHolds

(* None could be started: the call ends and the lock is passed on.         *)
LEMMA SpawnFailsStep ==
  ASSUME NEW k, S(k)!PipeAssumption, SidecarHolds(k), NEW c \in k.callers, S(k)!SpawnFails(c)
  PROVE  SidecarHolds(k)'
<1>1. /\ call[c].at = "asked" /\ S(k)!HasLock(c)
      /\ call' = [call EXCEPT ![c] = S(k)!Idle] /\ sidecarQueue' = S(k)!Frees(c)
      /\ UNCHANGED <<procs, slot, spawns>>
  BY DEF S!SpawnFails, S!Ends
<1>2. S(k)!Idle \in SidecarCalls /\ S(k)!Idle.at = "idle"
  BY ACallStays DEF SidecarHolds, S!Idle
<1>3. /\ LocksAreTaken(k)' /\ sidecarQueue' \in [Owners -> Seq(k.callers)]
      /\ call' \in [k.callers -> SidecarCalls]
      /\ call'[c].at = "idle" /\ \A d \in k.callers : d # c => call'[d] = call[d]
  BY <1>1, <1>2, FirstLeaves DEF SidecarHolds
<1>4. SidecarTypes(k)'
  BY <1>1, <1>3 DEF SidecarHolds, SidecarTypes
<1>5. TokensAreTold(k)'
  BY <1>1, <1>3 DEF SidecarHolds, TokensAreTold
<1>6. SlotsAreOwned' /\ StartedInTurn(k)'
  BY <1>1 DEF SidecarHolds, SlotsAreOwned, StartedInTurn
<1>7. S(k)!NoSidecarLeft'
  BY <1>1, <1>3 DEF SidecarHolds, S!NoSidecarLeft, S!Alive, S!Pids
<1> QED BY <1>3, <1>4, <1>5, <1>6, <1>7 DEF SidecarHolds

(* A call that has its sidecar is in no line: it goes on, or ends, and no  *)
(* process starts or ends with it.                                         *)
LEMMA CallOver ==
  ASSUME NEW k, S(k)!PipeAssumption, SidecarHolds(k), NEW c \in k.callers,
         call[c].at \in {"has", "sent"}, NEW r \in SidecarCalls,
         \/ r.at = "idle"
         \/ r.at = "sent" /\ r.pid = call[c].pid /\ r.token = call[c].token,
         call' = [call EXCEPT ![c] = r], UNCHANGED <<slot, sidecarQueue, spawns>>,
         procs' \in [1..k.spawns -> Sidecars],
         \A p \in 1..k.spawns :
           /\ procs'[p].logged <= k.pipe
           /\ procs'[p].owner = procs[p].owner /\ procs'[p].st = procs[p].st
  PROVE  SidecarHolds(k)'
<1>1. /\ LocksAreTaken(k)' /\ call' \in [k.callers -> SidecarCalls]
      /\ call'[c] = r /\ \A d \in k.callers : d # c => call'[d] = call[d]
  BY OthersStayInLine DEF SidecarHolds
<1>2. SidecarTypes(k)'
  BY <1>1 DEF SidecarHolds, SidecarTypes
<1>3. SlotsAreOwned' /\ StartedInTurn(k)'
  <2>1. \A p \in 1..k.spawns :
          /\ procs'[p].owner = procs[p].owner
          /\ procs'[p].st = procs[p].st \/ (procs[p].st = "alive" /\ procs'[p].st = "dead")
    OBVIOUS
  <2>2. spawns' = spawns /\ slot' = slot
    OBVIOUS
  <2> QED BY <2>1, <2>2, ProcessesGoOn
<1>4. 1..spawns \subseteq 1..k.spawns
  BY DEF SidecarHolds, SidecarTypes, S!PipeAssumption
<1>5. TokensAreTold(k)'
  <2>1. ASSUME NEW d \in k.callers, d # c
        PROVE  /\ call'[d].at = "handshake" =>
                    /\ call'[d].pid \in 1..spawns' /\ procs'[call'[d].pid].owner = S(k)!OwnerOf(d)
                    /\ call'[d].token \in {None, call'[d].pid}
               /\ call'[d].at \in {"has", "sent"} =>
                    call'[d].pid \in 1..spawns' /\ call'[d].token = call'[d].pid
    BY <1>1, <1>4, <2>1 DEF SidecarHolds, TokensAreTold
  <2>2. r.at = "sent" => r.pid \in 1..spawns /\ r.token = r.pid
    BY DEF SidecarHolds, TokensAreTold
  <2> QED BY <1>1, <2>1, <2>2 DEF TokensAreTold
<1>6. S(k)!NoSidecarLeft'
  <2>1. ASSUME NEW p \in 1..k.spawns, procs'[p].st = "alive"
        PROVE  \/ \E w \in Owners : slot'[w] # None /\ slot'[w].pid = p
               \/ \E d \in k.callers : call'[d].at = "handshake" /\ call'[d].pid = p
    <3>1. procs[p].st = "alive"
      BY <2>1
    <3>2. \/ \E w \in Owners : slot[w] # None /\ slot[w].pid = p
          \/ \E d \in k.callers : call[d].at = "handshake" /\ call[d].pid = p
      BY <3>1 DEF SidecarHolds, S!NoSidecarLeft, S!Alive, S!Pids, S!Owners, Owners
    <3> QED BY <1>1, <3>2
  <2> QED BY <2>1 DEF S!NoSidecarLeft, S!Alive, S!Pids, S!Owners, Owners
<1> QED BY <1>1, <1>2, <1>3, <1>5, <1>6 DEF SidecarHolds

(* A call connects, is answered or is broken off: the only trace is a line *)
(* of log.                                                                 *)
LEMMA CallStep ==
  ASSUME NEW k, S(k)!PipeAssumption, SidecarHolds(k), NEW c \in k.callers,
         S(k)!Connect(c) \/ S(k)!Answers(c)
  PROVE  SidecarHolds(k)'
<1> DEFINE r == [call[c] EXCEPT !.at = "sent"]
<1>1. S(k)!Idle \in SidecarCalls /\ S(k)!Idle.at = "idle"
  BY DEF S!Idle, SidecarCalls, AtOf
<1>2. call[c] \in SidecarCalls /\ "sent" \in AtOf
  BY DEF SidecarHolds, SidecarTypes, AtOf
<1>3. r \in SidecarCalls /\ r.at = "sent" /\ r.pid = call[c].pid /\ r.token = call[c].token
  BY <1>2 DEF SidecarCalls
<1>4. /\ procs \in [1..k.spawns -> Sidecars]
      /\ \A p \in 1..k.spawns : procs[p].logged <= k.pipe
  BY DEF SidecarHolds, SidecarTypes
<1> HIDE DEF r
<1>5. CASE S(k)!Connect(c)
  <2>1. /\ call[c].at = "has" /\ UNCHANGED <<procs, slot, sidecarQueue, spawns>>
        /\ \/ call' = [call EXCEPT ![c] = S(k)!Idle]
           \/ call' = [call EXCEPT ![c] = r]
    BY <1>5 DEF S!Connect, S!Ends, r
  <2>2. CASE call' = [call EXCEPT ![c] = S(k)!Idle]
    BY <1>1, <1>4, <2>1, <2>2, CallOver
  <2>3. CASE call' = [call EXCEPT ![c] = r]
    BY <1>3, <1>4, <2>1, <2>3, CallOver
  <2> QED BY <2>1, <2>2, <2>3
<1>6. CASE S(k)!HealthAnswered(c) \/ S(k)!Refused(c) \/ S(k)!Broken(c)
  <2>1. /\ call[c].at = "sent" /\ UNCHANGED <<procs, slot, sidecarQueue, spawns>>
        /\ call' = [call EXCEPT ![c] = S(k)!Idle]
    BY <1>6 DEF S!HealthAnswered, S!Refused, S!Broken, S!Ends
  <2> QED BY <1>1, <1>4, <2>1, CallOver
<1>7. CASE S(k)!Transcribed(c)
  <2> DEFINE n == call[c].pid
             x == [procs[n] EXCEPT !.logged = procs[n].logged + 1]
  <2>1. /\ call[c].at = "sent" /\ procs[n].logged < k.pipe
        /\ procs' = [procs EXCEPT ![n] = x] /\ UNCHANGED <<slot, sidecarQueue, spawns>>
        /\ call' = [call EXCEPT ![c] = S(k)!Idle]
    BY <1>7 DEF S!Transcribed, S!Ends, S!CanLog
  <2>2. n \in 1..k.spawns
    <3>1. n \in 1..spawns
      BY <2>1 DEF SidecarHolds, TokensAreTold
    <3> QED BY <3>1 DEF SidecarHolds, SidecarTypes, S!PipeAssumption
  <2>3. procs[n] \in Sidecars
    BY <1>4, <2>2
  <2>4. /\ x \in Sidecars /\ x.owner = procs[n].owner /\ x.st = procs[n].st
        /\ x.logged <= k.pipe
    BY <2>1, <2>3 DEF Sidecars, S!PipeAssumption
  <2> HIDE DEF x, n
  <2>5. /\ procs' \in [1..k.spawns -> Sidecars]
        /\ procs'[n] = x /\ \A p \in 1..k.spawns : p # n => procs'[p] = procs[p]
    BY <1>4, <2>1, <2>2, <2>4
  <2>6. \A p \in 1..k.spawns :
          /\ procs'[p].logged <= k.pipe
          /\ procs'[p].owner = procs[p].owner /\ procs'[p].st = procs[p].st
    BY <1>4, <2>4, <2>5
  <2> QED BY <1>1, <2>1, <2>5, <2>6, CallOver
<1> QED BY <1>5, <1>6, <1>7 DEF S!Answers

(* A start that fails takes its process with it.                           *)
LEMMA GivesUpStep ==
  ASSUME NEW k, S(k)!PipeAssumption, SidecarHolds(k), NEW c \in k.callers,
         call[c].at = "handshake", S(k)!GivesUp(c)
  PROVE  SidecarHolds(k)'
<1> DEFINE n == call[c].pid
           x == [procs[n] EXCEPT !.st = "dead"]
           o == S(k)!OwnerOf(c)
<1>1. /\ procs' = [procs EXCEPT ![n] = x] /\ sidecarQueue' = S(k)!Frees(c)
      /\ call' = [call EXCEPT ![c] = S(k)!Idle] /\ UNCHANGED <<slot, spawns>>
  BY DEF S!GivesUp, S!Kill, S!Ends
<1>2. n \in 1..spawns /\ 1..spawns \subseteq 1..k.spawns
  BY DEF SidecarHolds, TokensAreTold, SidecarTypes, S!PipeAssumption
<1>3. procs[n] \in Sidecars /\ procs \in [1..k.spawns -> Sidecars] /\ procs[n].st # "none"
  <2>1. procs[n].st # "none"
    BY <1>2 DEF SidecarHolds, StartedInTurn, SidecarTypes
  <2> QED BY <1>2, <2>1 DEF SidecarHolds, SidecarTypes
<1>4. /\ x \in Sidecars /\ x.st = "dead" /\ x.owner = procs[n].owner
      /\ x.logged = procs[n].logged
  BY <1>3 DEF Sidecars
<1> HIDE DEF x, n
<1>5. /\ procs' \in [1..k.spawns -> Sidecars]
      /\ procs'[n] = x /\ \A p \in 1..k.spawns : p # n => procs'[p] = procs[p]
  BY <1>1, <1>2, <1>3, <1>4
<1>6. S(k)!Idle \in SidecarCalls /\ S(k)!Idle.at = "idle"
  BY DEF S!Idle, SidecarCalls, AtOf
<1>7. S(k)!HasLock(c)
  <2>1. o \in Owners
    BY DEF S!OwnerOf, Owners
  <2>2. sidecarQueue[o] # <<>> /\ sidecarQueue[o][1] = c /\ sidecarQueue[o] \in Seq(k.callers)
    BY <2>1 DEF SidecarHolds, LocksAreTaken, SidecarTypes
  <2> QED BY <2>2 DEF S!HasLock
<1>8. /\ LocksAreTaken(k)' /\ sidecarQueue' \in [Owners -> Seq(k.callers)]
      /\ call' \in [k.callers -> SidecarCalls]
      /\ call'[c] = S(k)!Idle /\ \A d \in k.callers : d # c => call'[d] = call[d]
  BY <1>1, <1>6, <1>7, FirstLeaves DEF SidecarHolds
<1>9. SidecarTypes(k)'
  <2>1. \A p \in 1..k.spawns : procs'[p].logged <= k.pipe
    BY <1>4, <1>5 DEF SidecarHolds, SidecarTypes
  <2> QED BY <1>1, <1>5, <1>8, <2>1 DEF SidecarHolds, SidecarTypes
<1>10. \A p \in 1..k.spawns :
         /\ procs'[p].owner = procs[p].owner
         /\ procs'[p].st = procs[p].st \/ (procs[p].st # "none" /\ procs'[p].st = "dead")
  <2>1. procs'[n].owner = procs[n].owner /\ procs[n].st # "none" /\ procs'[n].st = "dead"
    BY <1>3, <1>4, <1>5 DEF n
  <2> QED BY <1>5, <2>1
<1>11. StartedInTurn(k)' /\ SlotsAreOwned'
  <2>1. StartedInTurn(k)'
    BY <1>1, <1>10 DEF SidecarHolds, StartedInTurn
  <2>2. SlotsAreOwned'
    BY <1>1, <1>2, <1>10 DEF SidecarHolds, SlotsAreOwned
  <2> QED BY <2>1, <2>2
<1>12. TokensAreTold(k)'
  <2>1. ASSUME NEW d \in k.callers, d # c
        PROVE  /\ call'[d].at = "handshake" =>
                    /\ call'[d].pid \in 1..spawns' /\ procs'[call'[d].pid].owner = S(k)!OwnerOf(d)
                    /\ call'[d].token \in {None, call'[d].pid}
               /\ call'[d].at \in {"has", "sent"} =>
                    call'[d].pid \in 1..spawns' /\ call'[d].token = call'[d].pid
    BY <1>1, <1>2, <1>8, <1>10, <2>1 DEF SidecarHolds, TokensAreTold
  <2> QED BY <1>6, <1>8, <2>1 DEF TokensAreTold
<1>13. S(k)!NoSidecarLeft'
  <2>1. ASSUME NEW p \in 1..k.spawns, procs'[p].st = "alive"
        PROVE  \/ \E w \in Owners : slot'[w] # None /\ slot'[w].pid = p
               \/ \E d \in k.callers : call'[d].at = "handshake" /\ call'[d].pid = p
    <3>1. procs[p].st = "alive" /\ p # call[c].pid
      BY <1>4, <1>5, <2>1 DEF n
    <3>2. \/ \E w \in Owners : slot[w] # None /\ slot[w].pid = p
          \/ \E d \in k.callers : call[d].at = "handshake" /\ call[d].pid = p
      BY <3>1 DEF SidecarHolds, S!NoSidecarLeft, S!Alive, S!Pids, S!Owners, Owners
    <3> QED BY <1>1, <1>8, <3>1, <3>2
  <2> QED BY <2>1 DEF S!NoSidecarLeft, S!Alive, S!Pids, S!Owners, Owners
<1> QED BY <1>8, <1>9, <1>11, <1>12, <1>13 DEF SidecarHolds

(* The port makes a sidecar of the process, with the token it printed.     *)
LEMMA PortStep ==
  ASSUME NEW k, S(k)!PipeAssumption, SidecarHolds(k), NEW c \in k.callers,
         call[c].at = "handshake", call[c].token # None,
         NEW x \in Sidecars, x.owner = procs[call[c].pid].owner, x.st = procs[call[c].pid].st,
         x.logged = procs[call[c].pid].logged, procs' = [procs EXCEPT ![call[c].pid] = x],
         NEW t \in Tokened, t.pid = call[c].pid, t.token = call[c].token,
         slot' = [slot EXCEPT ![S(k)!OwnerOf(c)] = t],
         NEW r \in SidecarCalls, r.at = "has", r.pid = call[c].pid, r.token = call[c].token,
         call' = [call EXCEPT ![c] = r],
         sidecarQueue' = S(k)!Frees(c), UNCHANGED spawns
  PROVE  SidecarHolds(k)'
<1> DEFINE o == S(k)!OwnerOf(c)
           n == call[c].pid
<1>1. o \in Owners
  BY DEF S!OwnerOf, Owners
<1>2. /\ n \in 1..spawns /\ procs[n].owner = o /\ call[c].token = n
      /\ 1..spawns \subseteq 1..k.spawns /\ n \in Nat
  BY DEF SidecarHolds, TokensAreTold, SidecarTypes, S!PipeAssumption
<1>4. r.at = "has" /\ r.pid = n /\ r.token = n
  BY <1>2
<1>5. t.pid = n /\ t.token = n /\ t # None
  BY <1>2 DEF Tokened, S!PipeAssumption
<1>6. /\ slot' = [slot EXCEPT ![o] = t] /\ call' = [call EXCEPT ![c] = r]
      /\ sidecarQueue' = S(k)!Frees(c)
  OBVIOUS
<1>7. sidecarQueue[o] # <<>> /\ sidecarQueue[o][1] = c /\ slot[o] = None
  BY DEF SidecarHolds, LocksAreTaken
<1>8. S(k)!HasLock(c)
  BY <1>1, <1>7 DEF S!HasLock, SidecarHolds, SidecarTypes
<1>9. /\ procs' \in [1..k.spawns -> Sidecars]
      /\ procs'[n] = x /\ \A p \in 1..k.spawns : p # n => procs'[p] = procs[p]
  BY <1>2 DEF SidecarHolds, SidecarTypes
<1> HIDE DEF o, n
<1>10. /\ slot'[o] = t /\ \A w \in Owners : w # o => slot'[w] = slot[w]
       /\ slot' \in [Owners -> Tokened \cup {None}]
  BY <1>1, <1>5, <1>6 DEF SidecarHolds, SidecarTypes
<1>11. /\ LocksAreTaken(k)' /\ sidecarQueue' \in [Owners -> Seq(k.callers)]
       /\ call' \in [k.callers -> SidecarCalls]
       /\ call'[c] = r /\ \A d \in k.callers : d # c => call'[d] = call[d]
  <2>1. \A w \in Owners : w # S(k)!OwnerOf(c) => slot'[w] = slot[w]
    BY <1>10 DEF o
  <2>2. r.at \notin {"asked", "handshake"}
    BY <1>4
  <2>3. SidecarTypes(k) /\ LocksAreTaken(k)
    BY DEF SidecarHolds
  <2>4. /\ LocksAreTaken(k)' /\ sidecarQueue' \in [Owners -> Seq(k.callers)]
        /\ call' \in [k.callers -> SidecarCalls]
        /\ call'[c] = r /\ \A d \in k.callers : d # c => call'[d] = call[d]
        /\ \A d \in k.callers : d # c /\ call[d].at = "handshake" =>
              S(k)!OwnerOf(d) # S(k)!OwnerOf(c)
    BY <1>8, <2>1, <2>2, <2>3, FirstLeaves
  <2> QED BY <2>4
<1>12. \A p \in 1..k.spawns :
         /\ procs'[p].owner = procs[p].owner /\ procs'[p].st = procs[p].st
         /\ procs'[p].logged = procs[p].logged
  BY <1>2, <1>9 DEF n
<1>13. SidecarTypes(k)'
  BY <1>9, <1>10, <1>11, <1>12 DEF SidecarHolds, SidecarTypes
<1>14. TokensAreTold(k)'
  <2>1. ASSUME NEW d \in k.callers, d # c
        PROVE  /\ call'[d].at = "handshake" =>
                    /\ call'[d].pid \in 1..spawns' /\ procs'[call'[d].pid].owner = S(k)!OwnerOf(d)
                    /\ call'[d].token \in {None, call'[d].pid}
               /\ call'[d].at \in {"has", "sent"} =>
                    call'[d].pid \in 1..spawns' /\ call'[d].token = call'[d].pid
    BY <1>2, <1>11, <1>12, <2>1 DEF SidecarHolds, TokensAreTold
  <2> QED BY <1>2, <1>4, <1>11, <2>1 DEF TokensAreTold
<1>15. SlotsAreOwned'
  <2>1. procs'[n].owner = o
    BY <1>2, <1>12
  <2>2. slot'[o] # None /\ slot'[o].pid = n /\ slot'[o].token = n
    BY <1>1, <1>5, <1>10
  <2>3. ASSUME NEW w \in Owners, w # o, slot'[w] # None
        PROVE  /\ slot'[w].pid \in 1..spawns /\ slot'[w].token = slot'[w].pid
               /\ procs'[slot'[w].pid].owner = w
    <3>1. /\ slot[w].pid \in 1..spawns /\ slot[w].token = slot[w].pid
          /\ procs[slot[w].pid].owner = w /\ slot'[w] = slot[w]
      BY <1>10, <2>3 DEF SidecarHolds, SlotsAreOwned
    <3> QED BY <1>2, <1>12, <3>1
  <2>4. spawns' = spawns
    OBVIOUS
  <2> QED BY <1>2, <2>1, <2>2, <2>3, <2>4 DEF SlotsAreOwned
<1>16. StartedInTurn(k)'
  BY <1>12 DEF SidecarHolds, StartedInTurn
<1>17. S(k)!NoSidecarLeft'
  <2>1. ASSUME NEW p \in 1..k.spawns, procs'[p].st = "alive"
        PROVE  \/ \E w \in Owners : slot'[w] # None /\ slot'[w].pid = p
               \/ \E d \in k.callers : call'[d].at = "handshake" /\ call'[d].pid = p
    <3>1. procs[p].st = "alive"
      BY <1>12, <2>1
    <3>2. \/ \E w \in Owners : slot[w] # None /\ slot[w].pid = p
          \/ \E d \in k.callers : call[d].at = "handshake" /\ call[d].pid = p
      BY <3>1 DEF SidecarHolds, S!NoSidecarLeft, S!Alive, S!Pids, S!Owners, Owners
    <3>3. CASE p = n
      BY <1>1, <1>5, <1>10, <3>3
    <3>4. CASE p # n
      <4>1. ASSUME NEW w \in Owners, slot[w] # None, slot[w].pid = p
            PROVE  slot'[w] # None /\ slot'[w].pid = p
        BY <1>7, <1>10, <4>1
      <4>2. ASSUME NEW d \in k.callers, call[d].at = "handshake", call[d].pid = p
            PROVE  call'[d].at = "handshake" /\ call'[d].pid = p
        BY <1>11, <3>4, <4>2 DEF n
      <4> QED BY <3>2, <4>1, <4>2
    <3> QED BY <3>3, <3>4
  <2> QED BY <2>1 DEF S!NoSidecarLeft, S!Alive, S!Pids, S!Owners, Owners
<1> QED BY <1>11, <1>13, <1>14, <1>15, <1>16, <1>17 DEF SidecarHolds

(* A line is read: the token is kept, the port makes the sidecar, and a    *)
(* port before a token ends the start.                                     *)
LEMMA ReadsLineStep ==
  ASSUME NEW k, S(k)!PipeAssumption, SidecarHolds(k), NEW c \in k.callers, S(k)!ReadsLine(c)
  PROVE  SidecarHolds(k)'
<1> DEFINE n == call[c].pid
           x == [procs[n] EXCEPT !.script = Tail(procs[n].script)]
           r == [call[c] EXCEPT !.token = n]
<1>1. call[c].at = "handshake" /\ procs[n].script # <<>>
  BY DEF S!ReadsLine
<1>2. n \in 1..k.spawns /\ n \in 1..spawns /\ n \in Nat
  BY <1>1 DEF SidecarHolds, TokensAreTold, SidecarTypes, S!PipeAssumption
<1>3. /\ procs[n] \in Sidecars /\ procs \in [1..k.spawns -> Sidecars]
      /\ call[c] \in SidecarCalls
  BY <1>2 DEF SidecarHolds, SidecarTypes
<1>4. /\ x \in Sidecars /\ x.owner = procs[n].owner /\ x.st = procs[n].st
      /\ x.logged = procs[n].logged
  <2>1. procs[n].script \in Seq(Lines)
    BY <1>3 DEF Sidecars
  <2>2. Tail(procs[n].script) \in Seq(Lines)
    <3> DEFINE s == procs[n].script
    <3>1. s \in Seq(Lines) /\ s # <<>>
      BY <1>1, <2>1
    <3> HIDE DEF s
    <3>2. Tail(s) \in Seq(Lines)
      BY <3>1, HeadTailProperties
    <3> QED BY <3>2 DEF s
  <2> QED BY <1>3, <2>2 DEF Sidecars
<1>5. /\ r \in SidecarCalls /\ r.at = call[c].at /\ r.pid = n /\ r.token = n
  BY <1>2, <1>3 DEF SidecarCalls
<1>6. CASE S(k)!GivesUp(c)
  BY <1>1, <1>6, GivesUpStep
<1>7. CASE /\ call[c].token # None
           /\ slot' = [slot EXCEPT ![S(k)!OwnerOf(c)] = [pid |-> n, token |-> call[c].token]]
           /\ call' = [call EXCEPT ![c] = [call[c] EXCEPT !.at = "has"]]
           /\ sidecarQueue' = S(k)!Frees(c)
           /\ procs' = [procs EXCEPT ![n] = x] /\ UNCHANGED spawns
  <2> DEFINE port == [call[c] EXCEPT !.at = "has"]
             its == [pid |-> n, token |-> call[c].token]
  <2>1. call[c].token = n
    BY <1>1, <1>7 DEF SidecarHolds, TokensAreTold
  <2>2. /\ port \in SidecarCalls /\ port.at = "has" /\ port.pid = n
        /\ port.token = call[c].token
    BY <1>3 DEF SidecarCalls, AtOf
  <2>3. its \in Tokened /\ its.pid = n /\ its.token = call[c].token
    BY <1>2, <2>1 DEF Tokened
  <2> HIDE DEF x, port, its
  <2>4. slot' = [slot EXCEPT ![S(k)!OwnerOf(c)] = its] /\ call' = [call EXCEPT ![c] = port]
    BY <1>7 DEF port, its
  <2> QED BY <1>1, <1>4, <1>7, <2>2, <2>3, <2>4, PortStep
<1>8. CASE /\ procs' = [procs EXCEPT ![n] = x] /\ UNCHANGED <<slot, sidecarQueue, spawns>>
           /\ \/ call' = [call EXCEPT ![c] = r]
              \/ call' = call
  <2> HIDE DEF x, r, n
  <2>1. /\ procs' \in [1..k.spawns -> Sidecars]
        /\ procs'[n] = x /\ \A p \in 1..k.spawns : p # n => procs'[p] = procs[p]
    BY <1>2, <1>3, <1>4, <1>8
  <2>2. \A p \in 1..k.spawns :
          /\ procs'[p].owner = procs[p].owner /\ procs'[p].st = procs[p].st
          /\ procs'[p].logged = procs[p].logged
    BY <1>2, <1>4, <2>1
  <2>3. /\ call' \in [k.callers -> SidecarCalls]
        /\ \A d \in k.callers :
             /\ call'[d].at = call[d].at /\ call'[d].pid = call[d].pid
             /\ call'[d].token = call[d].token \/ (d = c /\ call'[d].token = call'[d].pid)
    BY <1>3, <1>5, <1>8 DEF SidecarHolds, SidecarTypes, n
  <2>4. SidecarTypes(k)'
    BY <1>8, <2>1, <2>2, <2>3 DEF SidecarHolds, SidecarTypes
  <2>5. \A w \in Owners : \A i \in 1..Len(sidecarQueue[w]) : sidecarQueue[w][i] \in k.callers
    BY ElementOfSeq DEF SidecarHolds, SidecarTypes
  <2>6. LocksAreTaken(k)'
    BY <1>8, <2>3, <2>5 DEF SidecarHolds, LocksAreTaken
  <2>7. 1..spawns \subseteq 1..k.spawns
    BY DEF SidecarHolds, SidecarTypes, S!PipeAssumption
  <2>8. TokensAreTold(k)'
    <3> SUFFICES ASSUME NEW d \in k.callers
                 PROVE  /\ call'[d].at = "handshake" =>
                             /\ call'[d].pid \in 1..spawns'
                             /\ procs'[call'[d].pid].owner = S(k)!OwnerOf(d)
                             /\ call'[d].token \in {None, call'[d].pid}
                        /\ call'[d].at \in {"has", "sent"} =>
                             call'[d].pid \in 1..spawns' /\ call'[d].token = call'[d].pid
      BY DEF TokensAreTold
    <3>1. /\ call'[d].at = call[d].at /\ call'[d].pid = call[d].pid
          /\ call'[d].token = call[d].token \/ call'[d].token = call'[d].pid
      BY <2>3
    <3>2. spawns' = spawns
      BY <1>8
    <3> QED BY <2>2, <2>7, <3>1, <3>2 DEF SidecarHolds, TokensAreTold
  <2>9. SlotsAreOwned'
    BY <1>8, <2>2, <2>7 DEF SidecarHolds, SlotsAreOwned
  <2>10. StartedInTurn(k)'
    BY <1>8, <2>2 DEF SidecarHolds, StartedInTurn
  <2>11. S(k)!NoSidecarLeft'
    BY <1>8, <2>2, <2>3 DEF SidecarHolds, S!NoSidecarLeft, S!Alive, S!Pids, S!Owners, Owners
  <2> QED BY <2>4, <2>6, <2>8, <2>9, <2>10, <2>11 DEF SidecarHolds
<1> QED
  <2>1. CASE S(k)!ParsesAsPort(Head(procs[n].script)) /\ call[c].token # None
    BY <1>7, <2>1 DEF S!ReadsLine
  <2>2. CASE S(k)!ParsesAsPort(Head(procs[n].script)) /\ call[c].token = None
    BY <1>6, <2>2 DEF S!ReadsLine
  <2>3. CASE ~S(k)!ParsesAsPort(Head(procs[n].script))
    <3>1. /\ procs' = [procs EXCEPT ![n] = x] /\ UNCHANGED <<slot, sidecarQueue, spawns>>
          /\ \/ call' = [call EXCEPT ![c] = r]
             \/ call' = [call EXCEPT ![c] = [call[c] EXCEPT !.token = call[c].token]]
      BY <2>3 DEF S!ReadsLine
    <3>2. [call EXCEPT ![c] = [call[c] EXCEPT !.token = call[c].token]] = call
      BY <1>3 DEF SidecarCalls, SidecarHolds, SidecarTypes
    <3> QED BY <1>8, <3>1, <3>2
  <2> QED BY <2>1, <2>2, <2>3

(* A process loads its model or dies: it stays its owner's.                *)
LEMMA ProcessStep ==
  ASSUME NEW k, S(k)!PipeAssumption, SidecarHolds(k), NEW n \in 1..k.spawns,
         S(k)!WarmsUp(n) \/ S(k)!Dies(n)
  PROVE  SidecarHolds(k)'
<1>1. procs[n] \in Sidecars /\ procs \in [1..k.spawns -> Sidecars]
  BY DEF SidecarHolds, SidecarTypes
<1>2. /\ UNCHANGED <<slot, sidecarQueue, call, spawns>>
      /\ \E x \in Sidecars :
           /\ procs' = [procs EXCEPT ![n] = x]
           /\ x.owner = procs[n].owner /\ x.logged = procs[n].logged
           /\ x.st = procs[n].st \/ (procs[n].st = "alive" /\ x.st = "dead")
  <2>1. CASE S(k)!WarmsUp(n)
    <3> DEFINE x == [procs[n] EXCEPT !.ready = TRUE]
    <3>1. /\ procs' = [procs EXCEPT ![n] = x] /\ UNCHANGED <<slot, sidecarQueue, call, spawns>>
      BY <2>1 DEF S!WarmsUp
    <3>2. /\ x \in Sidecars /\ x.owner = procs[n].owner /\ x.logged = procs[n].logged
          /\ x.st = procs[n].st
      BY <1>1 DEF Sidecars
    <3> HIDE DEF x
    <3> QED BY <3>1, <3>2
  <2>2. CASE S(k)!Dies(n)
    <3>1. PICK m \in 0..Len(procs[n].script) :
            procs' = [S(k)!Kill(n) EXCEPT ![n].script = SubSeq(@, 1, m)]
      BY <2>2 DEF S!Dies
    <3> DEFINE x == [procs[n] EXCEPT !.st = "dead", !.script = SubSeq(procs[n].script, 1, m)]
    <3>2. /\ procs' = [procs EXCEPT ![n] = x] /\ procs[n].st = "alive"
          /\ UNCHANGED <<slot, sidecarQueue, call, spawns>>
      <4>1. /\ procs[n].st = "alive" /\ UNCHANGED <<slot, sidecarQueue, call, spawns>>
        BY <2>2 DEF S!Dies, S!Alive
      <4>2. procs' = [procs EXCEPT ![n] = x]
        BY <1>1, <3>1 DEF S!Kill, Sidecars
      <4> QED BY <4>1, <4>2
    <3>3. SubSeq(procs[n].script, 1, m) \in Seq(Lines)
      BY <1>1, <3>1, SubSeqProperties DEF Sidecars
    <3>4. /\ x \in Sidecars /\ x.owner = procs[n].owner /\ x.logged = procs[n].logged
          /\ x.st = "dead"
      BY <1>1, <3>3 DEF Sidecars
    <3> HIDE DEF x
    <3> QED BY <3>2, <3>4
  <2> QED BY <2>1, <2>2
<1>3. /\ procs' \in [1..k.spawns -> Sidecars]
      /\ \A p \in 1..k.spawns :
           /\ procs'[p].owner = procs[p].owner /\ procs'[p].logged = procs[p].logged
           /\ procs'[p].st = procs[p].st \/ (procs[p].st = "alive" /\ procs'[p].st = "dead")
  BY <1>1, <1>2
<1>4. SidecarTypes(k)'
  BY <1>2, <1>3 DEF SidecarHolds, SidecarTypes
<1>5. LocksAreTaken(k)'
  BY <1>2 DEF SidecarHolds, LocksAreTaken
<1>6. StartedInTurn(k)' /\ SlotsAreOwned' /\ TokensAreTold(k)' /\ S(k)!NoSidecarLeft'
  <2>1. spawns' = spawns /\ UNCHANGED slot /\ UNCHANGED call /\ UNCHANGED <<call, slot>>
    BY <1>2
  <2>2. \A p \in 1..k.spawns :
          /\ procs'[p].owner = procs[p].owner
          /\ procs'[p].st = procs[p].st \/ (procs[p].st = "alive" /\ procs'[p].st = "dead")
    BY <1>3
  <2>3. /\ StartedInTurn(k)'
        /\ UNCHANGED slot => SlotsAreOwned'
        /\ UNCHANGED call => TokensAreTold(k)'
        /\ UNCHANGED <<call, slot>> => S(k)!NoSidecarLeft'
    BY <2>1, <2>2, ProcessesGoOn
  <2> QED BY <2>1, <2>3
<1> QED BY <1>4, <1>5, <1>6 DEF SidecarHolds

(* The app takes every process with it.                                    *)
LEMMA AppEndsStep ==
  ASSUME NEW k, S(k)!PipeAssumption, SidecarHolds(k), S(k)!AppEnds
  PROVE  SidecarHolds(k)'
<1>1. /\ slot' = [o \in Owners |-> None] /\ sidecarQueue' = [o \in Owners |-> <<>>]
      /\ call' = [c \in k.callers |-> S(k)!Idle] /\ spawns' = spawns
  BY DEF S!AppEnds, S!Owners, Owners
<1>2. procs \in [1..k.spawns -> Sidecars] /\ spawns \in 0..k.spawns
  BY DEF SidecarHolds, SidecarTypes
<1>3. \A p \in 1..k.spawns :
        /\ procs[p] \in Sidecars
        /\ procs'[p] = IF procs[p].st = "alive" THEN [procs[p] EXCEPT !.st = "dead"]
                       ELSE procs[p]
  BY <1>2 DEF S!AppEnds, S!JobCloses, S!Kill, S!Alive, S!Pids
<1>4. \A p \in 1..k.spawns :
        /\ procs'[p] \in Sidecars /\ procs'[p].owner = procs[p].owner
        /\ procs'[p].logged = procs[p].logged /\ procs'[p].st # "alive"
        /\ procs'[p].st = procs[p].st \/ (procs[p].st = "alive" /\ procs'[p].st = "dead")
  <2> SUFFICES ASSUME NEW p \in 1..k.spawns
               PROVE  /\ procs'[p] \in Sidecars /\ procs'[p].owner = procs[p].owner
                      /\ procs'[p].logged = procs[p].logged /\ procs'[p].st # "alive"
                      /\ procs'[p].st = procs[p].st
                           \/ (procs[p].st = "alive" /\ procs'[p].st = "dead")
    OBVIOUS
  <2>1. procs[p] \in Sidecars
    BY <1>3
  <2>2. CASE procs[p].st = "alive"
    <3> DEFINE x == [procs[p] EXCEPT !.st = "dead"]
    <3>1. procs'[p] = x
      BY <1>3, <2>2
    <3>2. /\ x \in Sidecars /\ x.owner = procs[p].owner /\ x.logged = procs[p].logged
          /\ x.st = "dead"
      BY <2>1 DEF Sidecars
    <3> HIDE DEF x
    <3> QED BY <2>2, <3>1, <3>2
  <2>3. CASE procs[p].st # "alive"
    BY <1>3, <2>1, <2>3
  <2> QED BY <2>2, <2>3
<1>5. procs' \in [1..k.spawns -> Sidecars]
  <2>1. procs' = [p \in 1..k.spawns |-> S(k)!JobCloses[p]]
    BY DEF S!AppEnds, S!JobCloses, S!Pids
  <2> QED BY <1>4, <2>1
<1>6. S(k)!Idle \in SidecarCalls /\ S(k)!Idle.at = "idle"
  BY DEF S!Idle, SidecarCalls, AtOf
<1>7. SidecarTypes(k)'
  <2>1. \A p \in 1..k.spawns : procs'[p].logged <= k.pipe
    BY <1>4 DEF SidecarHolds, SidecarTypes
  <2>2. slot' \in [Owners -> Tokened \cup {None}]
    BY <1>1
  <2>3. sidecarQueue' \in [Owners -> Seq(k.callers)]
    <3>1. <<>> \in Seq(k.callers)
      BY EmptySeq
    <3> QED BY <1>1, <3>1
  <2>4. call' \in [k.callers -> SidecarCalls]
    BY <1>1, <1>6
  <2> QED BY <1>1, <1>2, <1>5, <2>1, <2>2, <2>3, <2>4 DEF SidecarTypes
<1>8. LocksAreTaken(k)'
  <2>1. \A o \in Owners : sidecarQueue'[o] = <<>> /\ Len(sidecarQueue'[o]) = 0
    BY <1>1
  <2>2. \A c \in k.callers : call'[c].at = "idle"
    BY <1>1, <1>6
  <2> QED BY <2>1, <2>2 DEF LocksAreTaken, Once
<1>9. TokensAreTold(k)'
  BY <1>1, <1>6 DEF TokensAreTold
<1>10. SlotsAreOwned'
  BY <1>1 DEF SlotsAreOwned
<1>11. StartedInTurn(k)'
  BY <1>1, <1>4 DEF SidecarHolds, StartedInTurn
<1>12. S(k)!NoSidecarLeft'
  BY <1>4 DEF S!NoSidecarLeft, S!Alive, S!Pids
<1> QED BY <1>7, <1>8, <1>9, <1>10, <1>11, <1>12 DEF SidecarHolds

(* Every step of a caller, a process and the app.                          *)
LEMMA SidecarStep ==
  ASSUME NEW k, S(k)!PipeAssumption, SidecarHolds(k), [S(k)!Next]_(S(k)!vars)
  PROVE  SidecarHolds(k)'
<1>1. ASSUME NEW c \in k.callers, NEW kind \in {"health", "decode"}, S(k)!Ask(c, kind)
      PROVE  SidecarHolds(k)'
  BY <1>1, AskStep
<1>2. ASSUME NEW c \in k.callers, S(k)!Finds(c)
      PROVE  SidecarHolds(k)'
  <2>1. CASE S(k)!Found(c)
    BY <2>1, FoundStep
  <2>2. CASE S(k)!SpawnFails(c)
    BY <2>2, SpawnFailsStep
  <2>3. ASSUME NEW script \in {<<"noise", "token", "port">>, <<"port", "token">>, <<"token">>},
               S(k)!Spawn(c, script)
        PROVE  SidecarHolds(k)'
    <3>1. /\ <<"noise", "token", "port">> \in Seq(Lines) /\ <<"port", "token">> \in Seq(Lines)
          /\ <<"token">> \in Seq(Lines)
      BY DEF Lines
    <3> QED BY <2>3, <3>1, SpawnStep
  <2> QED BY <1>2, <2>1, <2>2, <2>3 DEF S!Finds
<1>3. ASSUME NEW c \in k.callers, S(k)!Handshakes(c)
      PROVE  SidecarHolds(k)'
  <2>1. CASE S(k)!ReadsLine(c)
    BY <2>1, ReadsLineStep
  <2>2. CASE S(k)!HandshakeFails(c)
    <3>1. call[c].at = "handshake" /\ S(k)!GivesUp(c)
      BY <2>2 DEF S!HandshakeFails
    <3> QED BY <3>1, GivesUpStep
  <2> QED BY <1>3, <2>1, <2>2 DEF S!Handshakes
<1>4. ASSUME NEW c \in k.callers, S(k)!Connect(c) \/ S(k)!Answers(c)
      PROVE  SidecarHolds(k)'
  BY <1>4, CallStep
<1>5. ASSUME NEW p \in 1..k.spawns, S(k)!WarmsUp(p) \/ S(k)!Dies(p)
      PROVE  SidecarHolds(k)'
  BY <1>5, ProcessStep
<1>6. CASE S(k)!AppEnds
  BY <1>6, AppEndsStep
<1>7. CASE UNCHANGED S(k)!vars
  BY <1>7 DEF S!vars, SidecarHolds, SidecarTypes, LocksAreTaken, TokensAreTold, SlotsAreOwned,
              StartedInTurn, S!NoSidecarLeft, S!Alive
<1> QED BY <1>1, <1>2, <1>3, <1>4, <1>5, <1>6, <1>7 DEF S!Next, S!Pids

(* At the start no process was started and no call is made.                *)
LEMMA SidecarInit ==
  ASSUME NEW k, S(k)!PipeAssumption, S(k)!Init
  PROVE  SidecarHolds(k)
<1>1. S(k)!Idle \in SidecarCalls /\ S(k)!Idle.at = "idle"
  BY DEF S!Idle, SidecarCalls, AtOf
<1>2. /\ S(k)!NotStarted \in Sidecars /\ S(k)!NotStarted.st = "none"
      /\ S(k)!NotStarted.logged = 0
  BY EmptySeq DEF S!NotStarted, Sidecars
<1>3. /\ procs = [p \in 1..k.spawns |-> S(k)!NotStarted] /\ slot = [o \in Owners |-> None]
      /\ sidecarQueue = [o \in Owners |-> <<>>] /\ call = [c \in k.callers |-> S(k)!Idle]
      /\ spawns = 0 /\ k.spawns \in Nat /\ k.pipe \in Nat
  BY DEF S!Init, S!Pids, S!Owners, Owners, S!PipeAssumption
<1>4. \A o \in Owners : sidecarQueue[o] = <<>> /\ Len(sidecarQueue[o]) = 0
  BY <1>3
<1>5. SidecarTypes(k)
  BY <1>1, <1>2, <1>3, EmptySeq DEF SidecarTypes
<1>6. LocksAreTaken(k)
  BY <1>1, <1>3, <1>4 DEF LocksAreTaken, Once
<1>7. TokensAreTold(k) /\ SlotsAreOwned /\ StartedInTurn(k) /\ S(k)!NoSidecarLeft
  BY <1>1, <1>2, <1>3 DEF TokensAreTold, SlotsAreOwned, StartedInTurn, S!NoSidecarLeft,
                          S!Alive, S!Pids
<1> QED BY <1>5, <1>6, <1>7 DEF SidecarHolds

(* A set whose members are all the same has at most one.                   *)
LEMMA AtMostOne ==
  ASSUME NEW E0, \A x, y \in E0 : x = y
  PROVE  Cardinality(E0) <= 1
<1>1. CASE E0 = {}
  BY <1>1, FS_EmptySet
<1>2. CASE E0 # {}
  <2>1. PICK x : E0 = {x}
    BY <1>2
  <2> QED BY <2>1, FS_Singleton
<1> QED BY <1>1, <1>2

(* An owner has one sidecar at a time, each is called with its own token,  *)
(* and none is left running.                                               *)
LEMMA SidecarMeans ==
  ASSUME NEW k, S(k)!PipeAssumption, SidecarHolds(k)
  PROVE  S(k)!SidecarInv
<1>1. S(k)!SidecarTypeOK
  <2>1. \A p \in 1..k.spawns :
          procs[p].st \in {"none", "alive", "dead"} /\ procs[p].logged \in 0..k.pipe
    BY DEF SidecarHolds, SidecarTypes, Sidecars, S!PipeAssumption
  <2>2. 1..spawns \subseteq 1..k.spawns
    BY DEF SidecarHolds, SidecarTypes, S!PipeAssumption
  <2>3. \A o \in Owners : slot[o] # None => procs[slot[o].pid].st # "none"
    <3> SUFFICES ASSUME NEW o \in Owners, slot[o] # None
                 PROVE  procs[slot[o].pid].st # "none"
      OBVIOUS
    <3>1. slot[o].pid \in 1..spawns /\ slot[o].pid \in 1..k.spawns
      BY <2>2 DEF SidecarHolds, SlotsAreOwned
    <3>2. ~(slot[o].pid > spawns)
      BY <3>1 DEF SidecarHolds, SidecarTypes
    <3> QED BY <3>1, <3>2 DEF SidecarHolds, StartedInTurn
  <2>4. \A c \in k.callers :
          /\ call[c].at \in {"idle", "asked", "handshake", "has", "sent"}
          /\ call[c].at \in {"handshake", "has", "sent"} => call[c].pid \in 1..spawns
    BY DEF SidecarHolds, SidecarTypes, SidecarCalls, AtOf, TokensAreTold
  <2> QED BY <2>1, <2>3, <2>4 DEF S!SidecarTypeOK, S!Pids, S!Owners, Owners
<1>2. S(k)!OneEach
  <2> SUFFICES ASSUME NEW o \in Owners
               PROVE  S(k)!Cardinality({p \in 1..k.spawns : procs[p].st = "alive" /\ procs[p].owner = o})
                        <= 1
    BY DEF S!OneEach, S!Alive, S!Pids, S!Owners, Owners
  <2> DEFINE mine == {p \in 1..k.spawns : procs[p].st = "alive" /\ procs[p].owner = o}
  <2>1. \A p \in mine :
          \/ slot[o] # None /\ slot[o].pid = p
          \/ \E c \in k.callers :
               /\ call[c].at = "handshake" /\ call[c].pid = p /\ S(k)!OwnerOf(c) = o
    BY DEF SidecarHolds, S!NoSidecarLeft, S!Alive, S!Pids, S!Owners, Owners, SlotsAreOwned,
           TokensAreTold
  <2>2. \A c \in k.callers : call[c].at = "handshake" /\ S(k)!OwnerOf(c) = o =>
          sidecarQueue[o][1] = c /\ slot[o] = None
    BY DEF SidecarHolds, LocksAreTaken
  <2>3. \A p, q \in mine : p = q
    BY <2>1, <2>2
  <2>4. Cardinality(mine) <= 1
    <3> HIDE DEF mine
    <3> QED BY <2>3, AtMostOne
  <2>5. \A s : S(k)!Cardinality(s) = Cardinality(s)
    BY Zenon DEF S!Cardinality, Cardinality
  <2> QED BY <2>4, <2>5
<1>3. S(k)!CarriesItsToken
  BY DEF SidecarHolds, TokensAreTold, S!CarriesItsToken
<1> QED BY <1>1, <1>2, <1>3 DEF SidecarHolds, S!SidecarInv

-----------------------------------------------------------------------------
(* The wake words                                                          *)

WakeModes == {"dictation", "command"}
Kept(k) == {audio \in Seq(Nat) : Len(audio) <= k.keep}
WakeSlots(k) ==
  [model : k.models, audio : Kept(k), over : Nat, fired : BOOLEAN, now : BOOLEAN]
WakePcs == {"none", "load", "open", "listen", "stopping"}
Workers(k) ==
  [pc : WakePcs, running : {"no", "yes", "last"},
   slots : UNION {[loaded -> WakeSlots(k)] : loaded \in SUBSET WakeModes},
   suspended : BOOLEAN]

WakeTypes(k) ==
  /\ settings \in [WakeModes -> [enabled : BOOLEAN, model : k.models \cup {"none"}]]
  /\ generation \in 0..k.reloads /\ {listening, wakeWordShown, wakeWordGate} \subseteq BOOLEAN
  /\ worker \in [1..k.reloads -> Workers(k)]
  /\ chunks \in 0..k.chunks /\ installed \subseteq k.models

WakeHolds(k) == WakeTypes(k) /\ W(k)!ArmedIsTrue /\ W(k)!SlotsAreApart

(* The buffer of a slot is the last of the first n chunks, in one piece.   *)
InOnePiece(audio, n) == \A i \in 1..Len(audio) : audio[i] + Len(audio) = n + i

(* The buffer b is the buffer a with c rolled in.                          *)
Follows(b, a, c) ==
  /\ Len(b) \in 1..Len(a) + 1 /\ b[Len(b)] = c
  /\ \A i \in 1..Len(b) : i < Len(b) => \E j \in 1..Len(a) :
       b[i] = a[j] /\ j + Len(b) = i + Len(a) + 1

(* y is the slot x with the buffer audio, its trigger moved on.            *)
MovesTrigger(k, x, high, audio, y) ==
  LET over == IF high /\ Len(audio) = k.keep THEN x.over + 1 ELSE 0
  IN  /\ y.model = x.model /\ y.audio = audio /\ y.over = over
      /\ y.now <=> (over >= 2 /\ ~x.fired)
      /\ y.fired <=> (over > 0 /\ (x.fired \/ over >= 2))

(* A trigger that may fire has been under its threshold since it fired.    *)
Rearmed(x, s) ==
  ~x.fired => x.over <= 1 /\ \A f \in fired : f.slot = s => f.at + x.over < chunks

(* Of one generation, while settings stay: a worker that listens has heard *)
(* every chunk there was, and the one before it none.                      *)
HearsInOrder(k) ==
  /\ \A g \in 1..k.reloads : g # generation => worker[g].pc = "none"
  /\ \A f \in fired : /\ f.gen = generation /\ f.at \in 1..chunks /\ f.from \in Nat
                      /\ f.at + 1 = f.from + k.keep
  /\ generation = 0 => fired = {}
  /\ generation > 0 =>
       LET w == worker[generation]
       IN  /\ w.pc \in {"load", "open"} => fired = {}
           /\ w.pc = "open" =>
                /\ ~w.suspended
                /\ \A s \in DOMAIN w.slots : w.slots[s] = W(k)!NewSlot(w.slots[s].model)
           /\ w.pc = "load" => ~w.suspended
           /\ w.pc = "listen" => \A s \in DOMAIN w.slots :
                /\ IF w.suspended THEN w.slots[s].audio = <<>>
                   ELSE InOnePiece(w.slots[s].audio, chunks)
                /\ Rearmed(w.slots[s], s)
  /\ W(k)!FiresOncePerUtterance

HearingHolds(k) ==
  /\ k.chunks = 0 => fired = {}
  /\ generation <= 1 => HearsInOrder(k)

(* A new slot is a slot, and a worker without slots is a worker.           *)
LEMMA NewSlots ==
  ASSUME NEW k, W(k)!WakeAssumption
  PROVE  /\ \A m \in k.models : W(k)!NewSlot(m) \in WakeSlots(k) /\ W(k)!NewSlot(m).model = m
         /\ W(k)!NoSlots \in UNION {[loaded -> WakeSlots(k)] : loaded \in SUBSET WakeModes}
         /\ DOMAIN W(k)!NoSlots = {} /\ W(k)!Idle \in Workers(k) /\ W(k)!Idle.pc = "none"
         /\ [W(k)!Idle EXCEPT !.pc = "load", !.running = "yes"] \in Workers(k)
         /\ DOMAIN W(k)!Idle.slots = {} /\ ~W(k)!Idle.suspended
<1>1. \A m \in k.models : W(k)!NewSlot(m) \in WakeSlots(k) /\ W(k)!NewSlot(m).model = m
  <2>1. <<>> \in Kept(k)
    BY EmptySeq DEF W!WakeAssumption, Kept
  <2> QED BY <2>1 DEF W!NewSlot, WakeSlots
<1>2. W(k)!NoSlots \in [{} -> WakeSlots(k)] /\ DOMAIN W(k)!NoSlots = {}
  BY DEF W!NoSlots
<1>3. W(k)!NoSlots \in UNION {[loaded -> WakeSlots(k)] : loaded \in SUBSET WakeModes}
  <2>1. {} \in SUBSET WakeModes
    OBVIOUS
  <2> QED BY <1>2, <2>1
<1>4. /\ W(k)!Idle \in Workers(k) /\ W(k)!Idle.pc = "none"
      /\ [W(k)!Idle EXCEPT !.pc = "load", !.running = "yes"] \in Workers(k)
      /\ DOMAIN W(k)!Idle.slots = {} /\ ~W(k)!Idle.suspended
  BY <1>2, <1>3 DEF W!Idle, Workers, WakePcs
<1> QED BY <1>1, <1>2, <1>3, <1>4

(* What a worker becomes is a worker with the slots of two modes apart.    *)
LEMMA WorkerChanges ==
  ASSUME NEW k, WakeTypes(k), W(k)!SlotsAreApart, NEW g \in 1..k.reloads, NEW w \in Workers(k),
         \A s, t \in DOMAIN w.slots : w.slots[s].model = w.slots[t].model => s = t,
         worker' = [worker EXCEPT ![g] = w]
  PROVE  /\ worker' \in [1..k.reloads -> Workers(k)] /\ W(k)!SlotsAreApart'
         /\ worker'[g] = w /\ \A h \in 1..k.reloads : h # g => worker'[h] = worker[h]
<1>1. /\ worker' \in [1..k.reloads -> Workers(k)]
      /\ worker'[g] = w /\ \A h \in 1..k.reloads : h # g => worker'[h] = worker[h]
  BY DEF WakeTypes
<1>2. W(k)!SlotsAreApart'
  BY <1>1 DEF W!SlotsAreApart, W!Gens
<1> QED BY <1>1, <1>2

(* A superseded worker keeps its slots and where it stands.                *)
LEMMA ReloadStep ==
  ASSUME NEW k, W(k)!WakeAssumption, WakeHolds(k), NEW ok \in BOOLEAN, W(k)!Reload(ok)
  PROVE  /\ WakeHolds(k)' /\ generation' = generation + 1 /\ UNCHANGED <<fired, chunks>>
         /\ \A h \in 1..k.reloads : h # generation' => worker'[h].pc = worker[h].pc
         /\ worker'[generation'].pc \in {"load", "none"} /\ ~worker'[generation'].suspended
<1> DEFINE x == IF ok THEN [W(k)!Idle EXCEPT !.pc = "load", !.running = "yes"] ELSE W(k)!Idle
<1>0. /\ worker \in [1..k.reloads -> Workers(k)] /\ generation \in Nat /\ k.reloads \in Nat
      /\ {listening, wakeWordShown, wakeWordGate} \subseteq BOOLEAN
  BY DEF WakeHolds, WakeTypes, W!WakeAssumption
<1>1. /\ generation < k.reloads /\ generation' = generation + 1
      /\ UNCHANGED <<settings, installed, wakeWordGate, chunks, fired>>
      /\ worker' = [W(k)!Superseded EXCEPT ![generation'] = x]
      /\ IF ok \/ ~listening THEN UNCHANGED <<listening, wakeWordShown>>
         ELSE listening' = FALSE /\ wakeWordShown' = FALSE
  BY DEF W!Reload
<1>2. /\ x \in Workers(k) /\ x.pc = (IF ok THEN "load" ELSE "none") /\ DOMAIN x.slots = {}
      /\ ~x.suspended
  <2>1. CASE ok
    BY <2>1, NewSlots DEF W!Idle
  <2>2. CASE ~ok
    BY <2>2, NewSlots
  <2> QED BY <2>1, <2>2
<1> HIDE DEF x
<1>3. \A h \in 1..k.reloads :
        /\ W(k)!Superseded[h] \in Workers(k) /\ W(k)!Superseded[h].pc = worker[h].pc
        /\ W(k)!Superseded[h].slots = worker[h].slots
  <2> SUFFICES ASSUME NEW h \in 1..k.reloads
               PROVE  /\ W(k)!Superseded[h] \in Workers(k)
                      /\ W(k)!Superseded[h].pc = worker[h].pc
                      /\ W(k)!Superseded[h].slots = worker[h].slots
    OBVIOUS
  <2> DEFINE r == IF worker[h].running = "yes" THEN "last" ELSE worker[h].running
  <2>1. W(k)!Superseded[h] = [worker[h] EXCEPT !.running = r]
    BY DEF W!Superseded, W!Gens
  <2>2. worker[h] \in Workers(k)
    BY <1>0
  <2>3. r \in {"no", "yes", "last"}
    BY <2>2 DEF Workers
  <2> HIDE DEF r
  <2> QED BY <2>1, <2>2, <2>3 DEF Workers
<1>4. generation' \in 1..k.reloads /\ generation' \in 0..k.reloads
  BY <1>0, <1>1
<1>5. DOMAIN W(k)!Superseded = 1..k.reloads
  BY DEF W!Superseded, W!Gens
<1>6. /\ worker'[generation'] = x
      /\ \A h \in 1..k.reloads : h # generation' => worker'[h] = W(k)!Superseded[h]
      /\ DOMAIN worker' = 1..k.reloads
  BY <1>1, <1>4, <1>5
<1>7. worker' \in [1..k.reloads -> Workers(k)]
  <2>1. worker' = [h \in 1..k.reloads |-> worker'[h]]
    BY <1>1, <1>5 DEF W!Superseded, W!Gens
  <2>2. \A h \in 1..k.reloads : worker'[h] \in Workers(k)
    BY <1>2, <1>3, <1>6
  <2> QED BY <2>1, <2>2
<1>8. WakeTypes(k)'
  <2>1. {listening', wakeWordShown'} \subseteq BOOLEAN
    BY <1>0, <1>1
  <2> QED BY <1>1, <1>4, <1>7, <2>1 DEF WakeHolds, WakeTypes
<1>9. W(k)!SlotsAreApart'
  BY <1>2, <1>3, <1>6 DEF WakeHolds, W!SlotsAreApart, W!Gens
<1>10. W(k)!ArmedIsTrue'
  <2>1. wakeWordShown = listening
    BY DEF WakeHolds, W!ArmedIsTrue
  <2>2. CASE ok
    BY <1>0, <1>1, <1>2, <1>6, <2>1, <2>2 DEF W!ArmedIsTrue
  <2>3. CASE ~ok
    <3>1. ~listening' /\ wakeWordShown' = listening'
      BY <1>0, <1>1, <2>1, <2>3
    <3>2. worker'[generation'].pc = "none"
      BY <1>2, <1>6, <2>3
    <3> QED BY <3>1, <3>2 DEF W!ArmedIsTrue
  <2> QED BY <2>2, <2>3
<1> QED BY <1>1, <1>2, <1>3, <1>6, <1>8, <1>9, <1>10 DEF WakeHolds

(* A worker that loads takes the slots that are on and apart.              *)
LEMMA LoadStep ==
  ASSUME NEW k, W(k)!WakeAssumption, WakeHolds(k), NEW g \in 1..k.reloads, W(k)!Load(g)
  PROVE  /\ WakeHolds(k)' /\ UNCHANGED <<fired, chunks, generation>>
         /\ worker[g].pc = "load" /\ worker'[g].pc \in {"open", "stopping"}
         /\ worker'[g].suspended = worker[g].suspended
         /\ \A s \in DOMAIN worker'[g].slots :
              worker'[g].slots[s] = W(k)!NewSlot(worker'[g].slots[s].model)
         /\ \A h \in 1..k.reloads : h # g => worker'[h] = worker[h]
<1> DEFINE loaded == W(k)!LoadedModes
           slots == [s \in loaded |-> W(k)!NewSlot(settings[s].model)]
           pc == IF loaded = {} THEN "stopping" ELSE "open"
           w == [worker[g] EXCEPT !.slots = slots, !.pc = pc]
<1>1. /\ worker[g].pc = "load" /\ worker' = [worker EXCEPT ![g] = w]
      /\ UNCHANGED <<settings, installed, generation, listening, wakeWordShown, wakeWordGate,
                     chunks, fired>>
  BY DEF W!Load, W!At
<1>2. /\ worker[g] \in Workers(k) /\ installed \subseteq k.models
      /\ settings \in [WakeModes -> [enabled : BOOLEAN, model : k.models \cup {"none"}]]
  BY DEF WakeHolds, WakeTypes
<1>3. /\ loaded \subseteq WakeModes
      /\ \A s \in loaded : settings[s].model \in k.models /\ settings[s].enabled
      /\ \A s, t \in loaded : settings[s].model = settings[t].model => s = t
  BY <1>2 DEF W!LoadedModes, W!Loads, W!SlotModes, WakeModes, W!NoModel, W!WakeAssumption
<1>4. /\ slots \in [loaded -> WakeSlots(k)] /\ DOMAIN slots = loaded
      /\ \A s \in loaded : slots[s].model = settings[s].model
                           /\ slots[s] = W(k)!NewSlot(slots[s].model)
  <2> HIDE DEF loaded
  <2>1. \A s \in loaded : /\ W(k)!NewSlot(settings[s].model) \in WakeSlots(k)
                          /\ W(k)!NewSlot(settings[s].model).model = settings[s].model
    BY <1>3, NewSlots
  <2> QED BY <2>1
<1>5. slots \in UNION {[some -> WakeSlots(k)] : some \in SUBSET WakeModes}
  <2> HIDE DEF loaded, slots
  <2> QED BY <1>3, <1>4
<1> HIDE DEF slots, loaded
<1>6. pc \in {"open", "stopping"} /\ {"open", "stopping"} \subseteq WakePcs
  BY DEF WakePcs
<1> HIDE DEF pc
<1>7. /\ w \in Workers(k) /\ w.slots = slots /\ w.pc = pc
      /\ w.suspended = worker[g].suspended
  BY <1>2, <1>5, <1>6 DEF Workers
<1> HIDE DEF w
<1>8. \A s, t \in DOMAIN w.slots : w.slots[s].model = w.slots[t].model => s = t
  BY <1>3, <1>4, <1>7
<1>9. /\ worker' \in [1..k.reloads -> Workers(k)] /\ W(k)!SlotsAreApart'
      /\ worker'[g] = w /\ \A h \in 1..k.reloads : h # g => worker'[h] = worker[h]
  BY <1>1, <1>7, <1>8, WorkerChanges DEF WakeHolds
<1>10. WakeTypes(k)'
  BY <1>1, <1>9 DEF WakeHolds, WakeTypes
<1>11. W(k)!ArmedIsTrue'
  <2>1. generation > 0 => generation \in 1..k.reloads
    BY DEF WakeHolds, WakeTypes, W!WakeAssumption
  <2> QED BY <1>1, <1>6, <1>7, <1>9, <2>1 DEF WakeHolds, W!ArmedIsTrue
<1> QED BY <1>1, <1>4, <1>6, <1>7, <1>9, <1>10, <1>11 DEF WakeHolds

(* The worker stands elsewhere, and what it reports is heard only of the   *)
(* current generation.                                                     *)
LEMMA MovesOn ==
  ASSUME NEW k, W(k)!WakeAssumption, WakeHolds(k), NEW g \in 1..k.reloads,
         NEW w \in Workers(k), w.slots = worker[g].slots \/ DOMAIN w.slots = {},
         worker' = [worker EXCEPT ![g] = w],
         UNCHANGED <<settings, installed, generation, wakeWordGate, chunks, fired>>,
         \/ worker[g].pc # "none" /\ w.pc = "stopping" /\ UNCHANGED <<listening, wakeWordShown>>
         \/ w.pc = "listen" /\ W(k)!Report(g, TRUE)
         \/ w.pc = "none" /\ W(k)!Report(g, FALSE)
  PROVE  /\ WakeHolds(k)' /\ worker'[g] = w
         /\ \A h \in 1..k.reloads : h # g => worker'[h] = worker[h]
<1>0. /\ worker[g] \in Workers(k) /\ generation \in 0..k.reloads
      /\ generation > 0 => generation \in 1..k.reloads
      /\ {listening, wakeWordShown, wakeWordGate} \subseteq BOOLEAN
      /\ wakeWordShown = listening
  <2>1. worker[g] \in Workers(k) /\ generation \in 0..k.reloads
    BY DEF WakeHolds, WakeTypes
  <2>2. generation > 0 => generation \in 1..k.reloads
    BY <2>1 DEF W!WakeAssumption
  <2>3. {listening, wakeWordShown, wakeWordGate} \subseteq BOOLEAN /\ wakeWordShown = listening
    BY DEF WakeHolds, WakeTypes, W!ArmedIsTrue
  <2> QED BY <2>1, <2>2, <2>3
<1>1. \A s, t \in DOMAIN w.slots : w.slots[s].model = w.slots[t].model => s = t
  BY DEF WakeHolds, W!SlotsAreApart, W!Gens
<1>2. /\ worker' \in [1..k.reloads -> Workers(k)] /\ W(k)!SlotsAreApart'
      /\ worker'[g] = w /\ \A h \in 1..k.reloads : h # g => worker'[h] = worker[h]
  BY <1>1, WorkerChanges DEF WakeHolds
<1>3. /\ {listening', wakeWordShown'} \subseteq BOOLEAN /\ wakeWordShown' = listening'
      /\ g # generation => listening' = listening
      /\ g = generation /\ w.pc = "listen" => listening' = TRUE
      /\ g = generation /\ w.pc = "none" => listening' = FALSE
      /\ w.pc = "stopping" => listening' = listening
  <2>1. CASE w.pc = "stopping" /\ UNCHANGED <<listening, wakeWordShown>>
    BY <1>0, <2>1
  <2>2. CASE w.pc = "listen" /\ W(k)!Report(g, TRUE)
    <3>1. CASE g # generation
      BY <1>0, <2>2, <3>1 DEF W!Report
    <3>2. CASE g = generation
      <4>1. listening' = TRUE /\ wakeWordShown' = TRUE
        BY <1>0, <2>2, <3>2 DEF W!Report
      <4> QED BY <2>2, <3>2, <4>1
    <3> QED BY <3>1, <3>2
  <2>3. CASE w.pc = "none" /\ W(k)!Report(g, FALSE)
    <3>1. CASE g # generation
      BY <1>0, <2>3, <3>1 DEF W!Report
    <3>2. CASE g = generation
      <4>1. listening' = FALSE /\ wakeWordShown' = FALSE
        BY <1>0, <2>3, <3>2 DEF W!Report
      <4> QED BY <2>3, <3>2, <4>1
    <3> QED BY <3>1, <3>2
  <2> QED BY <2>1, <2>2, <2>3
<1>4. WakeTypes(k)'
  BY <1>2, <1>3 DEF WakeHolds, WakeTypes
<1>5. W(k)!ArmedIsTrue'
  <2>1. w.pc \in {"stopping", "listen", "none"}
    OBVIOUS
  <2>2. CASE g = generation
    BY <1>0, <1>2, <1>3, <2>1, <2>2 DEF W!ArmedIsTrue
  <2>3. CASE g # generation
    BY <1>0, <1>2, <1>3, <2>3 DEF WakeHolds, W!ArmedIsTrue
  <2> QED BY <2>2, <2>3
<1> QED BY <1>2, <1>4, <1>5 DEF WakeHolds

(* The worker opens its microphone, leaves and reports.                    *)
LEMMA WorkerMovesStep ==
  ASSUME NEW k, W(k)!WakeAssumption, WakeHolds(k), NEW g \in 1..k.reloads,
         W(k)!Leave(g) \/ W(k)!StoppedListening(g) \/ \E ok \in BOOLEAN : W(k)!OpenMic(g, ok)
  PROVE  /\ WakeHolds(k)' /\ UNCHANGED <<fired, chunks, generation>>
         /\ worker[g].pc # "none"
         /\ \/ worker'[g].pc \in {"stopping", "none"}
            \/ /\ worker[g].pc = "open" /\ worker'[g].pc = "listen"
               /\ worker'[g].slots = worker[g].slots /\ worker'[g].suspended = worker[g].suspended
         /\ \A h \in 1..k.reloads : h # g => worker'[h] = worker[h]
<1> DEFINE stops == [worker[g] EXCEPT !.pc = "stopping"]
           listens == [worker[g] EXCEPT !.pc = "listen"]
<1>0. worker[g] \in Workers(k)
  BY DEF WakeHolds, WakeTypes
<1>1. /\ stops \in Workers(k) /\ stops.slots = worker[g].slots /\ stops.pc = "stopping"
      /\ listens \in Workers(k) /\ listens.slots = worker[g].slots /\ listens.pc = "listen"
      /\ listens.suspended = worker[g].suspended
  BY <1>0 DEF Workers, WakePcs
<1>2. W(k)!Idle \in Workers(k) /\ DOMAIN W(k)!Idle.slots = {} /\ W(k)!Idle.pc = "none"
  BY NewSlots
<1>3. CASE W(k)!Leave(g)
  <2>1. /\ worker[g].pc = "listen" /\ worker' = [worker EXCEPT ![g] = stops]
        /\ UNCHANGED <<settings, installed, generation, wakeWordGate, chunks, fired>>
        /\ UNCHANGED <<listening, wakeWordShown>>
    BY <1>3 DEF W!Leave, W!At, W!Stops
  <2> HIDE DEF stops
  <2>2. /\ WakeHolds(k)' /\ worker'[g] = stops
        /\ \A h \in 1..k.reloads : h # g => worker'[h] = worker[h]
    BY <1>1, <2>1, MovesOn
  <2> QED BY <1>1, <2>1, <2>2
<1>4. CASE W(k)!StoppedListening(g)
  <2>1. /\ worker[g].pc = "stopping" /\ worker' = [worker EXCEPT ![g] = W(k)!Idle]
        /\ UNCHANGED <<settings, installed, generation, wakeWordGate, chunks, fired>>
        /\ W(k)!Report(g, FALSE)
    BY <1>4 DEF W!StoppedListening, W!At
  <2>2. /\ WakeHolds(k)' /\ worker'[g] = W(k)!Idle
        /\ \A h \in 1..k.reloads : h # g => worker'[h] = worker[h]
    BY <1>2, <2>1, MovesOn
  <2> QED BY <1>2, <2>1, <2>2
<1>5. ASSUME NEW ok \in BOOLEAN, W(k)!OpenMic(g, ok)
      PROVE  /\ WakeHolds(k)' /\ UNCHANGED <<fired, chunks, generation>>
             /\ worker[g].pc # "none"
             /\ \/ worker'[g].pc \in {"stopping", "none"}
                \/ /\ worker[g].pc = "open" /\ worker'[g].pc = "listen"
                   /\ worker'[g].slots = worker[g].slots
                   /\ worker'[g].suspended = worker[g].suspended
             /\ \A h \in 1..k.reloads : h # g => worker'[h] = worker[h]
  <2>1. /\ worker[g].pc = "open"
        /\ UNCHANGED <<settings, installed, generation, wakeWordGate, chunks, fired>>
    BY <1>5 DEF W!OpenMic, W!At
  <2>2. CASE ok
    <3>1. worker' = [worker EXCEPT ![g] = listens] /\ W(k)!Report(g, TRUE)
      BY <1>5, <2>2 DEF W!OpenMic
    <3> HIDE DEF listens, stops
    <3>2. /\ WakeHolds(k)' /\ worker'[g] = listens
          /\ \A h \in 1..k.reloads : h # g => worker'[h] = worker[h]
      BY <1>1, <2>1, <3>1, MovesOn
    <3> QED BY <1>1, <2>1, <3>2
  <2>3. CASE ~ok
    <3>1. worker' = [worker EXCEPT ![g] = stops] /\ UNCHANGED <<listening, wakeWordShown>>
      BY <1>5, <2>3 DEF W!OpenMic, W!Stops
    <3> HIDE DEF stops, listens
    <3>2. /\ WakeHolds(k)' /\ worker'[g] = stops
          /\ \A h \in 1..k.reloads : h # g => worker'[h] = worker[h]
      BY <1>1, <2>1, <3>1, MovesOn
    <3> QED BY <1>1, <2>1, <3>2
  <2> QED BY <2>2, <2>3
<1> QED BY <1>3, <1>4, <1>5

(* The rolled buffer ends with the chunk, after the last of the others.    *)
LEMMA RolledIn ==
  ASSUME NEW k, W(k)!WakeAssumption, NEW a \in Kept(k), NEW c \in Nat
  PROVE  W(k)!Rolled(a, c) \in Kept(k) /\ Follows(W(k)!Rolled(a, c), a, c)
<1> DEFINE audio == W(k)!Rolled(a, c)
<1>0. /\ k.keep \in Nat /\ k.keep > 0 /\ a \in Seq(Nat) /\ Len(a) \in Nat /\ Len(a) <= k.keep
  BY LenProperties DEF W!WakeAssumption, Kept
<1>1. CASE Len(a) = k.keep
  <2>1. audio = Append(Tail(a), c)
    BY <1>1 DEF W!Rolled
  <2>2. /\ Tail(a) \in Seq(Nat) /\ Len(Tail(a)) = Len(a) - 1
        /\ \A i \in 1..Len(a) - 1 : Tail(a)[i] = a[i + 1]
    <3>1. a # <<>>
      BY <1>0, <1>1, EmptySeq
    <3> QED BY <1>0, <3>1, HeadTailProperties
  <2> HIDE DEF audio
  <2>3. /\ audio \in Seq(Nat) /\ Len(audio) = Len(a) /\ audio[Len(a)] = c
        /\ \A i \in 1..Len(a) - 1 : audio[i] = Tail(a)[i]
    BY <1>0, <2>1, <2>2, AppendProperties
  <2>4. ASSUME NEW i \in 1..Len(audio), i < Len(audio)
        PROVE  \E j \in 1..Len(a) : audio[i] = a[j] /\ j + Len(audio) = i + Len(a) + 1
    <3>1. \A l \in Nat : \A m \in 1..l : m < l =>
            m + 1 \in 1..l /\ m \in 1..l - 1 /\ (m + 1) + l = m + l + 1
      OBVIOUS
    <3>2. i + 1 \in 1..Len(a) /\ i \in 1..Len(a) - 1 /\ (i + 1) + Len(audio) = i + Len(a) + 1
      BY <1>0, <2>3, <2>4, <3>1
    <3>3. audio[i] = a[i + 1]
      BY <2>2, <2>3, <3>2
    <3> QED BY <3>2, <3>3
  <2>5. audio \in Kept(k) /\ Len(audio) \in 1..Len(a) + 1 /\ audio[Len(audio)] = c
    BY <1>0, <1>1, <2>3 DEF Kept
  <2> QED BY <2>4, <2>5 DEF audio, Follows
<1>2. CASE Len(a) # k.keep
  <2>1. audio = Append(a, c)
    BY <1>2 DEF W!Rolled
  <2> HIDE DEF audio
  <2>2. /\ audio \in Seq(Nat) /\ Len(audio) = Len(a) + 1 /\ audio[Len(a) + 1] = c
        /\ \A i \in 1..Len(a) : audio[i] = a[i]
    BY <1>0, <2>1, AppendProperties
  <2>3. ASSUME NEW i \in 1..Len(audio), i < Len(audio)
        PROVE  \E j \in 1..Len(a) : audio[i] = a[j] /\ j + Len(audio) = i + Len(a) + 1
    <3>1. i \in 1..Len(a) /\ i + Len(audio) = i + Len(a) + 1
      BY <1>0, <2>2, <2>3
    <3> QED BY <2>2, <3>1
  <2>4. audio \in Kept(k) /\ Len(audio) \in 1..Len(a) + 1 /\ audio[Len(audio)] = c
    BY <1>0, <1>2, <2>2 DEF Kept
  <2> QED BY <2>3, <2>4 DEF audio, Follows
<1> QED BY <1>1, <1>2

(* What a slot is after a chunk: its own, with what was heard rolled in.   *)
LEMMA ScoredIsASlot ==
  ASSUME NEW k, W(k)!WakeAssumption, NEW x \in WakeSlots(k), NEW c \in Nat,
         NEW high \in BOOLEAN
  PROVE  /\ W(k)!Scored(x, c, high) \in WakeSlots(k)
         /\ W(k)!Scored(x, c, high).model = x.model
         /\ MovesTrigger(k, x, high, W(k)!Rolled(x.audio, c), W(k)!Scored(x, c, high))
<1> DEFINE audio == W(k)!Rolled(x.audio, c)
           over == IF high /\ Len(audio) = k.keep THEN x.over + 1 ELSE 0
           z == [x EXCEPT !.audio = audio, !.over = over,
                          !.fired = IF over = 0 THEN FALSE ELSE x.fired]
           f == z.over >= 2 /\ ~z.fired
<1>1. W(k)!Scored(x, c, high) = [z EXCEPT !.fired = z.fired \/ f, !.now = f]
  BY DEF W!Scored, W!Fires
<1>2. audio \in Kept(k) /\ over \in Nat
  <2>1. x.audio \in Kept(k) /\ x.over \in Nat
    BY DEF WakeSlots
  <2>2. audio \in Kept(k)
    BY <2>1, RolledIn
  <2> HIDE DEF audio
  <2> QED BY <2>1, <2>2
<1> HIDE DEF audio, over
<1>3. /\ z \in WakeSlots(k) /\ z.model = x.model /\ z.audio = audio /\ z.over = over
      /\ z.fired = (over # 0 /\ x.fired)
  BY <1>2 DEF WakeSlots
<1> HIDE DEF z
<1>4. z.fired \in BOOLEAN /\ x.fired \in BOOLEAN
  BY <1>3 DEF WakeSlots
<1>5. f \in BOOLEAN /\ (f <=> over >= 2 /\ ~x.fired)
  BY <1>2, <1>3, <1>4
<1> HIDE DEF f
<1>6. [z EXCEPT !.fired = z.fired \/ f, !.now = f] \in WakeSlots(k)
  BY <1>3, <1>4, <1>5 DEF WakeSlots
<1>7. /\ [z EXCEPT !.fired = z.fired \/ f, !.now = f].model = x.model
      /\ [z EXCEPT !.fired = z.fired \/ f, !.now = f].audio = audio
      /\ [z EXCEPT !.fired = z.fired \/ f, !.now = f].over = over
      /\ [z EXCEPT !.fired = z.fired \/ f, !.now = f].now <=> f
      /\ [z EXCEPT !.fired = z.fired \/ f, !.now = f].fired <=> (z.fired \/ f)
  BY <1>3 DEF WakeSlots
<1>8. (z.fired \/ f) <=> (over > 0 /\ (x.fired \/ over >= 2))
  BY <1>2, <1>3, <1>4, <1>5
<1>9. f <=> (over >= 2 /\ ~x.fired)
  BY <1>2, <1>4, <1>5
<1>10. /\ W(k)!Scored(x, c, high) \in WakeSlots(k) /\ W(k)!Scored(x, c, high).model = x.model
       /\ W(k)!Scored(x, c, high).audio = audio /\ W(k)!Scored(x, c, high).over = over
       /\ W(k)!Scored(x, c, high).now <=> (over >= 2 /\ ~x.fired)
       /\ W(k)!Scored(x, c, high).fired <=> (over > 0 /\ (x.fired \/ over >= 2))
  BY <1>1, <1>6, <1>7, <1>8, <1>9
<1> QED BY <1>10 DEF audio, over, MovesTrigger

(* A chunk is scored by every slot, or dropped by all of them.             *)
LEMMA ChunkStep ==
  ASSUME NEW k, W(k)!WakeAssumption, WakeHolds(k), NEW g \in 1..k.reloads,
         NEW high \in SUBSET WakeModes, W(k)!Chunk(g, high)
  PROVE  LET was == worker[g].slots
             is == worker'[g].slots
         IN  /\ WakeHolds(k)' /\ chunks' = chunks + 1 /\ UNCHANGED generation
             /\ chunks < k.chunks /\ worker[g].pc = "listen" /\ worker'[g].pc = "listen"
             /\ \A h \in 1..k.reloads : h # g => worker'[h] = worker[h]
             /\ DOMAIN is = DOMAIN was
             /\ \/ /\ fired' = fired /\ worker'[g].suspended
                   /\ \A s \in DOMAIN was :
                        /\ is[s].audio = IF worker[g].suspended THEN was[s].audio ELSE <<>>
                        /\ is[s].over = was[s].over /\ is[s].fired = was[s].fired
                \/ /\ ~worker'[g].suspended
                   /\ \A s \in DOMAIN was : is[s] = W(k)!Scored(was[s], chunks', s \in high)
                   /\ fired' = fired \cup {[gen |-> g, slot |-> s, from |-> Head(is[s].audio),
                                            at |-> chunks'] : s \in {x \in DOMAIN is : is[x].now}}
<1> DEFINE running == IF worker[g].running = "last" THEN "no" ELSE worker[g].running
           w == [worker[g] EXCEPT !.running = running]
           was == worker[g].slots
           after == [s \in DOMAIN was |-> W(k)!Scored(was[s], chunks', s \in high)]
           empty == [s \in DOMAIN was |-> [was[s] EXCEPT !.audio = <<>>]]
           drops == [w EXCEPT !.suspended = TRUE, !.slots = empty]
           hears == [w EXCEPT !.slots = after, !.suspended = FALSE]
           heard == {[gen |-> g, slot |-> s, from |-> Head(after[s].audio), at |-> chunks'] :
                       s \in {x \in DOMAIN after : after[x].now}}
<1>1. /\ worker[g] \in Workers(k) /\ chunks \in 0..k.chunks /\ k.chunks \in Nat
      /\ \A s, t \in DOMAIN was : was[s].model = was[t].model => s = t
  BY DEF WakeHolds, WakeTypes, W!SlotsAreApart, W!Gens, W!WakeAssumption
<1>2. /\ DOMAIN was \subseteq WakeModes /\ was \in [DOMAIN was -> WakeSlots(k)]
      /\ \A s \in DOMAIN was : was[s] \in WakeSlots(k)
  BY <1>1 DEF Workers
<1>3. /\ w \in Workers(k) /\ w.slots = was /\ w.pc = worker[g].pc
      /\ w.suspended = worker[g].suspended
  <2>1. running \in {"no", "yes", "last"}
    BY <1>1 DEF Workers
  <2> HIDE DEF running
  <2> QED BY <1>1, <2>1 DEF Workers
<1> HIDE DEF running
<1>4. /\ worker[g].pc = "listen" /\ chunks < k.chunks /\ chunks' = chunks + 1
      /\ UNCHANGED <<settings, installed, generation, listening, wakeWordShown, wakeWordGate>>
      /\ \/ wakeWordGate /\ worker[g].suspended
            /\ worker' = [worker EXCEPT ![g] = w] /\ fired' = fired
         \/ wakeWordGate /\ ~worker[g].suspended
            /\ worker' = [worker EXCEPT ![g] = drops] /\ fired' = fired
         \/ ~wakeWordGate
            /\ worker' = [worker EXCEPT ![g] = hears] /\ fired' = fired \cup heard
  <2>1. /\ worker[g].pc = "listen" /\ chunks < k.chunks /\ chunks' = chunks + 1
        /\ UNCHANGED <<settings, installed, generation, listening, wakeWordShown, wakeWordGate>>
    BY DEF W!Chunk, W!At
  <2>2. CASE wakeWordGate
    <3>1. /\ worker' = [worker EXCEPT ![g] = IF w.suspended THEN w ELSE W(k)!ResetSlots(w)]
          /\ fired' = fired
      BY <2>2 DEF W!Chunk, running
    <3>2. W(k)!ResetSlots(w) = drops
      <4> HIDE DEF w
      <4> QED BY <1>3 DEF W!ResetSlots
    <3> HIDE DEF w, drops
    <3> QED BY <1>3, <2>1, <2>2, <3>1, <3>2
  <2>3. CASE ~wakeWordGate
    <3>1. /\ worker' = [worker EXCEPT ![g] = [w EXCEPT !.slots = [s \in DOMAIN w.slots |->
                           W(k)!Scored(w.slots[s], chunks', s \in high)], !.suspended = FALSE]]
          /\ fired' = fired \cup {[gen |-> g, slot |-> s, from |-> Head([t \in DOMAIN w.slots |->
                           W(k)!Scored(w.slots[t], chunks', t \in high)][s].audio),
                                   at |-> chunks'] :
               s \in {x \in DOMAIN [t \in DOMAIN w.slots |->
                           W(k)!Scored(w.slots[t], chunks', t \in high)] :
                        [t \in DOMAIN w.slots |->
                           W(k)!Scored(w.slots[t], chunks', t \in high)][x].now}}
      BY <2>3, Zenon DEF W!Chunk, running
    <3> HIDE DEF w
    <3> QED BY <1>3, <2>1, <2>3, <3>1
  <2> QED BY <2>2, <2>3
<1>5. /\ DOMAIN after = DOMAIN was
      /\ \A s \in DOMAIN was : /\ after[s] = W(k)!Scored(was[s], chunks', s \in high)
                               /\ after[s] \in WakeSlots(k) /\ after[s].model = was[s].model
  <2> SUFFICES ASSUME NEW s \in DOMAIN was
               PROVE  /\ W(k)!Scored(was[s], chunks', s \in high) \in WakeSlots(k)
                      /\ W(k)!Scored(was[s], chunks', s \in high).model = was[s].model
    OBVIOUS
  <2>1. chunks' \in Nat /\ (s \in high) \in BOOLEAN /\ was[s] \in WakeSlots(k)
    BY <1>1, <1>2, <1>4
  <2> DEFINE x == was[s]
             up == s \in high
  <2> HIDE DEF x, up
  <2>2. W(k)!Scored(x, chunks', up) \in WakeSlots(k) /\ W(k)!Scored(x, chunks', up).model = x.model
    <3>1. x \in WakeSlots(k) /\ up \in BOOLEAN
      BY <2>1 DEF x, up
    <3> QED BY <2>1, <3>1, ScoredIsASlot
  <2> QED BY <2>2 DEF x, up
<1>6. /\ DOMAIN empty = DOMAIN was
      /\ \A s \in DOMAIN was : /\ empty[s] \in WakeSlots(k) /\ empty[s].model = was[s].model
                               /\ empty[s].audio = <<>> /\ empty[s].over = was[s].over
                               /\ empty[s].fired = was[s].fired
  <2>1. <<>> \in Kept(k)
    BY EmptySeq DEF Kept, W!WakeAssumption
  <2> QED BY <1>2, <2>1 DEF WakeSlots
<1> HIDE DEF after, empty
<1>7. /\ after \in UNION {[loaded -> WakeSlots(k)] : loaded \in SUBSET WakeModes}
      /\ empty \in UNION {[loaded -> WakeSlots(k)] : loaded \in SUBSET WakeModes}
  <2>1. after \in [DOMAIN was -> WakeSlots(k)]
    BY <1>5 DEF after
  <2>2. empty \in [DOMAIN was -> WakeSlots(k)]
    BY <1>6 DEF empty
  <2> QED BY <1>2, <2>1, <2>2
<1> HIDE DEF w
<1>8. /\ drops \in Workers(k) /\ drops.slots = empty /\ drops.suspended /\ drops.pc = w.pc
      /\ hears \in Workers(k) /\ hears.slots = after /\ ~hears.suspended /\ hears.pc = w.pc
  BY <1>3, <1>7 DEF Workers
<1> HIDE DEF drops, hears, heard, was
<1>9. ASSUME NEW v \in Workers(k), worker' = [worker EXCEPT ![g] = v], v.pc = "listen",
             DOMAIN v.slots = DOMAIN was, \A s \in DOMAIN was : v.slots[s].model = was[s].model
      PROVE  /\ WakeHolds(k)' /\ worker'[g] = v
             /\ \A h \in 1..k.reloads : h # g => worker'[h] = worker[h]
  <2>1. \A s, t \in DOMAIN v.slots : v.slots[s].model = v.slots[t].model => s = t
    BY <1>1, <1>9
  <2>2. /\ worker' \in [1..k.reloads -> Workers(k)] /\ W(k)!SlotsAreApart'
        /\ worker'[g] = v /\ \A h \in 1..k.reloads : h # g => worker'[h] = worker[h]
    BY <1>9, <2>1, WorkerChanges DEF WakeHolds
  <2>3. chunks' \in 0..k.chunks
    BY <1>1, <1>4
  <2>4. WakeTypes(k)'
    BY <1>4, <2>2, <2>3 DEF WakeHolds, WakeTypes
  <2>5. W(k)!ArmedIsTrue'
    <3>1. generation > 0 => generation \in 1..k.reloads
      BY DEF WakeHolds, WakeTypes, W!WakeAssumption
    <3>2. generation' = generation /\ listening' = listening /\ wakeWordShown' = wakeWordShown
      BY <1>4
    <3>3. generation > 0 => worker'[generation].pc = worker[generation].pc
      BY <1>4, <1>9, <2>2, <3>1
    <3> QED BY <3>2, <3>3 DEF WakeHolds, W!ArmedIsTrue
  <2> QED BY <2>2, <2>4, <2>5 DEF WakeHolds
<1>10. CASE /\ wakeWordGate /\ worker[g].suspended
            /\ worker' = [worker EXCEPT ![g] = w] /\ fired' = fired
  <2>1. /\ WakeHolds(k)' /\ worker'[g] = w
        /\ \A h \in 1..k.reloads : h # g => worker'[h] = worker[h]
    BY <1>3, <1>4, <1>9, <1>10
  <2>2. /\ worker'[g].slots = worker[g].slots /\ worker'[g].suspended /\ worker[g].suspended
        /\ worker'[g].pc = "listen" /\ fired' = fired
    BY <1>3, <1>4, <1>10, <2>1 DEF was
  <2>3. \A s \in DOMAIN worker[g].slots :
          /\ worker'[g].slots[s].audio = IF worker[g].suspended THEN worker[g].slots[s].audio
                                         ELSE <<>>
          /\ worker'[g].slots[s].over = worker[g].slots[s].over
          /\ worker'[g].slots[s].fired = worker[g].slots[s].fired
    BY <2>2
  <2>4. chunks' = chunks + 1 /\ generation' = generation /\ chunks < k.chunks /\ worker[g].pc = "listen"
    BY <1>4
  <2> HIDE <1>4, <1>10
  <2> QED BY <2>1, <2>2, <2>3, <2>4, Zenon
<1>11. CASE /\ wakeWordGate /\ ~worker[g].suspended
            /\ worker' = [worker EXCEPT ![g] = drops] /\ fired' = fired
  <2>1. /\ WakeHolds(k)' /\ worker'[g] = drops
        /\ \A h \in 1..k.reloads : h # g => worker'[h] = worker[h]
    BY <1>3, <1>4, <1>6, <1>8, <1>9, <1>11
  <2> QED BY <1>3, <1>4, <1>6, <1>8, <1>11, <2>1 DEF was
<1>12. CASE /\ ~wakeWordGate
            /\ worker' = [worker EXCEPT ![g] = hears] /\ fired' = fired \cup heard
  <2>1. /\ WakeHolds(k)' /\ worker'[g] = hears
        /\ \A h \in 1..k.reloads : h # g => worker'[h] = worker[h]
    BY <1>3, <1>4, <1>5, <1>8, <1>9, <1>12
  <2>2. worker'[g].slots = after /\ ~worker'[g].suspended /\ worker'[g].pc = "listen"
    BY <1>3, <1>4, <1>8, <2>1
  <2> QED BY <1>4, <1>5, <1>12, <2>1, <2>2 DEF was, heard
<1> QED BY <1>4, <1>10, <1>11, <1>12

(* What is one piece stays one when the next chunk is rolled in.           *)
LEMMA RollsOn ==
  ASSUME NEW a \in Seq(Nat), NEW b \in Seq(Nat), NEW n \in Nat, InOnePiece(a, n),
         NEW c \in Nat, c = n + 1, Follows(b, a, c)
  PROVE  InOnePiece(b, c)
<1>1. Len(a) \in Nat /\ Len(b) \in Nat
  BY LenProperties
<1>3. \A m \in Nat : \A i \in 1..m : i \in Nat /\ (i # m => i < m)
  OBVIOUS
<1> SUFFICES ASSUME NEW i \in 1..Len(b)
             PROVE  b[i] + Len(b) = c + i
  BY DEF InOnePiece
<1>4. CASE i = Len(b)
  BY <1>1, <1>3, <1>4 DEF Follows
<1>5. CASE i # Len(b)
  <2>1. i \in Nat /\ i < Len(b)
    BY <1>1, <1>3, <1>5
  <2>2. PICK j \in 1..Len(a) : b[i] = a[j] /\ j + Len(b) = i + Len(a) + 1
    BY <2>1 DEF Follows
  <2>3. a[j] + Len(a) = n + j /\ a[j] \in Nat /\ j \in Nat
    BY <1>1, <1>3, ElementOfSeq DEF InOnePiece
  <2> DEFINE p == a[j]
             l == Len(a)
             m == Len(b)
  <2>4. /\ p \in Nat /\ l \in Nat /\ m \in Nat /\ i \in Nat /\ j \in Nat /\ c = n + 1
        /\ p + l = n + j /\ j + m = i + l + 1
    BY <1>1, <2>1, <2>2, <2>3
  <2>5. p + m = c + i
    <3> HIDE DEF p, l, m
    <3> QED BY <2>4
  <2> QED BY <2>2, <2>5
<1> QED BY <1>4, <1>5

(* A slot that scores a chunk has the chunks up to it, and fires only when *)
(* it was under its threshold since it last did.                           *)
LEMMA SlotHears ==
  ASSUME NEW k, W(k)!WakeAssumption, NEW x \in WakeSlots(k), NEW n \in Nat,
         InOnePiece(x.audio, n), NEW high \in BOOLEAN, NEW c \in Nat, c = n + 1,
         NEW y, y = W(k)!Scored(x, c, high)
  PROVE  /\ InOnePiece(y.audio, c)
         /\ y.now => /\ ~x.fired /\ y.fired /\ x.over >= 1
                     /\ Head(y.audio) \in Nat /\ c + 1 = Head(y.audio) + k.keep
         /\ ~y.fired => /\ y.over <= 1 /\ y.over \in Nat
                        /\ y.over = 1 => ~x.fired /\ x.over = 0
<1> DEFINE audio == W(k)!Rolled(x.audio, c)
           over == IF high /\ Len(audio) = k.keep THEN x.over + 1 ELSE 0
<1>1. /\ x.audio \in Kept(k) /\ x.over \in Nat /\ x.fired \in BOOLEAN
      /\ k.keep \in Nat /\ k.keep > 0
  BY DEF WakeSlots, W!WakeAssumption
<1>2. audio \in Kept(k) /\ Follows(audio, x.audio, c)
  BY <1>1, RolledIn
<1>3. /\ y \in WakeSlots(k) /\ y.audio = audio /\ y.over = over
      /\ y.now <=> (over >= 2 /\ ~x.fired)
      /\ y.fired <=> (over > 0 /\ (x.fired \/ over >= 2))
  <2>1. /\ W(k)!Scored(x, c, high) \in WakeSlots(k)
        /\ MovesTrigger(k, x, high, W(k)!Rolled(x.audio, c), W(k)!Scored(x, c, high))
    BY ScoredIsASlot
  <2> QED BY <2>1 DEF MovesTrigger
<1>4. over \in Nat /\ (over > 0 => Len(audio) = k.keep /\ over = x.over + 1)
  <2> HIDE DEF audio
  <2> QED BY <1>1
<1> HIDE DEF audio, over
<1>5. /\ x.audio \in Seq(Nat) /\ Len(x.audio) \in Nat
      /\ audio \in Seq(Nat) /\ Len(audio) \in Nat
  BY <1>1, <1>2, LenProperties DEF Kept
<1>6. InOnePiece(audio, c)
  BY <1>2, <1>5, RollsOn
<1>7. InOnePiece(y.audio, c)
  BY <1>3, <1>6
<1>8. ASSUME y.now
      PROVE  /\ ~x.fired /\ y.fired /\ x.over >= 1
             /\ Head(y.audio) \in Nat /\ c + 1 = Head(y.audio) + k.keep
  <2>1. over >= 2 /\ ~x.fired
    BY <1>3, <1>8
  <2>2. y.fired /\ x.over >= 1
    BY <1>1, <1>3, <1>4, <2>1
  <2>3. Head(y.audio) = audio[1] /\ audio[1] \in Nat
    <3>1. audio # <<>> /\ 1 \in 1..Len(audio)
      BY <1>2, <1>5, EmptySeq DEF Follows
    <3> QED BY <1>2, <1>3, <1>5, <3>1, HeadTailProperties, ElementOfSeq
  <2>4. audio[1] + Len(audio) = c + 1 /\ Len(audio) = k.keep
    BY <1>2, <1>4, <1>5, <1>6, <2>1 DEF InOnePiece, Follows
  <2> QED BY <2>1, <2>2, <2>3, <2>4
<1>9. ASSUME ~y.fired
      PROVE  /\ y.over <= 1 /\ y.over \in Nat
             /\ y.over = 1 => ~x.fired /\ x.over = 0
  BY <1>1, <1>3, <1>4, <1>9
<1> QED BY <1>7, <1>8, <1>9

(* What was heard stays what it was when nothing is heard.                 *)
LEMMA HearingRests ==
  ASSUME NEW k, HearingHolds(k), UNCHANGED <<worker, generation, fired, chunks>>
  PROVE  HearingHolds(k)'
<1>1. worker' = worker /\ generation' = generation /\ fired' = fired /\ chunks' = chunks
  OBVIOUS
<1>2. W(k)!FiresOncePerUtterance' <=> W(k)!FiresOncePerUtterance
  BY <1>1 DEF W!FiresOncePerUtterance
<1>3. \A x, s : Rearmed(x, s)' <=> Rearmed(x, s)
  BY <1>1 DEF Rearmed
<1>4. HearsInOrder(k)' <=> HearsInOrder(k)
  BY <1>1, <1>2 DEF HearsInOrder, Rearmed
<1> QED BY <1>1, <1>4 DEF HearingHolds

(* Reloading and loading happen before anything was heard, and a worker    *)
(* that leaves hears nothing more.                                         *)
LEMMA HearingStarts ==
  ASSUME NEW k, W(k)!WakeAssumption, WakeHolds(k), HearingHolds(k),
         \/ \E ok \in BOOLEAN : W(k)!Reload(ok)
         \/ \E g \in 1..k.reloads :
              \/ W(k)!Load(g) \/ W(k)!Leave(g) \/ W(k)!StoppedListening(g)
              \/ \E ok \in BOOLEAN : W(k)!OpenMic(g, ok)
  PROVE  HearingHolds(k)'
<1>0. /\ generation \in Nat /\ generation <= k.reloads /\ k.reloads \in Nat /\ chunks \in Nat
      /\ (generation > 0 => generation \in 1..k.reloads)
  BY DEF WakeHolds, WakeTypes, W!WakeAssumption
<1>1. ASSUME NEW ok \in BOOLEAN, W(k)!Reload(ok)
      PROVE  HearingHolds(k)'
  <2>1. /\ generation' = generation + 1 /\ UNCHANGED <<fired, chunks>>
        /\ \A h \in 1..k.reloads : h # generation' => worker'[h].pc = worker[h].pc
        /\ worker'[generation'].pc \in {"load", "none"} /\ ~worker'[generation'].suspended
    BY <1>1, ReloadStep
  <2>2. ASSUME generation' <= 1
        PROVE  HearsInOrder(k)'
    <3>1. generation = 0 /\ generation' = 1 /\ HearsInOrder(k)
      BY <1>0, <2>1, <2>2 DEF HearingHolds
    <3>2. fired' = {} /\ \A g \in 1..k.reloads : worker[g].pc = "none"
      BY <2>1, <3>1 DEF HearsInOrder
    <3> QED BY <2>1, <3>1, <3>2 DEF HearsInOrder, W!FiresOncePerUtterance
  <2> QED BY <2>1, <2>2 DEF HearingHolds
<1>2. ASSUME NEW g \in 1..k.reloads, W(k)!Load(g)
      PROVE  HearingHolds(k)'
  <2>1. /\ UNCHANGED <<fired, chunks, generation>>
        /\ worker[g].pc = "load" /\ worker'[g].pc \in {"open", "stopping"}
        /\ worker'[g].suspended = worker[g].suspended
        /\ \A s \in DOMAIN worker'[g].slots :
             worker'[g].slots[s] = W(k)!NewSlot(worker'[g].slots[s].model)
        /\ \A h \in 1..k.reloads : h # g => worker'[h] = worker[h]
    BY <1>2, LoadStep
  <2>2. ASSUME generation' <= 1
        PROVE  HearsInOrder(k)'
    <3>1. HearsInOrder(k) /\ generation' = generation
      BY <2>1, <2>2 DEF HearingHolds
    <3>2. g = generation /\ fired' = {} /\ ~worker[g].suspended /\ generation > 0
      BY <1>0, <2>1, <3>1 DEF HearsInOrder
    <3> QED BY <2>1, <3>1, <3>2 DEF HearsInOrder, W!FiresOncePerUtterance
  <2> QED BY <2>1, <2>2 DEF HearingHolds
<1>3. ASSUME NEW g \in 1..k.reloads,
             W(k)!Leave(g) \/ W(k)!StoppedListening(g) \/ \E ok \in BOOLEAN : W(k)!OpenMic(g, ok)
      PROVE  HearingHolds(k)'
  <2>1. /\ UNCHANGED <<fired, chunks, generation>>
        /\ worker[g].pc # "none"
        /\ \/ worker'[g].pc \in {"stopping", "none"}
           \/ /\ worker[g].pc = "open" /\ worker'[g].pc = "listen"
              /\ worker'[g].slots = worker[g].slots /\ worker'[g].suspended = worker[g].suspended
        /\ \A h \in 1..k.reloads : h # g => worker'[h] = worker[h]
    BY <1>3, WorkerMovesStep
  <2>2. ASSUME generation' <= 1
        PROVE  HearsInOrder(k)'
    <3>1. HearsInOrder(k) /\ generation' = generation
      BY <2>1, <2>2 DEF HearingHolds
    <3>2. g = generation /\ generation > 0
      BY <1>0, <2>1, <3>1 DEF HearsInOrder
    <3>3. CASE worker'[g].pc \in {"stopping", "none"}
      BY <2>1, <3>1, <3>2, <3>3 DEF HearsInOrder, W!FiresOncePerUtterance
    <3>4. CASE /\ worker[g].pc = "open" /\ worker'[g].pc = "listen"
               /\ worker'[g].slots = worker[g].slots
               /\ worker'[g].suspended = worker[g].suspended
      <4>1. /\ fired' = {} /\ ~worker'[g].suspended
            /\ \A s \in DOMAIN worker'[g].slots :
                 worker'[g].slots[s] = W(k)!NewSlot(worker'[g].slots[s].model)
        BY <2>1, <3>1, <3>2, <3>4 DEF HearsInOrder
      <4>2. \A s \in DOMAIN worker'[g].slots :
              /\ worker'[g].slots[s].audio = <<>> /\ worker'[g].slots[s].over = 0
              /\ Len(worker'[g].slots[s].audio) = 0
        <5>1. Len(<<>>) = 0
          OBVIOUS
        <5>2. \A m : W(k)!NewSlot(m).audio = <<>> /\ W(k)!NewSlot(m).over = 0
          BY DEF W!NewSlot
        <5> QED BY <4>1, <5>1, <5>2
      <4>3. \A s \in DOMAIN worker'[g].slots :
              InOnePiece(worker'[g].slots[s].audio, chunks') /\ Rearmed(worker[g].slots[s], s)'
        BY <3>4, <4>1, <4>2 DEF InOnePiece, Rearmed
      <4>4. \A s \in DOMAIN worker'[g].slots : Rearmed(worker[g].slots[s], s)'
        BY <4>3
      <4> HIDE DEF Rearmed, InOnePiece
      <4> QED BY <2>1, <3>1, <3>2, <3>4, <4>1, <4>3, <4>4 DEF HearsInOrder, W!FiresOncePerUtterance
    <3> QED BY <2>1, <3>3, <3>4
  <2> QED BY <2>1, <2>2 DEF HearingHolds
<1> QED BY <1>1, <1>2, <1>3

(* A chunk that is dropped empties the buffers; one that is heard goes on  *)
(* in every slot, and only a slot that was armed fires.                    *)
LEMMA HearingChunk ==
  ASSUME NEW k, W(k)!WakeAssumption, WakeHolds(k), HearingHolds(k), NEW g \in 1..k.reloads,
         NEW high \in SUBSET WakeModes, W(k)!Chunk(g, high)
  PROVE  HearingHolds(k)'
<1> DEFINE was == worker[g].slots
           is == worker'[g].slots
<1>0. /\ chunks \in Nat /\ k.chunks \in Nat /\ k.keep \in Nat
      /\ \A s \in DOMAIN was : was[s] \in WakeSlots(k)
      /\ \A s \in DOMAIN was : was[s].over \in Nat /\ was[s].fired \in BOOLEAN
  <2>1. worker[g] \in Workers(k) /\ chunks \in Nat /\ k.chunks \in Nat /\ k.keep \in Nat
    BY DEF WakeHolds, WakeTypes, W!WakeAssumption
  <2>2. \A s \in DOMAIN was : was[s] \in WakeSlots(k)
    BY <2>1 DEF Workers
  <2> QED BY <2>1, <2>2 DEF WakeSlots
<1>1. /\ chunks' = chunks + 1 /\ generation' = generation
      /\ chunks < k.chunks /\ worker[g].pc = "listen" /\ worker'[g].pc = "listen"
      /\ \A h \in 1..k.reloads : h # g => worker'[h] = worker[h]
      /\ DOMAIN is = DOMAIN was
      /\ \/ /\ fired' = fired /\ worker'[g].suspended
            /\ \A s \in DOMAIN was :
                 /\ is[s].audio = IF worker[g].suspended THEN was[s].audio ELSE <<>>
                 /\ is[s].over = was[s].over /\ is[s].fired = was[s].fired
         \/ /\ ~worker'[g].suspended
            /\ \A s \in DOMAIN was : is[s] = W(k)!Scored(was[s], chunks', s \in high)
            /\ fired' = fired \cup {[gen |-> g, slot |-> s, from |-> Head(is[s].audio),
                                     at |-> chunks'] : s \in {x \in DOMAIN is : is[x].now}}
  BY ChunkStep
<1>2. k.chunks # 0
  BY <1>0, <1>1
<1>3. ASSUME generation' <= 1
      PROVE  HearsInOrder(k)'
  <2>1. HearsInOrder(k) /\ g = generation /\ generation > 0 /\ generation' = g
    <3>1. HearsInOrder(k) /\ generation \in Nat
      BY <1>1, <1>3 DEF HearingHolds, WakeHolds, WakeTypes
    <3>2. g = generation
      BY <1>1, <3>1 DEF HearsInOrder
    <3> QED BY <1>1, <3>1, <3>2
  <2>2. /\ \A f \in fired : /\ f.gen = g /\ f.at \in 1..chunks /\ f.from \in Nat
                            /\ f.at + 1 = f.from + k.keep
        /\ \A s \in DOMAIN was :
             /\ IF worker[g].suspended THEN was[s].audio = <<>>
                ELSE InOnePiece(was[s].audio, chunks)
             /\ Rearmed(was[s], s)
        /\ \A h \in 1..k.reloads : h # g => worker[h].pc = "none"
        /\ W(k)!FiresOncePerUtterance
    BY <1>1, <2>1 DEF HearsInOrder
  <2>3. SUFFICES /\ \A f \in fired' : /\ f.gen = g /\ f.at \in 1..chunks' /\ f.from \in Nat
                                      /\ f.at + 1 = f.from + k.keep
                 /\ \A s \in DOMAIN is :
                      /\ IF worker'[g].suspended THEN is[s].audio = <<>>
                         ELSE InOnePiece(is[s].audio, chunks')
                      /\ Rearmed(worker[g].slots[s], s)'
                 /\ W(k)!FiresOncePerUtterance'
    <3> HIDE DEF Rearmed, InOnePiece, is
    <3> QED BY <1>1, <2>1, <2>2 DEF HearsInOrder, is
  <2>4. CASE /\ fired' = fired /\ worker'[g].suspended
             /\ \A s \in DOMAIN was :
                  /\ is[s].audio = IF worker[g].suspended THEN was[s].audio ELSE <<>>
                  /\ is[s].over = was[s].over /\ is[s].fired = was[s].fired
    <3>1. \A f \in fired' : /\ f.gen = g /\ f.at \in 1..chunks' /\ f.from \in Nat
                            /\ f.at + 1 = f.from + k.keep
      BY <1>0, <1>1, <2>2, <2>4
    <3>2. \A s \in DOMAIN is : is[s].audio = <<>>
      BY <1>1, <2>2, <2>4
    <3>3. ASSUME NEW s \in DOMAIN was
          PROVE  Rearmed(worker[g].slots[s], s)'
      <4>1. Rearmed(was[s], s) /\ was[s].over \in Nat
        BY <1>0, <2>2
      <4>2. is[s].over = was[s].over /\ is[s].fired = was[s].fired
        BY <2>4
      <4> QED BY <1>0, <1>1, <2>2, <2>4, <4>1, <4>2 DEF Rearmed
    <3>4. W(k)!FiresOncePerUtterance'
      BY <2>2, <2>4 DEF W!FiresOncePerUtterance
    <3> QED BY <1>1, <2>4, <3>1, <3>2, <3>3, <3>4
  <2>5. CASE /\ ~worker'[g].suspended
             /\ \A s \in DOMAIN was : is[s] = W(k)!Scored(was[s], chunks', s \in high)
             /\ fired' = fired \cup {[gen |-> g, slot |-> s, from |-> Head(is[s].audio),
                                      at |-> chunks'] : s \in {x \in DOMAIN is : is[x].now}}
    <3>1. ASSUME NEW s \in DOMAIN was
          PROVE  /\ InOnePiece(is[s].audio, chunks')
                 /\ is[s].now => /\ ~was[s].fired /\ is[s].fired /\ was[s].over >= 1
                                 /\ Head(is[s].audio) \in Nat
                                 /\ chunks' + 1 = Head(is[s].audio) + k.keep
                 /\ ~is[s].fired => /\ is[s].over <= 1 /\ is[s].over \in Nat
                                    /\ is[s].over = 1 => ~was[s].fired /\ was[s].over = 0
      <4>1. InOnePiece(was[s].audio, chunks)
        BY <2>2 DEF InOnePiece
      <4>2. was[s] \in WakeSlots(k) /\ (s \in high) \in BOOLEAN /\ chunks' \in Nat
        BY <1>0, <1>1
      <4>3. is[s] = W(k)!Scored(was[s], chunks', s \in high)
        BY <2>5
      <4> DEFINE x == was[s]
                 up == s \in high
                 y == is[s]
                 c == chunks'
      <4>4. /\ x \in WakeSlots(k) /\ up \in BOOLEAN /\ c \in Nat /\ c = chunks + 1
            /\ y = W(k)!Scored(x, c, up) /\ InOnePiece(x.audio, chunks)
        BY <1>1, <4>1, <4>2, <4>3
      <4> HIDE DEF x, up, y, c
      <4>5. /\ InOnePiece(y.audio, c)
            /\ y.now => /\ ~x.fired /\ y.fired /\ x.over >= 1
                        /\ Head(y.audio) \in Nat /\ c + 1 = Head(y.audio) + k.keep
            /\ ~y.fired => /\ y.over <= 1 /\ y.over \in Nat
                           /\ y.over = 1 => ~x.fired /\ x.over = 0
        BY <1>0, <4>4, SlotHears
      <4> QED BY <4>5 DEF x, y, c
    <3>2. \A f \in fired' : \/ f \in fired
                            \/ \E s \in DOMAIN was :
                                 /\ is[s].now /\ f.gen = g /\ f.slot = s /\ f.at = chunks'
                                 /\ f.from = Head(is[s].audio)
      BY <1>1, <2>5
    <3>3. \A f \in fired' : /\ f.gen = g /\ f.at \in 1..chunks' /\ f.from \in Nat
                            /\ f.at + 1 = f.from + k.keep
      <4>1. ASSUME NEW f \in fired
            PROVE  f.gen = g /\ f.at \in 1..chunks' /\ f.from \in Nat /\ f.at + 1 = f.from + k.keep
        BY <1>0, <1>1, <2>2
      <4>2. ASSUME NEW f, NEW s \in DOMAIN was, is[s].now, f.gen = g, f.at = chunks',
                   f.from = Head(is[s].audio)
            PROVE  f.gen = g /\ f.at \in 1..chunks' /\ f.from \in Nat /\ f.at + 1 = f.from + k.keep
        <5>1. Head(is[s].audio) \in Nat /\ chunks' + 1 = Head(is[s].audio) + k.keep
          BY <3>1, <4>2
        <5>2. chunks' \in 1..chunks'
          BY <1>0, <1>1
        <5> QED BY <4>2, <5>1, <5>2
      <4> HIDE DEF was, is
      <4> QED BY <3>2, <4>1, <4>2
    <3>4. ASSUME NEW s \in DOMAIN was
          PROVE  Rearmed(worker[g].slots[s], s)'
      <4> SUFFICES ASSUME ~is[s].fired
                   PROVE  is[s].over <= 1 /\ \A f \in fired' : f.slot = s => f.at + is[s].over < chunks'
        BY DEF Rearmed
      <4>1. is[s].over <= 1 /\ is[s].over \in Nat /\ ~is[s].now
        BY <3>1
      <4>2. ASSUME NEW f \in fired', f.slot = s
            PROVE  f.at + is[s].over < chunks'
        <5>1. f \in fired /\ f.at \in Nat /\ f.at <= chunks
          BY <1>0, <2>2, <3>2, <4>1, <4>2
        <5>2. CASE is[s].over = 0
          BY <1>0, <1>1, <5>1, <5>2
        <5>3. CASE is[s].over = 1
          <6>1. ~was[s].fired /\ was[s].over = 0
            BY <3>1, <5>3
          <6>2. f.at + 0 < chunks
            BY <2>2, <4>2, <5>1, <6>1 DEF Rearmed
          <6> QED BY <1>0, <1>1, <5>1, <5>3, <6>2
        <5> QED BY <4>1, <5>2, <5>3
      <4> QED BY <4>1, <4>2
    <3>5. ASSUME NEW f \in fired', NEW h \in fired', f.gen = h.gen, f.slot = h.slot, f.at < h.at
          PROVE  h.at - f.at >= 3
      <4>1. f \in fired
        BY <1>0, <1>1, <3>2, <3>3, <3>5
      <4>2. CASE h \in fired
        BY <2>2, <3>5, <4>1, <4>2 DEF W!FiresOncePerUtterance
      <4>3. CASE h \notin fired
        <5>1. PICK s \in DOMAIN was : is[s].now /\ h.slot = s /\ h.at = chunks'
          BY <3>2, <4>3
        <5>2. ~was[s].fired /\ was[s].over >= 1 /\ was[s].over \in Nat
          BY <1>0, <3>1, <5>1
        <5>3. was[s].over <= 1 /\ f.at + was[s].over < chunks
          BY <2>2, <3>5, <4>1, <5>1, <5>2 DEF Rearmed
        <5>4. was[s].over = 1
          BY <5>2, <5>3
        <5>5. f.at + 1 < chunks /\ f.at \in Nat
          BY <2>2, <4>1, <5>3, <5>4
        <5> QED BY <1>0, <1>1, <5>1, <5>5
      <4> QED BY <4>2, <4>3
    <3>6. W(k)!FiresOncePerUtterance'
      BY <3>5 DEF W!FiresOncePerUtterance
    <3> QED BY <1>1, <2>5, <3>1, <3>3, <3>4, <3>6
  <2> QED BY <1>1, <2>4, <2>5
<1> QED BY <1>2, <1>3 DEF HearingHolds

(* What the wake words keep, step by step.                                 *)
LEMMA WakeStep ==
  ASSUME NEW k, W(k)!WakeAssumption, WakeHolds(k), HearingHolds(k), [W(k)!Next]_(W(k)!vars)
  PROVE  WakeHolds(k)' /\ HearingHolds(k)'
<1>1. ASSUME NEW ok \in BOOLEAN, W(k)!Reload(ok)
      PROVE  WakeHolds(k)' /\ HearingHolds(k)'
  BY <1>1, ReloadStep, HearingStarts
<1>2. ASSUME NEW s \in WakeModes, NEW on \in BOOLEAN, NEW m \in k.models \cup {"none"},
             W(k)!Save(s, on, m)
      PROVE  WakeHolds(k)' /\ HearingHolds(k)'
  <2>1. /\ settings' = [settings EXCEPT ![s] = [enabled |-> on, model |-> m]]
        /\ UNCHANGED <<installed, generation, listening, wakeWordShown, worker, wakeWordGate,
                       chunks, fired>>
    BY <1>2 DEF W!Save
  <2>2. settings' \in [WakeModes -> [enabled : BOOLEAN, model : k.models \cup {"none"}]]
    BY <2>1 DEF WakeHolds, WakeTypes
  <2>3. WakeHolds(k)'
    BY <2>1, <2>2 DEF WakeHolds, WakeTypes, W!ArmedIsTrue, W!SlotsAreApart
  <2>4. HearingHolds(k)'
    BY <2>1, HearingRests
  <2> QED BY <2>3, <2>4
<1>3. ASSUME W(k)!SetGate
      PROVE  WakeHolds(k)' /\ HearingHolds(k)'
  <2>1. /\ wakeWordGate' = ~wakeWordGate
        /\ UNCHANGED <<settings, installed, generation, listening, wakeWordShown, worker, chunks,
                       fired>>
    BY <1>3 DEF W!SetGate
  <2>2. WakeHolds(k)'
    BY <2>1 DEF WakeHolds, WakeTypes, W!ArmedIsTrue, W!SlotsAreApart
  <2>3. HearingHolds(k)'
    BY <2>1, HearingRests
  <2> QED BY <2>2, <2>3
<1>4. ASSUME NEW g \in 1..k.reloads, W(k)!Load(g)
      PROVE  WakeHolds(k)' /\ HearingHolds(k)'
  BY <1>4, LoadStep, HearingStarts
<1>5. ASSUME NEW g \in 1..k.reloads,
             W(k)!Leave(g) \/ W(k)!StoppedListening(g) \/ \E ok \in BOOLEAN : W(k)!OpenMic(g, ok)
      PROVE  WakeHolds(k)' /\ HearingHolds(k)'
  <2>1. WakeHolds(k)'
    BY <1>5, WorkerMovesStep
  <2>2. HearingHolds(k)'
    BY <1>5, HearingStarts
  <2> QED BY <2>1, <2>2
<1>6. ASSUME NEW g \in 1..k.reloads, NEW high \in SUBSET WakeModes, W(k)!Chunk(g, high)
      PROVE  WakeHolds(k)' /\ HearingHolds(k)'
  <2>1. WakeHolds(k)'
    BY <1>6, ChunkStep
  <2>2. HearingHolds(k)'
    BY <1>6, HearingChunk
  <2> QED BY <2>1, <2>2
<1>7. ASSUME UNCHANGED W(k)!vars
      PROVE  WakeHolds(k)' /\ HearingHolds(k)'
  <2>1. UNCHANGED <<settings, installed, generation, listening, wakeWordShown, worker,
                    wakeWordGate, chunks, fired>>
    BY <1>7 DEF W!vars
  <2>2. WakeHolds(k)'
    BY <2>1 DEF WakeHolds, WakeTypes, W!ArmedIsTrue, W!SlotsAreApart
  <2>3. HearingHolds(k)'
    BY <2>1, HearingRests
  <2> QED BY <2>2, <2>3
<1>8. ASSUME NEW g \in 1..k.reloads, W(k)!WorkerStep(g)
      PROVE  WakeHolds(k)' /\ HearingHolds(k)'
  BY <1>4, <1>5, <1>6, <1>8 DEF W!WorkerStep, W!SlotModes, WakeModes
<1> QED BY <1>1, <1>2, <1>3, <1>7, <1>8 DEF W!Next, W!Gens, W!SlotModes, WakeModes, W!NoModel

(* At first no worker stands and nothing was heard.                        *)
LEMMA WakeInit ==
  ASSUME NEW k, W(k)!WakeAssumption, W(k)!Init
  PROVE  WakeHolds(k) /\ HearingHolds(k)
<1>1. generation = 0 /\ chunks = 0 /\ fired = {}
  BY DEF W!Init
<1>9. listening = FALSE /\ wakeWordShown = FALSE /\ wakeWordGate = FALSE
  BY DEF W!Init
<1>2. /\ worker = [g \in 1..k.reloads |-> W(k)!Idle]
      /\ settings \in [WakeModes -> [enabled : BOOLEAN, model : k.models \cup {"none"}]]
      /\ installed \in SUBSET k.models
  BY DEF W!Init, W!Gens, W!SlotModes, WakeModes, W!NoModel
<1>8. W(k)!Idle \in Workers(k) /\ W(k)!Idle.pc = "none" /\ DOMAIN W(k)!Idle.slots = {}
  BY NewSlots
<1>3. WakeTypes(k)
  <2>1. worker \in [1..k.reloads -> Workers(k)]
    <3> DEFINE idle == W(k)!Idle
               all == Workers(k)
               gens == 1..k.reloads
    <3>1. idle \in all /\ worker = [g \in gens |-> idle]
      BY <1>2, <1>8
    <3> HIDE DEF idle, all, gens
    <3>2. worker \in [gens -> all]
      BY <3>1
    <3> QED BY <3>2 DEF all, gens
  <2>2. generation \in 0..k.reloads /\ chunks \in 0..k.chunks
    <3>1. k.reloads \in Nat /\ k.chunks \in Nat
      BY DEF W!WakeAssumption
    <3> QED BY <1>1, <3>1
  <2>3. installed \subseteq k.models
    BY <1>2
  <2>4. settings \in [WakeModes -> [enabled : BOOLEAN, model : k.models \cup {"none"}]]
    BY <1>2
  <2>5. {listening, wakeWordShown, wakeWordGate} \subseteq BOOLEAN
    BY <1>9
  <2> QED BY <2>1, <2>2, <2>3, <2>4, <2>5 DEF WakeTypes
<1>4. \A g \in 1..k.reloads : worker[g].pc = "none" /\ DOMAIN worker[g].slots = {}
  <2> DEFINE idle == W(k)!Idle
  <2>1. worker = [g \in 1..k.reloads |-> idle] /\ idle.pc = "none" /\ DOMAIN idle.slots = {}
    BY <1>2, <1>8
  <2> HIDE DEF idle
  <2> QED BY <2>1
<1>5. W(k)!ArmedIsTrue
  <2>1. ~(generation > 0)
    BY <1>1
  <2>2. wakeWordShown = listening
    BY Zenon, <1>9
  <2> QED BY <2>1, <2>2 DEF W!ArmedIsTrue
<1>6. W(k)!SlotsAreApart
  BY <1>4 DEF W!SlotsAreApart, W!Gens
<1>7. HearingHolds(k)
  <2>1. fired = {} /\ generation = 0
    BY <1>1
  <2> QED BY <1>4, <2>1 DEF HearingHolds, HearsInOrder, W!FiresOncePerUtterance
<1> QED BY <1>3, <1>5, <1>6, <1>7 DEF WakeHolds

(* What is kept gives what is checked: where nothing is heard, and where   *)
(* one worker hears.                                                       *)
LEMMA WakeMeans ==
  ASSUME NEW k, W(k)!WakeAssumption, WakeHolds(k), HearingHolds(k),
         k.chunks = 0 \/ generation <= 1
  PROVE  W(k)!WakeInv
<1>1. W(k)!WakeTypeOK
  <2>1. /\ generation \in 0..k.reloads /\ {listening, wakeWordShown, wakeWordGate} \subseteq BOOLEAN
        /\ worker \in [1..k.reloads -> Workers(k)]
    BY DEF WakeHolds, WakeTypes
  <2>2. \A g \in 1..k.reloads : worker[g].pc \in WakePcs /\ DOMAIN worker[g].slots \subseteq WakeModes
    <3> SUFFICES ASSUME NEW g \in 1..k.reloads
                 PROVE  worker[g].pc \in WakePcs /\ DOMAIN worker[g].slots \subseteq WakeModes
      OBVIOUS
    <3>1. worker[g] \in Workers(k)
      BY <2>1
    <3> QED BY <3>1 DEF Workers
  <2> QED BY <2>1, <2>2 DEF W!WakeTypeOK, W!Gens, W!SlotModes, WakeModes, WakePcs
<1>2. W(k)!ArmedIsTrue /\ W(k)!SlotsAreApart
  BY DEF WakeHolds
<1>3. W(k)!NoAudioAcrossTheGate /\ W(k)!FiresOncePerUtterance
  <2>1. CASE fired = {}
    BY <2>1 DEF W!NoAudioAcrossTheGate, W!FiresOncePerUtterance
  <2>2. CASE HearsInOrder(k)
    <3>1. \A f \in fired : f.at \in 1..chunks /\ f.from \in Nat /\ f.at + 1 = f.from + k.keep
      BY <2>2 DEF HearsInOrder
    <3>2. k.keep \in Nat /\ chunks \in Nat
      BY DEF WakeHolds, WakeTypes, W!WakeAssumption
    <3> QED BY <2>2, <3>1, <3>2 DEF HearsInOrder, W!NoAudioAcrossTheGate
  <2> QED BY <2>1, <2>2 DEF HearingHolds
<1> QED BY <1>1, <1>2, <1>3 DEF W!WakeInv

-----------------------------------------------------------------------------
(* What the run checks                                                     *)

(* A part that runs takes its own steps, and one that does not rests.      *)
LEMMA VoicePartStep ==
  ASSUME [Next]_vars
  PROVE  /\ part' = part
         /\ part = "dictation" => [D!Next]_(D!vars)
         /\ part = "endpoint" => [E!Next]_(E!vars)
         /\ part = "discord" => [Q!Next]_(Q!vars)
         /\ part = "ends" => [S(Drains)!Next]_(S(Drains)!vars)
         /\ part = "sidecar" => [S(Fills)!Next]_(S(Fills)!vars)
         /\ part = "wake" => [W(Reloads)!Next]_(W(Reloads)!vars)
         /\ part = "hear" => [W(Hears)!Next]_(W(Hears)!vars)
         /\ part = "hear" => (generation' <= 1 \/ generation' = generation)
BY DEF Next, vars, dictationVars, endpointVars, discordMuteVars, sidecarVars, wakeWordVars,
       D!vars, E!vars, Q!vars, S!vars, W!vars

(* Whichever of its exits a take leaves by, the worker rests with the      *)
(* microphone, the lease and the gate given back, the gate covers the open *)
(* microphone, silence types nothing and the clipboard is the user's; and  *)
(* the detector ends a take at the first frame the rule on its whole       *)
(* history says, keeps every frame of speech and throws away only silence. *)
THEOREM TakesRestClean == Spec => []TakeInv
<1> DEFINE Parted == DictationPart /\ (part = "endpoint" => EndpointHolds)
<1>0. D!DictationAssumption /\ E!EndpointAssumption
  BY VoiceAssumption
<1>1. Init => Parted
  BY <1>0, DictationInit, EndpointInit DEF Init, DictationPart
<1>2. Parted /\ [Next]_vars => Parted'
  <2> SUFFICES ASSUME Parted, [Next]_vars
               PROVE  Parted'
    OBVIOUS
  <2>1. ASSUME part' = "dictation"
        PROVE  Counts' /\ Flags' /\ Names' /\ Holds'
    <3>1. part = "dictation" /\ [D!Next]_(D!vars)
      BY <2>1, VoicePartStep
    <3>2. Counts /\ Flags /\ Names /\ Holds
      BY <3>1 DEF DictationPart
    <3> QED BY <1>0, <3>1, <3>2, CountsStep, FlagsStep, NamesStep, HoldsStep
  <2>2. ASSUME part' = "endpoint"
        PROVE  EndpointHolds'
    <3>1. part = "endpoint" /\ [E!Next]_(E!vars)
      BY <2>2, VoicePartStep
    <3> QED BY <1>0, <3>1, EndpointStep
  <2> QED BY <2>1, <2>2 DEF DictationPart
<1>3. Parted => TakeInv
  BY <1>0, DictationMeans, EndpointMeans DEF DictationPart, TakeInv
<1> QED BY <1>1, <1>2, <1>3, PTL DEF Spec

(* The key that mutes Discord is down only while a helper holds it and no  *)
(* helper outlives its lease; an owner has one sidecar process at a time,  *)
(* each is called with its own token, and none runs on that nobody holds.  *)
THEOREM HelpersLeaveNothing == Spec => []HelpersInv
<1> DEFINE Parted ==
      /\ part = "discord" => DiscordHolds
      /\ part = "sidecar" => SidecarHolds(Fills)
      /\ part = "ends" => SidecarHolds(Drains)
<1>0. S(Fills)!PipeAssumption /\ S(Drains)!PipeAssumption
  BY VoiceAssumption
<1>1. Init => Parted
  BY <1>0, DiscordInit, SidecarInit DEF Init
<1>2. Parted /\ [Next]_vars => Parted'
  <2> SUFFICES ASSUME Parted, [Next]_vars
               PROVE  Parted'
    OBVIOUS
  <2>1. ASSUME part' = "discord"
        PROVE  DiscordHolds'
    BY <2>1, VoicePartStep, DiscordStep
  <2>2. ASSUME part' = "sidecar"
        PROVE  SidecarHolds(Fills)'
    BY <1>0, <2>2, VoicePartStep, SidecarStep
  <2>3. ASSUME part' = "ends"
        PROVE  SidecarHolds(Drains)'
    BY <1>0, <2>3, VoicePartStep, SidecarStep
  <2> QED BY <2>1, <2>2, <2>3
<1>3. Parted => HelpersInv
  BY <1>0, DiscordMeans, SidecarMeans DEF HelpersInv
<1> QED BY <1>1, <1>2, <1>3, PTL DEF Spec

(* While the settings are saved and workers reloaded, what is shown as     *)
(* armed is a worker of the current generation, and no two slots share a   *)
(* classifier; while one worker hears, every detection is of consecutive   *)
(* chunks, none from the other side of a take, and one utterance fires     *)
(* once.                                                                   *)
THEOREM WakesWhileArmed == Spec => []WakeInv
<1> DEFINE Woken ==
      /\ part = "wake" => WakeHolds(Reloads) /\ HearingHolds(Reloads)
      /\ part = "hear" => WakeHolds(Hears) /\ HearingHolds(Hears) /\ generation <= 1
<1>0. W(Reloads)!WakeAssumption /\ W(Hears)!WakeAssumption
  BY VoiceAssumption
<1>1. Init => Woken
  <2>1. Init => W(Reloads)!Init \/ part = "hear"
    BY DEF Init
  <2>2. Init /\ part = "hear" => W(Hears)!Init /\ generation = 0
    BY DEF Init, W!Init
  <2> QED BY <1>0, <2>1, <2>2, WakeInit
<1>2. Woken /\ [Next]_vars => Woken'
  <2> SUFFICES ASSUME Woken, [Next]_vars
               PROVE  Woken'
    OBVIOUS
  <2>1. ASSUME part' = "wake"
        PROVE  WakeHolds(Reloads)' /\ HearingHolds(Reloads)'
    BY <1>0, <2>1, VoicePartStep, WakeStep
  <2>2. ASSUME part' = "hear"
        PROVE  WakeHolds(Hears)' /\ HearingHolds(Hears)'
    BY <1>0, <2>2, VoicePartStep, WakeStep
  <2>3. ASSUME part' = "hear"
        PROVE  generation' <= 1
    BY <2>3, VoicePartStep
  <2> QED BY <2>1, <2>2, <2>3
<1>3. Woken => WakeInv
  <2>1. Reloads.chunks = 0
    BY DEF Reloads
  <2> QED BY <1>0, <2>1, WakeMeans DEF WakeInv
<1> QED BY <1>1, <1>2, <1>3, PTL DEF Spec

(* The lease on the mute of Discord is given up only where the worker goes *)
(* back to rest with the microphone closed, whatever the setting becomes   *)
(* meanwhile.                                                              *)
THEOREM LeaseIsKept == Spec => D!LeaseKept
<1>0. D!DictationAssumption
  BY VoiceAssumption
<1>1. Init => DictationPart
  BY <1>0, DictationInit DEF Init, DictationPart
<1>2. DictationPart /\ [Next]_vars => DictationPart'
  <2> SUFFICES ASSUME DictationPart, [Next]_vars, part' = "dictation"
               PROVE  Counts' /\ Flags' /\ Names' /\ Holds'
    BY DEF DictationPart
  <2>1. part = "dictation" /\ [D!Next]_(D!vars)
    BY VoicePartStep
  <2>2. Counts /\ Flags /\ Names /\ Holds
    BY <2>1 DEF DictationPart
  <2> QED BY <1>0, <2>1, <2>2, CountsStep, FlagsStep, NamesStep, HoldsStep
<1>3. DictationPart /\ [Next]_vars => [(lease /\ ~lease') => dictationPc' = "rest" /\ ~mic']_(D!vars)
  <2> SUFFICES ASSUME DictationPart, [Next]_vars, lease, ~lease'
               PROVE  dictationPc' = "rest" /\ ~mic'
    OBVIOUS
  <2>1. part = "dictation" /\ [D!Next]_(D!vars)
    BY DEF Next, vars, dictationVars, D!vars
  <2>2. Counts /\ Flags /\ Names /\ Holds
    BY <2>1 DEF DictationPart
  <2> QED BY <2>1, <2>2, LeaseStep
<1> QED BY <1>1, <1>2, <1>3, PTL DEF Spec, D!LeaseKept
==============================================================================
