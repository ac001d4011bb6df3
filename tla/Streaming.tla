------------------------------- MODULE Streaming -------------------------------
(***************************************************************************)
(* Live partial transcripts (src-tauri/src/dictation.rs Streamer, with the *)
(* shared crate's DecodeScheduler, LanguageLatch, WindowAnchor and         *)
(* LocalAgreement): while a take records, the dictation worker re-decodes  *)
(* the audio past the anchor off its thread, one decode at a time, and     *)
(* folds what comes back into the committed text and the anchor.           *)
(*                                                                         *)
(* Audio is counted in units, words are model values. A decode says any    *)
(* text, cut into segments: a segment is how many words of the text it and *)
(* those before it hold, and where it ends in the window. A language is    *)
(* named by the take whose audio it was detected in.                       *)
(***************************************************************************)
EXTENDS Integers, Sequences, FiniteSets, SequencesExt, TLC

CONSTANTS
  Word,
  MinDecode,    \* MIN_DECODE_SAMPLES
  Hop,          \* DECODE_HOP_SAMPLES
  MaxTakes,     \* bound: takes in a behaviour
  MaxAudio,     \* bound: units recorded in a take
  MaxWords,     \* bound: words a decode returns
  MaxSegments   \* bound: segments a decode returns

ASSUME AudioAssumption ==
  MinDecode \in Nat \ {0} /\ Hop \in Nat \ {0} /\ MaxTakes \in Nat /\ MaxAudio \in Nat
ASSUME DecodeAssumption == MaxWords \in Nat /\ MaxSegments \in Nat

VARIABLES
  pc,           \* where the worker is
  take,         \* which take it records, or recorded last
  buffered,     \* units in the capture buffer
  cursor,       \* how much of it listen has read: pump's `buffered`
  lastDecodeAt, \* DecodeScheduler::last_decode_at, or Never
  disabled,     \* DecodeScheduler::disabled
  latched,      \* LanguageLatch::latched, 0 for None
  committed,    \* LocalAgreement::committed
  previous,     \* LocalAgreement::previous
  offset,       \* WindowAnchor::offset
  prefix,       \* WindowAnchor::prefix
  inFlight,     \* Streamer::in_flight
  decodes,      \* the spawned decodes that have not ended
  channel,      \* Streamer::tx and rx
  batch,        \* drain's `outcomes` not yet folded
  covered,      \* history: where the audio of the prefix's words ends
  raced         \* history: this take began over a running decode, or fired one
                \* past an outcome it had not folded

audioVars == <<take, buffered, cursor>>
viewVars == <<latched, committed, previous, offset, prefix>>
taskVars == <<inFlight, decodes>>
historyVars == <<covered, raced>>
vars == <<pc, audioVars, lastDecodeAt, disabled, viewVars, taskVars, channel, batch,
          historyVars>>

Never == -1
Text == BoundedSeq(Word, MaxWords)

(* What a decode of so many units may return: the segments follow one      *)
(* another in the audio and hold the whole text.                           *)
Hypotheses(units) ==
  {hyp \in [text : Text,
            segments : BoundedSeq([words : 0 .. MaxWords, end : 1 .. units], MaxSegments)] :
     /\ \A i, j \in DOMAIN hyp.segments :
          i < j => /\ hyp.segments[i].words <= hyp.segments[j].words
                   /\ hyp.segments[i].end < hyp.segments[j].end
     /\ IF hyp.segments = <<>>
        THEN hyp.text = <<>>
        ELSE Last(hyp.segments).words = Len(hyp.text)}

Silence == [text |-> <<>>, segments |-> <<>>]

Init ==
  /\ pc = "idle"
  /\ take = 0 /\ buffered = 0 /\ cursor = 0
  /\ lastDecodeAt = Never /\ disabled = FALSE
  /\ latched = 0 /\ committed = <<>> /\ previous = <<>> /\ offset = 0 /\ prefix = <<>>
  /\ inFlight = FALSE /\ decodes = {} /\ channel = <<>> /\ batch = <<>>
  /\ covered = 0 /\ raced = FALSE

-----------------------------------------------------------------------------
(* A take                                                                  *)

Mut_BeginForgetsFlight ==
  /\ pc = "idle"
  /\ take < MaxTakes
  /\ pc' = "listening"
  /\ take' = take + 1 /\ buffered' = 0 /\ cursor' = 0
  /\ lastDecodeAt' = Never
  /\ latched' = 0 /\ committed' = <<>> /\ previous' = <<>> /\ offset' = 0 /\ prefix' = <<>>
  /\ channel' = <<>> /\ inFlight' = FALSE
  /\ covered' = 0
  /\ raced' = \E decode \in decodes : ~decode.sent
  /\ UNCHANGED <<disabled, decodes, batch>>

Mut_BeginKeepsAnchor ==
  /\ pc = "idle"
  /\ take < MaxTakes
  /\ pc' = "listening"
  /\ take' = take + 1 /\ buffered' = 0 /\ cursor' = 0
  /\ lastDecodeAt' = Never
  /\ latched' = 0 /\ committed' = <<>> /\ previous' = <<>>
  /\ channel' = <<>>
  /\ covered' = 0
  /\ raced' = \E decode \in decodes : ~decode.sent
  /\ UNCHANGED <<disabled, taskVars, batch, offset, prefix>>

(* run_worker opens a take: Streamer::begin resets everything but the      *)
(* session's `disabled` and the decode that may still run, and drops what  *)
(* has come back.                                                          *)
Begin ==
  /\ pc = "idle"
  /\ take < MaxTakes
  /\ pc' = "listening"
  /\ take' = take + 1 /\ buffered' = 0 /\ cursor' = 0
  /\ lastDecodeAt' = Never
  /\ latched' = 0 /\ committed' = <<>> /\ previous' = <<>> /\ offset' = 0 /\ prefix' = <<>>
  /\ channel' = <<>>
  /\ covered' = 0
  /\ raced' = \E decode \in decodes : ~decode.sent
  /\ UNCHANGED <<disabled, taskVars, batch>>

(* The microphone's thread records until the take ends.                    *)
Record ==
  /\ pc \in {"listening", "draining", "firing"}
  /\ buffered < MaxAudio
  /\ buffered' = buffered + 1
  /\ UNCHANGED <<pc, take, cursor, lastDecodeAt, disabled, viewVars, taskVars, channel, batch,
                 historyVars>>

(* listen returns, for any of its reasons: the final decode follows.       *)
EndTake ==
  /\ pc = "listening"
  /\ pc' = "transcribing"
  /\ UNCHANGED <<audioVars, lastDecodeAt, disabled, viewVars, taskVars, channel, batch,
                 historyVars>>

(* The final decode returned: finalize settles the preview on its text.    *)
Finalize(text) ==
  /\ pc = "transcribing"
  /\ pc' = "idle"
  /\ committed' = text /\ previous' = text
  /\ UNCHANGED <<audioVars, lastDecodeAt, disabled, latched, offset, prefix, taskVars,
                 channel, batch, historyVars>>

(* Too short a take, no speech in it, or a failed decode.                  *)
Discard ==
  /\ pc = "transcribing"
  /\ pc' = "idle"
  /\ UNCHANGED <<audioVars, lastDecodeAt, disabled, viewVars, taskVars, channel, batch,
                 historyVars>>

-----------------------------------------------------------------------------
(* pump: drain                                                             *)

(* A wake of listen reads the buffer and pumps, and the channel is         *)
(* emptied.                                                                *)
Collect ==
  /\ pc = "listening"
  /\ pc' = "draining"
  /\ cursor' = buffered
  /\ batch' = channel
  /\ channel' = <<>>
  /\ UNCHANGED <<take, buffered, lastDecodeAt, disabled, viewVars, taskVars, historyVars>>

(* How many leading words two hypotheses share.                            *)
Shares(a, b, n) ==
  /\ n \in 0 .. Len(b)
  /\ n <= Len(a)
  /\ \A i \in 1 .. n : a[i] = b[i]
  /\ n < Len(a) /\ n < Len(b) => a[n + 1] # b[n + 1]

(* LocalAgreement::observe.                                                *)
Agree(hypothesis) ==
  /\ \E n \in 0 .. Len(hypothesis) :
       /\ Shares(previous, hypothesis, n)
       /\ committed' = IF n > Len(committed) THEN SubSeq(hypothesis, 1, n) ELSE committed
  /\ previous' = hypothesis

Mut_ReachesUncompared(hyp, tail, i) ==
  /\ hyp.segments[i].words > 0
  /\ i = 1 \/ hyp.segments[i - 1].words < hyp.segments[i].words
  /\ hyp.segments[i].words <= Len(tail)

(* WindowAnchor::advance goes past segment i: every word up to its end is  *)
(* committed, and it or one before it has words.                           *)
Reaches(hyp, tail, i) ==
  /\ hyp.segments[i].words > 0
  /\ i = 1 \/ hyp.segments[i - 1].words < hyp.segments[i].words
  /\ hyp.segments[i].words <= Len(tail)
  /\ SubSeq(hyp.text, 1, hyp.segments[i].words) = SubSeq(tail, 1, hyp.segments[i].words)

(* WindowAnchor::advance, on the text just committed.                      *)
Advance(hyp, from) ==
  LET tail == SubSeq(committed', Len(prefix) + 1, Len(committed'))
      reached == {i \in DOMAIN hyp.segments : Reaches(hyp, tail, i)}
  IN  IF Len(committed') <= Len(prefix) \/ ~IsPrefix(prefix, committed') \/ reached = {}
      THEN UNCHANGED <<offset, prefix, covered>>
      ELSE \E last \in reached :
             /\ \A i \in reached : i <= last
             /\ offset' = offset + hyp.segments[last].end
             /\ prefix' = prefix \o SubSeq(tail, 1, hyp.segments[last].words)
             /\ covered' = from + hyp.segments[last].end

(* One turn of drain's loop. A decode that failed only says how long it    *)
(* took.                                                                   *)
Fold ==
  /\ pc = "draining"
  /\ batch # <<>>
  /\ batch' = Tail(batch)
  /\ LET outcome == Head(batch)
     IN  /\ disabled' = (disabled \/ outcome.slow)
         /\ IF outcome.decoded
            THEN /\ latched' = IF latched = 0 THEN outcome.language ELSE latched
                 /\ Agree(prefix \o outcome.hyp.text)
                 /\ Advance(outcome.hyp, outcome.from)
            ELSE UNCHANGED <<viewVars, covered>>
  /\ UNCHANGED <<pc, audioVars, lastDecodeAt, taskVars, channel, raced>>

Drained ==
  /\ pc = "draining"
  /\ batch = <<>>
  /\ pc' = "firing"
  /\ UNCHANGED <<audioVars, lastDecodeAt, disabled, viewVars, taskVars, channel, batch,
                 historyVars>>

-----------------------------------------------------------------------------
(* pump: fire                                                              *)

(* DecodeScheduler::should_decode.                                         *)
ShouldDecode ==
  /\ ~disabled /\ ~inFlight
  /\ cursor >= MinDecode
  /\ lastDecodeAt = Never \/ cursor - lastDecodeAt >= Hop

Mut_FireOnNothing ==
  /\ pc = "firing"
  /\ pc' = "listening"
  /\ IF ShouldDecode
     THEN /\ lastDecodeAt' = cursor
          /\ inFlight' = TRUE
          /\ decodes' = decodes \cup
               {[take |-> take, from |-> offset, to |-> buffered, sent |-> FALSE]}
          /\ raced' = (raced \/ channel # <<>>)
     ELSE UNCHANGED <<lastDecodeAt, taskVars, raced>>
  /\ UNCHANGED <<audioVars, disabled, viewVars, channel, batch, covered>>

(* The decode covers the window: the audio from the anchor on, if any,     *)
(* with what came since listen read the buffer.                            *)
Fire ==
  /\ pc = "firing"
  /\ pc' = "listening"
  /\ IF ShouldDecode
     THEN /\ lastDecodeAt' = cursor
          /\ IF offset < buffered
             THEN /\ inFlight' = TRUE
                  /\ decodes' = decodes \cup
                       {[take |-> take, from |-> offset, to |-> buffered, sent |-> FALSE]}
                  /\ raced' = (raced \/ channel # <<>>)
             ELSE UNCHANGED <<taskVars, raced>>
     ELSE UNCHANGED <<lastDecodeAt, taskVars, raced>>
  /\ UNCHANGED <<audioVars, disabled, viewVars, channel, batch, covered>>

-----------------------------------------------------------------------------
(* The spawned decode                                                      *)

(* transcribe returned, and the outcome is queued.                         *)
Send(decode) ==
  /\ decode \in decodes /\ ~decode.sent
  /\ decodes' = (decodes \ {decode}) \cup {[decode EXCEPT !.sent = TRUE]}
  /\ \E slow \in BOOLEAN, decoded \in BOOLEAN :
     \E hyp \in IF decoded THEN Hypotheses(decode.to - decode.from) ELSE {Silence},
        language \in IF decoded THEN {0, decode.take} ELSE {0} :
       channel' = Append(channel, [take |-> decode.take, from |-> decode.from,
                                   slow |-> slow, decoded |-> decoded, hyp |-> hyp,
                                   language |-> language])
  /\ UNCHANGED <<pc, audioVars, lastDecodeAt, disabled, viewVars, inFlight, batch,
                 historyVars>>

(* The single-flight guard is cleared last.                                *)
Land(decode) ==
  /\ decode \in decodes /\ decode.sent
  /\ decodes' = decodes \ {decode}
  /\ inFlight' = FALSE
  /\ UNCHANGED <<pc, audioVars, lastDecodeAt, disabled, viewVars, channel, batch,
                 historyVars>>

Next ==
  \/ Begin \/ Record \/ EndTake \/ Discard
  \/ \E text \in Text : Finalize(text)
  \/ Collect \/ Fold \/ Drained \/ Fire
  \/ \E decode \in decodes : Send(decode) \/ Land(decode)

Spec == Init /\ [][Next]_vars

-----------------------------------------------------------------------------
(* Properties                                                              *)

Outcome == [take : 1 .. MaxTakes, from : Nat, slow : BOOLEAN, decoded : BOOLEAN,
            hyp : [text : Seq(Word),
                   segments : Seq([words : 0 .. MaxWords, end : 1 .. MaxAudio])],
            language : 0 .. MaxTakes]

(* Types.                                                                  *)
StreamingTypeOK ==
  /\ pc \in {"idle", "listening", "draining", "firing", "transcribing"}
  /\ take \in 0 .. MaxTakes /\ buffered \in 0 .. MaxAudio /\ cursor \in 0 .. buffered
  /\ lastDecodeAt \in {Never} \cup 0 .. MaxAudio
  /\ disabled \in BOOLEAN /\ latched \in 0 .. MaxTakes
  /\ committed \in Seq(Word) /\ previous \in Seq(Word)
  /\ offset \in Nat /\ prefix \in Seq(Word)
  /\ inFlight \in BOOLEAN
  /\ \A decode \in decodes :
       /\ decode \in [take : 1 .. MaxTakes, from : Nat, to : 1 .. MaxAudio, sent : BOOLEAN]
       /\ decode.from < decode.to
  /\ channel \in Seq(Outcome) /\ batch \in Seq(Outcome)
  /\ covered \in Nat /\ raced \in BOOLEAN

(* "Single-flight: never two decodes at once" (DecodeScheduler), across    *)
(* takes too, though `begin` resets everything else: the guard is up       *)
(* exactly while a decode runs.                                            *)
SingleFlight ==
  /\ \A one, other \in decodes : one = other
  /\ inFlight <=> decodes # {}

(* The anchor's prefix heads both the committed text and the hypothesis it *)
(* is compared with, whatever the decodes say and however late they come:  *)
(* the committer's view spans the whole take though a decode covers only   *)
(* the window (WindowAnchor).                                              *)
AnchorOnCommitted ==
  pc # "idle" => IsPrefix(prefix, committed) /\ IsPrefix(prefix, previous)

(* The window starts where the audio of the prefix's words ends, and only  *)
(* outcomes of this take are folded, unless a decode ran over into the     *)
(* take or one was fired past an outcome still in the channel: the two     *)
(* ways for the anchor to move under a decode.                             *)
UnracedWindow ==
  ~raced => /\ offset = covered
            /\ offset <= buffered
            /\ \A i \in DOMAIN batch : batch[i].take = take

(* LocalAgreement::committed: "Grows monotonically; never shrinks or       *)
(* rewrites." Two hypotheses that agree with one another and not with it   *)
(* replace it.                                                             *)
CommittedIsFinal ==
  [][take' = take /\ pc' # "idle" => IsPrefix(committed, committed')]_vars

-----------------------------------------------------------------------------
(* For TLC: words are only compared with one another, and a search for a   *)
(* counterexample looks no further once a decode was slow, as the          *)
(* scheduler fires none after it.                                          *)
Words == Permutations(Word)
NoneSlow == ~disabled /\ \A i \in DOMAIN channel : ~channel[i].slow
=============================================================================
