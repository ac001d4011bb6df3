---------------------------- MODULE Microphone -----------------------------
(***************************************************************************)
(* The microphone of a take: the audio thread's callback resamples what    *)
(* the device delivered, in chunks of any size, and appends it to a buffer *)
(* that the dictation worker reads on while it grows and takes when the    *)
(* take ends.                                                              *)
(*                                                                         *)
(* A source sample is <<stream, number>>; an output sample is what it is   *)
(* interpolated from, <<left, right, numerator>>.  A rate is <<Num, Den>>, *)
(* source samples for each output sample; positions are kept in parts of   *)
(* Den, exactly.                                                           *)
(***************************************************************************)
EXTENDS Naturals, Sequences, FiniteSets

CONSTANTS Rates, MaxChunk,
          MaxSamples, MaxStreams  \* bounds

VARIABLES stream,   \* streams opened so far; the number of the last one
          open,     \* it is still there
          rate, pos, pending,  \* its Resampler
          ready,    \* the callback's output, not yet appended
          buffer,   \* AudioCapture::buffer
          cursor, heard,  \* how far the worker has read, and what
          take,     \* what stop returned
          fed       \* history: samples the stream has delivered

vars == <<stream, open, rate, pos, pending, ready, buffer, cursor, heard, take, fed>>

Num == rate[1]
Den == rate[2]

Init ==
  /\ stream = 0 /\ open = FALSE /\ rate \in Rates
  /\ pos = 0 /\ pending = <<>> /\ ready = <<>> /\ buffer = <<>>
  /\ cursor = 0 /\ heard = <<>> /\ take = <<>> /\ fed = 0

(* AudioCapture::start, with a resampler for the device of the day.        *)
Start(r) ==
  /\ ~open /\ stream < MaxStreams
  /\ stream' = stream + 1 /\ open' = TRUE
  /\ rate' = r /\ pos' = 0 /\ pending' = <<>> /\ buffer' = <<>>
  /\ cursor' = 0 /\ heard' = <<>> /\ fed' = 0
  /\ UNCHANGED <<ready, take>>

(* How many positions from p on have a right neighbour among len samples.  *)
Reads(p, len) == Cardinality({k \in 0..(len * Den) : (p + k * Num) \div Den + 1 < len})

Sample(p, samples) ==
  LET i == p \div Den IN <<samples[i + 1], samples[i + 2], p % Den>>

Mut_Rest(p, len) == 0
(* What no later output needs; the position may be past the end.           *)
Rest(p, len) == IF p \div Den < len THEN p \div Den ELSE len

Mut_Push(chunk, out) ==
  LET all == pending \o chunk
      n   == Reads(pos, Len(all))
      end == pos + n * Num IN
  /\ out = [k \in 1..n |-> Sample(pos + (k - 1) * Num, all)]
  /\ pending' = SubSeq(all, Rest(end, Len(all)) + 1, Len(all))
  /\ pos' = 0
(* Resampler::push.                                                        *)
Push(chunk, out) ==
  LET all == pending \o chunk
      n   == Reads(pos, Len(all))
      end == pos + n * Num IN
  /\ out = [k \in 1..n |-> Sample(pos + (k - 1) * Num, all)]
  /\ pending' = SubSeq(all, Rest(end, Len(all)) + 1, Len(all))
  /\ pos' = end - Rest(end, Len(all)) * Den

(* The device delivers n samples; the callback is not run again before it  *)
(* has returned.                                                           *)
Callback(n) ==
  /\ open /\ ready = <<>> /\ fed + n <= MaxSamples
  /\ fed' = fed + n
  /\ Push([i \in 1..n |-> <<stream, fed + i - 1>>], ready')
  /\ UNCHANGED <<stream, open, rate, buffer, cursor, heard, take>>

Appends ==
  /\ ready # <<>>
  /\ buffer' = buffer \o ready /\ ready' = <<>>
  /\ UNCHANGED <<stream, open, rate, pos, pending, cursor, heard, take, fed>>

(* samples_since: nothing where the cursor is past the end.                *)
Since(c) == SubSeq(buffer, c + 1, Len(buffer))

Mut_Hear ==
  /\ open /\ heard' = heard \o Since(cursor)
  /\ cursor' = Len(buffer) + Len(ready)
  /\ UNCHANGED <<stream, open, rate, pos, pending, ready, buffer, take, fed>>
(* The worker runs the detector over what has come since.                  *)
Hear ==
  /\ open /\ heard' = heard \o Since(cursor)
  /\ cursor' = cursor + Len(Since(cursor))
  /\ UNCHANGED <<stream, open, rate, pos, pending, ready, buffer, take, fed>>

Mut_Stop ==
  /\ open /\ ready = <<>> /\ open' = FALSE
  /\ take' = Since(cursor) /\ buffer' = <<>>
  /\ UNCHANGED <<stream, rate, pos, pending, ready, cursor, heard, fed>>
(* Dropping the stream waits for a callback that is running.               *)
Stop ==
  /\ open /\ ready = <<>> /\ open' = FALSE
  /\ take' = buffer /\ buffer' = <<>>
  /\ UNCHANGED <<stream, rate, pos, pending, ready, cursor, heard, fed>>

Next ==
  \/ \E r \in Rates : Start(r)
  \/ \E n \in 1..MaxChunk : Callback(n)
  \/ Appends \/ Hear \/ Stop

Spec == Init /\ [][Next]_vars

(* ------------------------------ properties ----------------------------- *)
(* The same stream resampled in one piece.                                 *)
InOnePiece == [k \in 1..Reads(0, fed) |->
  LET p == (k - 1) * Num IN
  <<<<stream, p \div Den>>, <<stream, p \div Den + 1>>, p % Den>>]

(* The resampler keeps no more than the sample the next one leans on, and  *)
(* buffers are of sample pairs that are neighbours.                        *)
MicrophoneTypeOK ==
  /\ pos \in Nat /\ Len(pending) <= 1
  /\ \A s \in {buffer, ready, take, heard} : \A k \in DOMAIN s :
       s[k][1][1] = s[k][2][1] /\ s[k][2][2] = s[k][1][2] + 1 /\ s[k][3] \in Nat

(* Whatever the chunks, and however far a read position steps past one,    *)
(* the buffer is the stream resampled in one piece (audio.rs:336, of its   *)
(* test: "the result must be identical").                                  *)
NoSeams == open => buffer \o ready = InOnePiece

(* The detector hears every sample of the take once and in order, read     *)
(* while the callback appends.                                             *)
HearsAll == open => cursor <= Len(buffer) /\ heard = SubSeq(buffer, 1, cursor)

(* What stop returns is the whole of this take and nothing of another.     *)
TakeIsWhole == [][open /\ ~open' => take' = InOnePiece]_vars

(* Chunks cut anywhere resample as one stream, and the detector hears all  *)
(* of it once.                                                             *)
MicrophoneInv ==
  /\ MicrophoneTypeOK
  /\ NoSeams
  /\ HearsAll
=============================================================================
