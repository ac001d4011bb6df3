--------------------------- MODULE StreamingProofs ---------------------------
(***************************************************************************)
(* Proofs about the streaming preview, for every set of words, every       *)
(* cadence and takes, recordings and hypotheses of every length: its       *)
(* types, that one decode runs at a time, that the anchor keeps to the     *)
(* committed text, and that only a race moves the window off it.           *)
(***************************************************************************)
EXTENDS Streaming, SequenceTheorems, TLAPS

Segment == [words : 0 .. MaxWords, end : 1 .. MaxAudio]
Hypothesis == [text : Seq(Word), segments : Seq(Segment)]

(* The types, and that a take is numbered from 1.                          *)
TypeInv == StreamingTypeOK /\ (pc # "idle" => take # 0)

(* Every segment ends within the text.                                     *)
WellCut(hyp) == \A i \in DOMAIN hyp.segments : hyp.segments[i].words <= Len(hyp.text)

(* A sequence of bounded length is a sequence.                             *)
LEMMA BoundedIsSeq ==
  ASSUME NEW S, NEW n \in Nat
  PROVE  BoundedSeq(S, n) \subseteq Seq(S)
BY SeqDef DEF BoundedSeq, SeqOf

(* What a decode returns is well typed and cut, and ends within its        *)
(* window.                                                                 *)
LEMMA HypothesisType ==
  ASSUME NEW units \in 0 .. MaxAudio, NEW hyp \in Hypotheses(units)
  PROVE  /\ hyp \in Hypothesis
         /\ WellCut(hyp)
         /\ \A i \in DOMAIN hyp.segments : hyp.segments[i].end \in 1 .. units
<1> DEFINE Short == [words : 0 .. MaxWords, end : 1 .. units]
<1>1. hyp \in [text : Text, segments : BoundedSeq(Short, MaxSegments)]
  BY DEF Hypotheses
<1>2. hyp.text \in Seq(Word) /\ hyp.segments \in Seq(Short)
  BY <1>1, BoundedIsSeq, DecodeAssumption DEF Text
<1>3. Short \subseteq Segment
  BY AudioAssumption DEF Segment
<1> HIDE DEF Short
<1>4. hyp.segments \in Seq(Segment)
  BY <1>2, <1>3, SeqMonotonic
<1>5. \A i \in DOMAIN hyp.segments : hyp.segments[i] \in Short
  BY <1>2, ElementOfSeq, LenProperties
<1>6. hyp = [text |-> hyp.text, segments |-> hyp.segments]
  BY <1>1
<1>7. WellCut(hyp)
  <2>1. /\ Len(hyp.segments) \in Nat
        /\ DOMAIN hyp.segments = 1 .. Len(hyp.segments)
        /\ \A i \in DOMAIN hyp.segments : hyp.segments[i].words \in Nat
    BY <1>2, <1>5, LenProperties, DecodeAssumption DEF Short
  <2>2. SUFFICES ASSUME NEW i \in DOMAIN hyp.segments
                 PROVE  hyp.segments[i].words <= Len(hyp.text)
    BY DEF WellCut
  <2> DEFINE last == Len(hyp.segments)
  <2>3. last \in DOMAIN hyp.segments /\ hyp.segments # <<>>
    BY <2>1
  <2>4. hyp.segments[last].words = Len(hyp.text)
    BY <2>3 DEF Hypotheses, Last
  <2>5. i < last => hyp.segments[i].words <= hyp.segments[last].words
    BY <2>3 DEF Hypotheses
  <2>6. hyp.segments[last].words \in Nat /\ hyp.segments[i].words \in Nat
    BY <2>1, <2>3
  <2>7. CASE i < last
    BY <2>4, <2>5, <2>7
  <2>8. CASE i = last
    BY <2>4, <2>6, <2>8
  <2> QED BY <2>1, <2>7, <2>8
<1> QED BY <1>2, <1>4, <1>5, <1>6, <1>7 DEF Hypothesis, Short

(* A prefix, element by element.                                           *)
LEMMA PrefixByElements ==
  ASSUME NEW S, NEW s \in Seq(S), NEW t \in Seq(S)
  PROVE  IsPrefix(s, t) <=> /\ Len(s) <= Len(t)
                            /\ \A i \in 1 .. Len(s) : s[i] = t[i]
<1>1. Len(s) \in Nat /\ Len(t) \in Nat
  BY LenProperties
<1>2. CASE Len(s) <= Len(t)
  <2>1. \A i \in 1 .. Len(s) : s[i] \in S /\ t[i] \in S
    BY <1>1, <1>2, ElementOfSeq
  <2>2. 1 \in Int /\ Len(s) \in Int
    BY <1>1
  <2>3. /\ SubSeq(s, 1, Len(s)) \in Seq(S)
        /\ Len(SubSeq(s, 1, Len(s))) = IF 1 <= Len(s) THEN Len(s) - 1 + 1 ELSE 0
        /\ \A i \in 1 .. Len(s) - 1 + 1 : SubSeq(s, 1, Len(s))[i] = s[1 + i - 1]
    BY <2>1, <2>2, SubSeqProperties
  <2>4. /\ SubSeq(t, 1, Len(s)) \in Seq(S)
        /\ Len(SubSeq(t, 1, Len(s))) = IF 1 <= Len(s) THEN Len(s) - 1 + 1 ELSE 0
        /\ \A i \in 1 .. Len(s) - 1 + 1 : SubSeq(t, 1, Len(s))[i] = t[1 + i - 1]
    BY <2>1, <2>2, SubSeqProperties
  <2>5. (IF 1 <= Len(s) THEN Len(s) - 1 + 1 ELSE 0) = Len(s)
    BY <1>1
  <2>6. \A i \in 1 .. Len(s) : 1 + i - 1 = i /\ i \in 1 .. Len(s) - 1 + 1
    BY <1>1
  <2>7. \A i \in 1 .. Len(s) : /\ SubSeq(s, 1, Len(s))[i] = s[i]
                               /\ SubSeq(t, 1, Len(s))[i] = t[i]
    BY <2>3, <2>4, <2>6
  <2>8. ASSUME \A i \in 1 .. Len(s) : s[i] = t[i]
        PROVE  SubSeq(s, 1, Len(s)) = SubSeq(t, 1, Len(s))
    BY <2>3, <2>4, <2>5, <2>7, <2>8, SeqEqual
  <2> QED BY <1>2, <2>7, <2>8 DEF IsPrefix
<1>3. CASE ~(Len(s) <= Len(t))
  BY <1>3 DEF IsPrefix
<1> QED BY <1>2, <1>3

-----------------------------------------------------------------------------
(* What folding one outcome does: the committed text is kept or grows to   *)
(* an agreed prefix of the hypothesis, and the anchor stays or passes      *)
(* segment `last`, all of whose words are committed and in both texts.     *)
LEMMA FoldSteps ==
  ASSUME StreamingTypeOK, batch # <<>>, batch[1].decoded,
         Agree(prefix \o batch[1].hyp.text), Advance(batch[1].hyp, batch[1].from)
  PROVE  LET outcome == batch[1]
             tail == SubSeq(committed', Len(prefix) + 1, Len(committed'))
         IN  /\ prefix \o outcome.hyp.text \in Seq(Word)
             /\ previous' = prefix \o outcome.hyp.text
             /\ committed' \in Seq(Word)
             /\ \/ committed' = committed
                \/ \E n \in 0 .. Len(previous') :
                     n > Len(committed) /\ committed' = SubSeq(previous', 1, n)
             /\ \/ UNCHANGED <<offset, prefix, covered>>
                \/ /\ Len(committed') > Len(prefix) /\ IsPrefix(prefix, committed')
                   /\ tail \in Seq(Word) /\ Len(tail) = Len(committed') - Len(prefix)
                   /\ \A i \in 1 .. Len(tail) : tail[i] = committed'[Len(prefix) + i]
                   /\ \E last \in DOMAIN outcome.hyp.segments :
                        /\ Reaches(outcome.hyp, tail, last)
                        /\ offset' = offset + outcome.hyp.segments[last].end
                        /\ covered' = outcome.from + outcome.hyp.segments[last].end
                        /\ prefix' = prefix \o
                             SubSeq(tail, 1, outcome.hyp.segments[last].words)
<1> DEFINE outcome == batch[1]
           hypothesis == prefix \o outcome.hyp.text
           tail == SubSeq(committed', Len(prefix) + 1, Len(committed'))
<1>1. /\ outcome \in Outcome
      /\ outcome.hyp.text \in Seq(Word)
      /\ prefix \in Seq(Word) /\ committed \in Seq(Word)
  <2>1. 1 \in 1 .. Len(batch)
    BY EmptySeq DEF StreamingTypeOK
  <2>2. outcome \in Outcome
    BY <2>1, ElementOfSeq DEF StreamingTypeOK
  <2> QED BY <2>2 DEF StreamingTypeOK, Outcome
<1>2. hypothesis \in Seq(Word) /\ previous' = hypothesis
  BY <1>1, ConcatProperties DEF Agree
<1>3. /\ committed' \in Seq(Word)
      /\ \/ committed' = committed
         \/ \E n \in 0 .. Len(previous') :
              n > Len(committed) /\ committed' = SubSeq(previous', 1, n)
  <2>1. PICK n \in 0 .. Len(hypothesis) :
          committed' = IF n > Len(committed) THEN SubSeq(hypothesis, 1, n) ELSE committed
    BY DEF Agree, Shares
  <2>2. SubSeq(hypothesis, 1, n) \in Seq(Word)
    <3>1. \A i \in 1 .. n : hypothesis[i] \in Word
      BY <1>2, ElementOfSeq, LenProperties
    <3>2. 1 \in Int /\ n \in Int
      OBVIOUS
    <3> HIDE DEF hypothesis
    <3> QED BY <3>1, <3>2, SubSeqProperties
  <2> QED BY <1>1, <1>2, <2>1, <2>2
<1>4. ASSUME ~UNCHANGED <<offset, prefix, covered>>
      PROVE  /\ Len(committed') > Len(prefix) /\ IsPrefix(prefix, committed')
             /\ \E last \in DOMAIN outcome.hyp.segments :
                  /\ Reaches(outcome.hyp, tail, last)
                  /\ offset' = offset + outcome.hyp.segments[last].end
                  /\ covered' = outcome.from + outcome.hyp.segments[last].end
                  /\ prefix' = prefix \o SubSeq(tail, 1, outcome.hyp.segments[last].words)
  <2>1. Len(committed') \in Nat /\ Len(prefix) \in Nat
    BY <1>1, <1>3, LenProperties
  <2> HIDE DEF tail
  <2>2. ~(Len(committed') <= Len(prefix)) /\ IsPrefix(prefix, committed')
    BY <1>4 DEF Advance
  <2>3. \E last \in {i \in DOMAIN outcome.hyp.segments : Reaches(outcome.hyp, tail, i)} :
          /\ offset' = offset + outcome.hyp.segments[last].end
          /\ covered' = outcome.from + outcome.hyp.segments[last].end
          /\ prefix' = prefix \o SubSeq(tail, 1, outcome.hyp.segments[last].words)
    BY <1>4 DEF Advance, tail
  <2>4. Len(committed') > Len(prefix)
    BY <2>1, <2>2
  <2> HIDE DEF outcome
  <2>5. \E last \in DOMAIN outcome.hyp.segments :
          /\ Reaches(outcome.hyp, tail, last)
          /\ offset' = offset + outcome.hyp.segments[last].end
          /\ covered' = outcome.from + outcome.hyp.segments[last].end
          /\ prefix' = prefix \o SubSeq(tail, 1, outcome.hyp.segments[last].words)
    BY <2>3
  <2> QED BY <2>2, <2>4, <2>5
<1>5. ASSUME Len(committed') > Len(prefix)
      PROVE  /\ tail \in Seq(Word) /\ Len(tail) = Len(committed') - Len(prefix)
             /\ \A i \in 1 .. Len(tail) : tail[i] = committed'[Len(prefix) + i]
  <2>1. Len(committed') \in Nat /\ Len(prefix) \in Nat
    BY <1>1, <1>3, LenProperties
  <2>2. \A i \in Len(prefix) + 1 .. Len(committed') : committed'[i] \in Word
    BY <1>3, <2>1, ElementOfSeq
  <2>3. Len(prefix) + 1 \in Int /\ Len(committed') \in Int
    BY <2>1
  <2> HIDE DEF tail
  <2>4. /\ tail \in Seq(Word)
        /\ Len(tail) = IF Len(prefix) + 1 <= Len(committed')
                       THEN Len(committed') - (Len(prefix) + 1) + 1 ELSE 0
        /\ \A i \in 1 .. Len(committed') - (Len(prefix) + 1) + 1 :
             tail[i] = committed'[Len(prefix) + 1 + i - 1]
    BY <2>2, <2>3, SubSeqProperties DEF tail
  <2>5. Len(tail) = Len(committed') - Len(prefix)
    BY <1>5, <2>1, <2>4
  <2>6. \A i \in 1 .. Len(tail) :
          /\ i \in 1 .. Len(committed') - (Len(prefix) + 1) + 1
          /\ Len(prefix) + 1 + i - 1 = Len(prefix) + i
    BY <2>1, <2>5
  <2> QED BY <2>4, <2>5, <2>6
<1> HIDE DEF tail, hypothesis
<1>6. \/ UNCHANGED <<offset, prefix, covered>>
      \/ /\ Len(committed') > Len(prefix) /\ IsPrefix(prefix, committed')
         /\ tail \in Seq(Word) /\ Len(tail) = Len(committed') - Len(prefix)
         /\ \A i \in 1 .. Len(tail) : tail[i] = committed'[Len(prefix) + i]
         /\ \E last \in DOMAIN outcome.hyp.segments :
              /\ Reaches(outcome.hyp, tail, last)
              /\ offset' = offset + outcome.hyp.segments[last].end
              /\ covered' = outcome.from + outcome.hyp.segments[last].end
              /\ prefix' = prefix \o SubSeq(tail, 1, outcome.hyp.segments[last].words)
  BY <1>4, <1>5
<1> QED BY <1>2, <1>3, <1>6 DEF tail, hypothesis

(* Types are preserved by a fold.                                          *)
LEMMA FoldTypeOK == TypeInv /\ Fold => TypeInv'
<1> SUFFICES ASSUME TypeInv, Fold PROVE TypeInv'
  OBVIOUS
<1> DEFINE outcome == batch[1]
<1>1. /\ outcome = Head(batch) /\ outcome \in Outcome
      /\ batch' = Tail(batch) /\ batch' \in Seq(Outcome)
  <2>1. batch \in Seq(Outcome) /\ batch # <<>>
    BY DEF Fold, TypeInv, StreamingTypeOK
  <2>2. 1 \in 1 .. Len(batch)
    BY <2>1, EmptySeq
  <2>3. outcome \in Outcome
    BY <2>1, <2>2, ElementOfSeq
  <2> QED BY <2>1, <2>3, HeadTailProperties DEF Fold
<1>2. CASE ~outcome.decoded
  BY <1>1, <1>2 DEF Fold, TypeInv, StreamingTypeOK, Outcome, audioVars, viewVars,
                    taskVars
<1>3. CASE outcome.decoded
  <2>1. /\ Agree(prefix \o outcome.hyp.text)
        /\ Advance(outcome.hyp, outcome.from)
        /\ latched' = IF latched = 0 THEN outcome.language ELSE latched
        /\ batch # <<>>
        /\ disabled' = (disabled \/ outcome.slow)
        /\ UNCHANGED <<pc, audioVars, lastDecodeAt, taskVars, channel, raced>>
    BY <1>1, <1>3 DEF Fold
  <2>2. previous' \in Seq(Word) /\ committed' \in Seq(Word)
    BY <1>3, <2>1, FoldSteps DEF TypeInv
  <2>3. outcome.hyp.segments \in Seq(Segment) /\ outcome.from \in Nat
    BY <1>1 DEF Outcome, Segment
  <2>4. offset' \in Nat /\ covered' \in Nat /\ prefix' \in Seq(Word)
    <3>1. prefix \in Seq(Word) /\ offset \in Nat /\ covered \in Nat
      BY DEF TypeInv, StreamingTypeOK
    <3>2. CASE UNCHANGED <<offset, prefix, covered>>
      BY <3>1, <3>2
    <3>3. CASE ~UNCHANGED <<offset, prefix, covered>>
      <4> DEFINE tail == SubSeq(committed', Len(prefix) + 1, Len(committed'))
      <4>1. /\ tail \in Seq(Word)
            /\ \E last \in DOMAIN outcome.hyp.segments :
                 /\ Reaches(outcome.hyp, tail, last)
                 /\ offset' = offset + outcome.hyp.segments[last].end
                 /\ covered' = outcome.from + outcome.hyp.segments[last].end
                 /\ prefix' = prefix \o SubSeq(tail, 1, outcome.hyp.segments[last].words)
        BY <1>3, <2>1, <3>3, FoldSteps DEF TypeInv
      <4> HIDE DEF tail
      <4>2. PICK last \in DOMAIN outcome.hyp.segments :
              /\ Reaches(outcome.hyp, tail, last)
              /\ offset' = offset + outcome.hyp.segments[last].end
              /\ covered' = outcome.from + outcome.hyp.segments[last].end
              /\ prefix' = prefix \o SubSeq(tail, 1, outcome.hyp.segments[last].words)
        BY <4>1
      <4>3. outcome.hyp.segments[last] \in Segment
        BY <2>3, ElementOfSeq, LenProperties
      <4> HIDE DEF outcome
      <4> DEFINE reached == outcome.hyp.segments[last].words
      <4>4. reached \in Nat /\ reached <= Len(tail)
        <5>1. reached \in Nat
          BY <4>3, DecodeAssumption DEF Segment
        <5> QED BY <4>2, <5>1 DEF Reaches
      <4> HIDE DEF reached
      <4>5. SubSeq(tail, 1, reached) \in Seq(Word)
        <5>1. Len(tail) \in Nat
          BY <4>1, LenProperties
        <5>2. \A i \in 1 .. reached : tail[i] \in Word
          <6>1. \A i \in 1 .. reached : i \in 1 .. Len(tail)
            BY <4>4, <5>1
          <6> QED BY <4>1, <6>1, ElementOfSeq
        <5>3. 1 \in Int /\ reached \in Int
          BY <4>4
        <5> QED BY <5>2, <5>3, SubSeqProperties
      <4>6. prefix' \in Seq(Word)
        BY <3>1, <4>2, <4>5, ConcatProperties DEF reached
      <4>7. outcome.hyp.segments[last].end \in Nat
        BY <4>3, AudioAssumption DEF Segment
      <4> DEFINE end == outcome.hyp.segments[last].end
      <4>8. offset' = offset + end /\ covered' = outcome.from + end
        BY <4>2
      <4>9. end \in Nat /\ outcome.from \in Nat
        BY <2>3, <4>7
      <4> HIDE DEF end
      <4>10. offset' \in Nat /\ covered' \in Nat
        BY <3>1, <4>8, <4>9
      <4> QED BY <4>6, <4>10
    <3> QED BY <3>2, <3>3
  <2>5. latched' \in 0 .. MaxTakes /\ disabled' \in BOOLEAN
    BY <1>1, <2>1 DEF TypeInv, StreamingTypeOK, Outcome
  <2>6. UNCHANGED <<pc, take, buffered, cursor, lastDecodeAt, inFlight, decodes, channel,
                    raced>>
    BY <2>1 DEF audioVars, taskVars
  <2> QED BY <1>1, <2>2, <2>4, <2>5, <2>6 DEF TypeInv, StreamingTypeOK
<1> QED BY <1>2, <1>3

(* Types are preserved when an outcome is queued.                          *)
LEMMA SendTypeOK ==
  ASSUME TypeInv, NEW decode \in decodes, Send(decode)
  PROVE  /\ TypeInv'
         /\ \E outcome \in Outcome :
              /\ channel' = Append(channel, outcome)
              /\ outcome.take = decode.take /\ outcome.from = decode.from
              /\ WellCut(outcome.hyp)
              /\ \A i \in DOMAIN outcome.hyp.segments :
                   outcome.hyp.segments[i].end \in 1 .. decode.to - decode.from
<1>1. /\ decode \in [take : 1 .. MaxTakes, from : Nat, to : 1 .. MaxAudio, sent : BOOLEAN]
      /\ decode.from < decode.to
  BY DEF TypeInv, StreamingTypeOK
<1>2. PICK slow \in BOOLEAN, decoded \in BOOLEAN :
      \E hyp \in IF decoded THEN Hypotheses(decode.to - decode.from) ELSE {Silence},
         language \in IF decoded THEN {0, decode.take} ELSE {0} :
        channel' = Append(channel, [take |-> decode.take, from |-> decode.from,
                                    slow |-> slow, decoded |-> decoded, hyp |-> hyp,
                                    language |-> language])
  BY DEF Send
<1>3. PICK hyp \in IF decoded THEN Hypotheses(decode.to - decode.from) ELSE {Silence},
           language \in IF decoded THEN {0, decode.take} ELSE {0} :
        channel' = Append(channel, [take |-> decode.take, from |-> decode.from,
                                    slow |-> slow, decoded |-> decoded, hyp |-> hyp,
                                    language |-> language])
  BY <1>2
<1> DEFINE outcome == [take |-> decode.take, from |-> decode.from, slow |-> slow,
                       decoded |-> decoded, hyp |-> hyp, language |-> language]
<1>4. /\ hyp \in Hypothesis
      /\ WellCut(hyp)
      /\ \A i \in DOMAIN hyp.segments :
           hyp.segments[i].end \in 1 .. decode.to - decode.from
  <2>1. CASE decoded
    <3>1. decode.to - decode.from \in 0 .. MaxAudio
      BY <1>1, AudioAssumption
    <3>2. hyp \in Hypotheses(decode.to - decode.from)
      BY <2>1
    <3> QED BY <3>1, <3>2, HypothesisType
  <2>2. CASE ~decoded
    <3>1. hyp = [text |-> <<>>, segments |-> <<>>]
      BY <2>2 DEF Silence
    <3>2. DOMAIN hyp.segments = {}
      BY <3>1
    <3> QED BY <3>1, <3>2, EmptySeq DEF Hypothesis, WellCut
  <2> QED BY <2>1, <2>2
<1>5. language \in 0 .. MaxTakes
  BY <1>1, AudioAssumption
<1>6. outcome \in Outcome
  BY <1>1, <1>4, <1>5 DEF Outcome, Hypothesis, Segment
<1>7. channel' = Append(channel, outcome)
  BY <1>3
<1>8. channel' \in Seq(Outcome)
  BY <1>6, <1>7 DEF TypeInv, StreamingTypeOK
<1>9. \A other \in decodes' :
        /\ other \in [take : 1 .. MaxTakes, from : Nat, to : 1 .. MaxAudio, sent : BOOLEAN]
        /\ other.from < other.to
  <2>1. decodes' = (decodes \ {decode}) \cup {[decode EXCEPT !.sent = TRUE]}
    BY DEF Send
  <2> QED BY <1>1, <2>1 DEF TypeInv, StreamingTypeOK
<1>10. UNCHANGED <<pc, take, buffered, cursor, lastDecodeAt, disabled, latched, committed,
                   previous, offset, prefix, inFlight, batch, covered, raced>>
  BY DEF Send, audioVars, viewVars, historyVars
<1>11. TypeInv'
  BY <1>8, <1>9, <1>10 DEF TypeInv, StreamingTypeOK
<1>12. /\ outcome.take = decode.take /\ outcome.from = decode.from
       /\ outcome.hyp = hyp
  OBVIOUS
<1> HIDE DEF outcome
<1> QED BY <1>4, <1>6, <1>7, <1>11, <1>12

(* Types are preserved by every step.                                      *)
LEMMA TypeStep == TypeInv /\ [Next]_vars => TypeInv'
<1> SUFFICES ASSUME TypeInv, [Next]_vars PROVE TypeInv'
  OBVIOUS
<1> USE DEF TypeInv, audioVars, viewVars, taskVars, historyVars
<1>1. CASE Begin
  <2>1. <<>> \in Seq(Word) /\ <<>> \in Seq(Outcome)
    BY EmptySeq
  <2>2. take' \in 1 .. MaxTakes /\ raced' \in BOOLEAN
    BY <1>1, AudioAssumption DEF Begin, StreamingTypeOK
  <2>3. UNCHANGED <<disabled, inFlight, decodes, batch>>
    BY <1>1 DEF Begin
  <2>4. /\ buffered' = 0 /\ cursor' = 0 /\ lastDecodeAt' = Never /\ latched' = 0
        /\ committed' = <<>> /\ previous' = <<>> /\ offset' = 0 /\ prefix' = <<>>
        /\ channel' = <<>> /\ covered' = 0 /\ pc' = "listening"
    BY <1>1 DEF Begin
  <2> QED BY <2>1, <2>2, <2>3, <2>4, AudioAssumption DEF StreamingTypeOK
<1>2. CASE Record
  BY <1>2, AudioAssumption DEF Record, StreamingTypeOK
<1>3. CASE EndTake
  BY <1>3 DEF EndTake, StreamingTypeOK
<1>4. CASE Discard
  BY <1>4 DEF Discard, StreamingTypeOK
<1>5. ASSUME NEW text \in Text, Finalize(text)
      PROVE  TypeInv'
  <2>1. text \in Seq(Word)
    BY BoundedIsSeq, DecodeAssumption DEF Text
  <2> QED BY <1>5, <2>1 DEF Finalize, StreamingTypeOK
<1>6. CASE Collect
  <2>1. <<>> \in Seq(Outcome)
    BY EmptySeq
  <2> QED BY <1>6, <2>1, AudioAssumption DEF Collect, StreamingTypeOK
<1>7. CASE Fold
  BY <1>7, FoldTypeOK
<1>8. CASE Drained
  BY <1>8 DEF Drained, StreamingTypeOK
<1>9. CASE Fire
  <2>1. lastDecodeAt' \in {Never} \cup 0 .. MaxAudio
    BY <1>9, AudioAssumption DEF Fire, StreamingTypeOK
  <2>2. inFlight' \in BOOLEAN /\ raced' \in BOOLEAN
    BY <1>9 DEF Fire, StreamingTypeOK
  <2>3. \A decode \in decodes' :
          /\ decode \in [take : 1 .. MaxTakes, from : Nat, to : 1 .. MaxAudio,
                         sent : BOOLEAN]
          /\ decode.from < decode.to
    <3>1. ASSUME offset < buffered
          PROVE  LET new == [take |-> take, from |-> offset, to |-> buffered, sent |-> FALSE]
                 IN  /\ new \in [take : 1 .. MaxTakes, from : Nat, to : 1 .. MaxAudio,
                                 sent : BOOLEAN]
                     /\ new.from < new.to
      <4>1. take \in 1 .. MaxTakes /\ offset \in Nat /\ buffered \in 1 .. MaxAudio
        BY <1>9, <3>1, AudioAssumption DEF Fire, StreamingTypeOK
      <4> QED BY <3>1, <4>1
    <3>2. \/ decodes' = decodes
          \/ /\ offset < buffered
             /\ decodes' = decodes \cup
                  {[take |-> take, from |-> offset, to |-> buffered, sent |-> FALSE]}
      BY <1>9 DEF Fire
    <3> QED BY <3>1, <3>2 DEF StreamingTypeOK
  <2>4. /\ pc' = "listening" /\ pc = "firing"
        /\ UNCHANGED <<take, buffered, cursor, disabled, latched, committed, previous, offset,
                       prefix, channel, batch, covered>>
    BY <1>9 DEF Fire
  <2> QED BY <2>1, <2>2, <2>3, <2>4 DEF StreamingTypeOK
<1>10. ASSUME NEW decode \in decodes, Send(decode)
       PROVE  TypeInv'
  BY <1>10, SendTypeOK
<1>11. ASSUME NEW decode \in decodes, Land(decode)
       PROVE  TypeInv'
  BY <1>11 DEF Land, StreamingTypeOK
<1>12. CASE UNCHANGED vars
  BY <1>12 DEF vars, StreamingTypeOK
<1> QED BY <1>1, <1>2, <1>3, <1>4, <1>5, <1>6, <1>7, <1>8, <1>9, <1>10, <1>11, <1>12
        DEF Next

(* At the start the preview is empty.                                      *)
LEMMA TypeInit == Init => TypeInv
<1> SUFFICES ASSUME Init PROVE TypeInv
  OBVIOUS
<1>1. <<>> \in Seq(Word) /\ <<>> \in Seq(Outcome)
  BY EmptySeq
<1>2. disabled \in BOOLEAN /\ inFlight \in BOOLEAN /\ raced \in BOOLEAN
  BY DEF Init
<1>3. /\ take = 0 /\ buffered = 0 /\ cursor = 0 /\ lastDecodeAt = Never /\ latched = 0
      /\ committed = <<>> /\ previous = <<>> /\ offset = 0 /\ prefix = <<>>
      /\ channel = <<>> /\ batch = <<>> /\ covered = 0
      /\ pc = "idle" /\ decodes = {}
  BY DEF Init
<1> QED BY <1>1, <1>2, <1>3, AudioAssumption DEF TypeInv, StreamingTypeOK

(* The types hold in every reachable state.                                *)
THEOREM StreamingTypeCorrect == Spec => []StreamingTypeOK
<1>1. TypeInv => StreamingTypeOK
  BY DEF TypeInv
<1> QED BY <1>1, TypeInit, TypeStep, PTL DEF Spec

-----------------------------------------------------------------------------
(* One decode runs at a time, whatever the takes do: the guard is raised   *)
(* with the decode, cleared with its end, and nothing else touches it.     *)
THEOREM OneDecodeAtATime == Spec => []SingleFlight
<1>1. Init => SingleFlight
  BY DEF Init, SingleFlight
<1>2. SingleFlight /\ [Next]_vars => SingleFlight'
  <2> SUFFICES ASSUME SingleFlight, [Next]_vars PROVE SingleFlight'
    OBVIOUS
  <2> USE DEF taskVars
  <2>1. CASE Fire
    <3>1. CASE UNCHANGED <<inFlight, decodes>>
      BY <3>1 DEF SingleFlight
    <3>2. CASE ~UNCHANGED <<inFlight, decodes>>
      <4>1. ~inFlight /\ inFlight' = TRUE /\ decodes' = decodes \cup
              {[take |-> take, from |-> offset, to |-> buffered, sent |-> FALSE]}
        BY <2>1, <3>2 DEF Fire, ShouldDecode
      <4>2. decodes = {}
        BY <4>1 DEF SingleFlight
      <4> QED BY <4>1, <4>2 DEF SingleFlight
    <3> QED BY <3>1, <3>2
  <2>2. ASSUME NEW decode \in decodes, Send(decode)
        PROVE  SingleFlight'
    <3>1. decodes = {decode} /\ inFlight
      BY DEF SingleFlight
    <3>2. decodes' = {[decode EXCEPT !.sent = TRUE]} /\ inFlight' = inFlight
      BY <2>2, <3>1 DEF Send
    <3> QED BY <3>1, <3>2 DEF SingleFlight
  <2>3. ASSUME NEW decode \in decodes, Land(decode)
        PROVE  SingleFlight'
    <3>1. decodes = {decode}
      BY DEF SingleFlight
    <3>2. decodes' = {} /\ inFlight' = FALSE
      BY <2>3, <3>1 DEF Land
    <3> QED BY <3>2 DEF SingleFlight
  <2>4. ASSUME UNCHANGED <<inFlight, decodes>>
        PROVE  SingleFlight'
    BY <2>4 DEF SingleFlight
  <2> QED BY <2>1, <2>2, <2>3, <2>4
          DEF Next, Begin, Record, EndTake, Discard, Finalize, Collect, Fold, Drained, vars
<1> QED BY <1>1, <1>2, PTL DEF Spec

-----------------------------------------------------------------------------
(* The outcomes on their way to being folded.                              *)
Outstanding == {channel[i] : i \in DOMAIN channel} \cup {batch[i] : i \in DOMAIN batch}

(* Only the end of a decode adds one.                                      *)
LEMMA OutstandingStep ==
  ASSUME TypeInv, [Next]_vars,
         \A decode \in decodes : ~Send(decode)
  PROVE  Outstanding' \subseteq Outstanding
<1>1. CASE Collect
  <2>1. batch' = channel /\ channel' = <<>>
    BY <1>1 DEF Collect
  <2>2. DOMAIN channel' = {}
    BY <2>1
  <2> QED BY <2>1, <2>2 DEF Outstanding
<1>2. CASE Fold
  <2>1. /\ batch \in Seq(Outcome) /\ batch # <<>>
        /\ batch' = Tail(batch) /\ channel' = channel
    BY <1>2 DEF Fold, TypeInv, StreamingTypeOK
  <2>2. \A i \in DOMAIN batch' : i + 1 \in DOMAIN batch /\ batch'[i] = batch[i + 1]
    <3>1. /\ Len(batch) \in Nat /\ DOMAIN batch = 1 .. Len(batch)
          /\ batch' \in Seq(Outcome) /\ Len(batch') = Len(batch) - 1
          /\ \A i \in 1 .. Len(batch') : batch'[i] = batch[i + 1]
      BY <2>1, HeadTailProperties, LenProperties
    <3>2. DOMAIN batch' = 1 .. Len(batch')
      BY <3>1, LenProperties
    <3> QED BY <3>1, <3>2
  <2> QED BY <2>1, <2>2 DEF Outstanding
<1>3. CASE Begin
  <2>1. channel' = <<>> /\ batch' = batch
    BY <1>3 DEF Begin
  <2>2. DOMAIN channel' = {}
    BY <2>1
  <2> QED BY <2>1, <2>2 DEF Outstanding
<1>4. ASSUME UNCHANGED <<channel, batch>>
      PROVE  Outstanding' \subseteq Outstanding
  BY <1>4 DEF Outstanding
<1> QED BY <1>1, <1>2, <1>3, <1>4
        DEF Next, Record, EndTake, Discard, Finalize, Drained, Fire, Land, vars

(* And it adds just the one.                                               *)
LEMMA OutstandingSend ==
  ASSUME TypeInv, NEW outcome \in Outcome, channel' = Append(channel, outcome),
         batch' = batch
  PROVE  Outstanding' \subseteq Outstanding \cup {outcome}
<1>1. channel \in Seq(Outcome)
  BY DEF TypeInv, StreamingTypeOK
<1>2. /\ DOMAIN channel' = 1 .. Len(channel) + 1
      /\ DOMAIN channel = 1 .. Len(channel)
      /\ \A i \in 1 .. Len(channel) : channel'[i] = channel[i]
      /\ channel'[Len(channel) + 1] = outcome
      /\ Len(channel) \in Nat
  BY <1>1
<1>3. ASSUME NEW i \in DOMAIN channel'
      PROVE  channel'[i] = outcome \/ \E j \in DOMAIN channel : channel'[i] = channel[j]
  BY <1>2
<1> QED BY <1>3 DEF Outstanding

(* Every outcome on its way is well cut.                                   *)
CutInv == \A outcome \in Outstanding : WellCut(outcome.hyp)

(* Every step keeps it.                                                    *)
LEMMA CutStep == TypeInv /\ CutInv /\ [Next]_vars => CutInv'
<1> SUFFICES ASSUME TypeInv, CutInv, [Next]_vars PROVE CutInv'
  OBVIOUS
<1>1. CASE \A decode \in decodes : ~Send(decode)
  <2>1. Outstanding' \subseteq Outstanding
    BY <1>1, OutstandingStep
  <2> QED BY <2>1 DEF CutInv
<1>2. ASSUME NEW decode \in decodes, Send(decode)
      PROVE  CutInv'
  <2>1. PICK outcome \in Outcome :
          channel' = Append(channel, outcome) /\ WellCut(outcome.hyp)
    BY <1>2, SendTypeOK
  <2>2. batch' = batch
    BY <1>2 DEF Send
  <2>3. Outstanding' \subseteq Outstanding \cup {outcome}
    BY <2>1, <2>2, OutstandingSend
  <2> QED BY <2>1, <2>3 DEF CutInv
<1> QED BY <1>1, <1>2

-----------------------------------------------------------------------------
(* A fold keeps the anchor's words at the head of both texts.              *)
LEMMA FoldAnchors == TypeInv /\ CutInv /\ AnchorOnCommitted /\ Fold => AnchorOnCommitted'
<1> SUFFICES ASSUME TypeInv, CutInv, AnchorOnCommitted, Fold PROVE AnchorOnCommitted'
  OBVIOUS
<1> DEFINE outcome == batch[1]
           text == outcome.hyp.text
<1>1. /\ batch \in Seq(Outcome) /\ batch # <<>> /\ Head(batch) = outcome
      /\ prefix \in Seq(Word) /\ committed \in Seq(Word) /\ previous \in Seq(Word)
      /\ IsPrefix(prefix, committed) /\ IsPrefix(prefix, previous)
  BY DEF Fold, TypeInv, StreamingTypeOK, AnchorOnCommitted
<1>2. outcome \in Outcome /\ text \in Seq(Word) /\ WellCut(outcome.hyp)
  <2>1. 1 \in 1 .. Len(batch) /\ 1 \in DOMAIN batch
    BY <1>1, EmptySeq, LenProperties
  <2>2. outcome \in Outcome
    BY <1>1, <2>1, ElementOfSeq
  <2>3. outcome \in Outstanding
    BY <2>1 DEF Outstanding
  <2> QED BY <2>2, <2>3 DEF CutInv, Outcome
<1>3. CASE ~outcome.decoded
  BY <1>1, <1>3 DEF Fold, viewVars, AnchorOnCommitted
<1>4. CASE outcome.decoded
  <2>1. Agree(prefix \o text) /\ Advance(outcome.hyp, outcome.from)
    BY <1>1, <1>4 DEF Fold
  <2> HIDE DEF text
  <2>2. /\ previous' = prefix \o text /\ previous' \in Seq(Word)
        /\ committed' \in Seq(Word)
        /\ \/ committed' = committed
           \/ \E n \in 0 .. Len(previous') :
                n > Len(committed) /\ committed' = SubSeq(previous', 1, n)
    BY <1>1, <1>4, <2>1, FoldSteps DEF TypeInv, text
  <2>3. /\ Len(prefix) \in Nat /\ Len(committed) \in Nat /\ Len(text) \in Nat
        /\ Len(committed') \in Nat
        /\ Len(previous') = Len(prefix) + Len(text)
        /\ \A i \in 1 .. Len(prefix) : previous'[i] = prefix[i]
        /\ \A i \in 1 .. Len(text) : previous'[Len(prefix) + i] = text[i]
    <3>1. Len(prefix) \in Nat /\ Len(committed) \in Nat /\ Len(text) \in Nat
          /\ Len(committed') \in Nat
      BY <1>1, <1>2, <2>2, LenProperties
    <3>2. /\ Len(prefix \o text) = Len(prefix) + Len(text)
          /\ \A i \in 1 .. Len(prefix) + Len(text) :
               (prefix \o text)[i] =
                 IF i <= Len(prefix) THEN prefix[i] ELSE text[i - Len(prefix)]
      BY <1>1, <1>2, ConcatProperties
    <3>3. ASSUME NEW i \in 1 .. Len(text)
          PROVE  previous'[Len(prefix) + i] = text[i]
      <4>1. /\ Len(prefix) + i \in 1 .. Len(prefix) + Len(text)
            /\ ~(Len(prefix) + i <= Len(prefix))
            /\ Len(prefix) + i - Len(prefix) = i
        BY <3>1
      <4> QED BY <2>2, <3>2, <4>1
    <3> QED BY <2>2, <3>1, <3>2, <3>3
  <2>4. /\ Len(prefix) <= Len(committed')
        /\ \A i \in 1 .. Len(prefix) : committed'[i] = prefix[i]
    <3>1. /\ Len(prefix) <= Len(committed)
          /\ \A i \in 1 .. Len(prefix) : committed[i] = prefix[i]
      BY <1>1, PrefixByElements
    <3>2. CASE committed' = committed
      BY <3>1, <3>2
    <3>3. ASSUME NEW n \in 0 .. Len(previous'),
                 n > Len(committed), committed' = SubSeq(previous', 1, n)
          PROVE  /\ Len(prefix) <= Len(committed')
                 /\ \A i \in 1 .. Len(prefix) : committed'[i] = prefix[i]
      <4>1. \A i \in 1 .. n : previous'[i] \in Word
        BY <2>2, <2>3, ElementOfSeq
      <4>2. 1 \in Int /\ n \in Int /\ n >= 1
        BY <2>3, <3>3
      <4>3. Len(committed') = n - 1 + 1
            /\ \A i \in 1 .. n - 1 + 1 : committed'[i] = previous'[1 + i - 1]
        BY <3>3, <4>1, <4>2, SubSeqProperties
      <4>4. Len(committed') = n /\ \A i \in 1 .. n : committed'[i] = previous'[i]
        <5>1. \A i \in 1 .. n : 1 + i - 1 = i /\ i \in 1 .. n - 1 + 1
          BY <4>2
        <5> QED BY <4>2, <4>3, <5>1
      <4> QED BY <2>3, <3>1, <3>3, <4>4
    <3> QED BY <2>2, <3>2, <3>3
  <2>5. CASE UNCHANGED <<offset, prefix, covered>>
    <3>1. IsPrefix(prefix, committed')
      BY <1>1, <2>2, <2>4, PrefixByElements
    <3>2. Len(prefix) <= Len(previous')
      BY <2>3
    <3>3. IsPrefix(prefix, previous')
      BY <1>1, <2>2, <2>3, <3>2, PrefixByElements
    <3> QED BY <2>5, <3>1, <3>3 DEF AnchorOnCommitted
  <2>6. CASE ~UNCHANGED <<offset, prefix, covered>>
    <3> DEFINE tail == SubSeq(committed', Len(prefix) + 1, Len(committed'))
    <3>1. /\ tail \in Seq(Word) /\ Len(tail) = Len(committed') - Len(prefix)
          /\ \A i \in 1 .. Len(tail) : tail[i] = committed'[Len(prefix) + i]
          /\ \E last \in DOMAIN outcome.hyp.segments :
               /\ Reaches(outcome.hyp, tail, last)
               /\ prefix' = prefix \o SubSeq(tail, 1, outcome.hyp.segments[last].words)
      BY <1>1, <1>4, <2>1, <2>6, FoldSteps DEF TypeInv, text
    <3> HIDE DEF tail
    <3>2. PICK last \in DOMAIN outcome.hyp.segments :
            /\ Reaches(outcome.hyp, tail, last)
            /\ prefix' = prefix \o SubSeq(tail, 1, outcome.hyp.segments[last].words)
      BY <3>1
    <3> DEFINE k == outcome.hyp.segments[last].words
    <3>3. k \in Nat
      <4>1. outcome.hyp.segments \in Seq(Segment)
        BY <1>2 DEF Outcome, Segment
      <4>2. outcome.hyp.segments[last] \in Segment
        BY <4>1, ElementOfSeq, LenProperties
      <4> QED BY <4>2, DecodeAssumption DEF Segment
    <3>4. k <= Len(tail) /\ SubSeq(text, 1, k) = SubSeq(tail, 1, k)
      BY <3>2 DEF Reaches, text
    <3>5. k <= Len(text)
      BY <1>2 DEF WellCut, text
    <3>6. prefix' = prefix \o SubSeq(tail, 1, k)
      BY <3>2
    <3> HIDE DEF k
    <3>7. /\ SubSeq(tail, 1, k) \in Seq(Word)
          /\ Len(SubSeq(tail, 1, k)) = k
          /\ \A i \in 1 .. k : SubSeq(tail, 1, k)[i] = tail[i]
          /\ \A i \in 1 .. k : SubSeq(text, 1, k)[i] = text[i]
      <4>1. Len(tail) \in Nat
        BY <3>1, LenProperties
      <4>2. /\ \A i \in 1 .. k : tail[i] \in Word /\ text[i] \in Word
            /\ 1 \in Int /\ k \in Int
        <5>1. \A i \in 1 .. k : i \in 1 .. Len(tail) /\ i \in 1 .. Len(text)
          BY <2>3, <3>3, <3>4, <3>5, <4>1
        <5>2. text \in Seq(Word)
          BY <1>2 DEF text
        <5>3. \A i \in 1 .. k : tail[i] \in Word
          BY <3>1, <5>1, ElementOfSeq
        <5>4. \A i \in 1 .. k : text[i] \in Word
          BY <5>1, <5>2, ElementOfSeq
        <5> QED BY <3>3, <5>3, <5>4
      <4>3. /\ SubSeq(tail, 1, k) \in Seq(Word)
            /\ Len(SubSeq(tail, 1, k)) = IF 1 <= k THEN k - 1 + 1 ELSE 0
            /\ \A i \in 1 .. k - 1 + 1 : SubSeq(tail, 1, k)[i] = tail[1 + i - 1]
        BY <4>2, SubSeqProperties
      <4>4. \A i \in 1 .. k - 1 + 1 : SubSeq(text, 1, k)[i] = text[1 + i - 1]
        BY <4>2, SubSeqProperties
      <4>5. \A i \in 1 .. k : 1 + i - 1 = i /\ i \in 1 .. k - 1 + 1
        BY <3>3
      <4>6. (IF 1 <= k THEN k - 1 + 1 ELSE 0) = k
        BY <3>3
      <4> QED BY <4>3, <4>4, <4>5, <4>6
    <3>8. /\ prefix' \in Seq(Word) /\ Len(prefix') = Len(prefix) + k
          /\ \A i \in 1 .. Len(prefix) + k :
               prefix'[i] = IF i <= Len(prefix) THEN prefix[i]
                                                ELSE SubSeq(tail, 1, k)[i - Len(prefix)]
      <4> DEFINE passed == SubSeq(tail, 1, k)
      <4>1. passed \in Seq(Word) /\ Len(passed) = k
        BY <3>7
      <4> HIDE DEF passed
      <4>2. /\ prefix \o passed \in Seq(Word)
            /\ Len(prefix \o passed) = Len(prefix) + Len(passed)
            /\ \A i \in 1 .. Len(prefix) + Len(passed) :
                 (prefix \o passed)[i] = IF i <= Len(prefix) THEN prefix[i]
                                                            ELSE passed[i - Len(prefix)]
        BY <1>1, <4>1, ConcatProperties
      <4>3. prefix' = prefix \o passed
        BY <3>6 DEF passed
      <4> QED BY <4>1, <4>2, <4>3 DEF passed
    <3>9. Len(prefix') <= Len(committed') /\ Len(prefix') <= Len(previous')
      <4>1. Len(prefix') = Len(prefix) + k /\ Len(tail) = Len(committed') - Len(prefix)
        BY <3>1, <3>8
      <4> QED BY <2>3, <3>3, <3>4, <3>5, <4>1
    <3>10. ASSUME NEW i \in 1 .. Len(prefix')
           PROVE  prefix'[i] = committed'[i] /\ prefix'[i] = previous'[i]
      <4>1. i \in 1 .. Len(prefix) + k
        BY <3>8
      <4>2. CASE i <= Len(prefix)
        BY <2>3, <2>4, <3>8, <4>1, <4>2
      <4>3. CASE ~(i <= Len(prefix))
        <5> DEFINE j == i - Len(prefix)
        <5>1. j \in 1 .. k /\ Len(prefix) + j = i
          BY <2>3, <3>3, <4>1, <4>3
        <5>2. prefix'[i] = SubSeq(tail, 1, k)[j]
          BY <3>8, <4>1, <4>3
        <5> HIDE DEF j
        <5>3. prefix'[i] = tail[j] /\ prefix'[i] = text[j]
          BY <3>4, <3>7, <5>1, <5>2
        <5>4. j \in 1 .. Len(tail) /\ j \in 1 .. Len(text)
          <6>1. Len(tail) \in Nat
            BY <3>1, LenProperties
          <6> QED BY <2>3, <3>3, <3>4, <3>5, <5>1, <6>1
        <5> QED BY <2>3, <3>1, <5>1, <5>3, <5>4
      <4> QED BY <4>2, <4>3
    <3>11. IsPrefix(prefix', committed') /\ IsPrefix(prefix', previous')
      BY <2>2, <3>8, <3>9, <3>10, PrefixByElements
    <3> QED BY <3>11 DEF AnchorOnCommitted
  <2> QED BY <2>5, <2>6
<1> QED BY <1>3, <1>4

(* While a take runs the words before the window are committed, and head   *)
(* every hypothesis: what the decodes say, and in which order it comes     *)
(* back, cannot set the anchor on words that are not.                      *)
THEOREM AnchorStaysOnCommitted == Spec => []AnchorOnCommitted
<1>1. Init => TypeInv /\ CutInv /\ AnchorOnCommitted
  BY TypeInit DEF Init, CutInv, Outstanding, AnchorOnCommitted
<1>2. TypeInv /\ CutInv /\ AnchorOnCommitted /\ [Next]_vars => AnchorOnCommitted'
  <2> SUFFICES ASSUME TypeInv, CutInv, AnchorOnCommitted, [Next]_vars
               PROVE  AnchorOnCommitted'
    OBVIOUS
  <2>1. CASE Fold
    BY <2>1, FoldAnchors
  <2>2. CASE Begin
    <3>1. prefix' = <<>> /\ committed' = <<>> /\ previous' = <<>>
      BY <2>2 DEF Begin
    <3>2. <<>> \in Seq(Word) /\ Len(<<>>) = 0
      BY EmptySeq
    <3>3. IsPrefix(<<>>, <<>>)
      <4>1. Len(<<>>) <= Len(<<>>) /\ \A i \in 1 .. Len(<<>>) : <<>>[i] = <<>>[i]
        BY <3>2
      <4> QED BY <3>2, <4>1, PrefixByElements
    <3> QED BY <3>1, <3>3 DEF AnchorOnCommitted
  <2>3. ASSUME pc' = "idle"
        PROVE  AnchorOnCommitted'
    BY <2>3 DEF AnchorOnCommitted
  <2>4. ASSUME pc = "idle" => pc' = "idle", UNCHANGED viewVars
        PROVE  AnchorOnCommitted'
    BY <2>4 DEF AnchorOnCommitted, viewVars
  <2> QED BY <2>1, <2>2, <2>3, <2>4
          DEF Next, Record, EndTake, Discard, Finalize, Collect, Drained, Fire, Send, Land,
              vars, viewVars
<1> QED BY <1>1, <1>2, TypeStep, CutStep, PTL DEF Spec

-----------------------------------------------------------------------------
(* An outcome of this take, over the window as it is.                      *)
InWindow(outcome) ==
  /\ outcome.take = take /\ outcome.from = offset
  /\ \A i \in DOMAIN outcome.hyp.segments :
       offset + outcome.hyp.segments[i].end <= buffered

(* Why the window is right without a race: one decode's worth of results   *)
(* is in the air, still with the decode, in the channel or in the batch,   *)
(* and it was taken over the window as it is.                              *)
Calm ==
  /\ Len(batch) + Len(channel) <= 1
  /\ (\E decode \in decodes : ~decode.sent) => batch = <<>> /\ channel = <<>>
  /\ \A decode \in decodes :
       ~decode.sent => decode.take = take /\ decode.from = offset /\ decode.to <= buffered
  /\ \A outcome \in Outstanding : InWindow(outcome)
  /\ offset = covered /\ offset <= buffered

CalmInv == (pc # "draining" => batch = <<>>) /\ (~raced => Calm)

(* Without a race, folding leaves nothing to fold.                         *)
LEMMA CalmFold == TypeInv /\ CalmInv /\ Fold => CalmInv'
<1> SUFFICES ASSUME TypeInv, CalmInv, Fold, ~raced PROVE CalmInv'
  BY DEF CalmInv, Fold
<1> DEFINE outcome == batch[1]
<1>1. /\ batch \in Seq(Outcome) /\ batch # <<>> /\ batch' = Tail(batch)
      /\ Head(batch) = outcome /\ channel \in Seq(Outcome) /\ channel' = channel
      /\ pc = "draining" /\ pc' = pc /\ decodes' = decodes /\ take' = take
      /\ buffered' = buffered /\ Calm
      /\ offset \in Nat /\ covered \in Nat /\ buffered \in Nat
  BY AudioAssumption DEF Fold, TypeInv, StreamingTypeOK, CalmInv, audioVars, taskVars
<1>2. batch' = <<>> /\ channel = <<>> /\ outcome \in Outstanding /\ outcome \in Outcome
  <2>1. Len(batch) \in Nat /\ Len(batch) >= 1 /\ Len(channel) \in Nat
    <3>1. Len(batch) \in Nat \ {0}
      BY <1>1, EmptySeq
    <3>2. Len(channel) \in Nat
      BY <1>1, LenProperties
    <3> QED BY <3>1, <3>2
  <2>2. Len(batch) = 1 /\ Len(channel) = 0
    <3> DEFINE m == Len(batch)
               n == Len(channel)
    <3>1. m + n <= 1 /\ m \in Nat /\ m >= 1 /\ n \in Nat
      BY <1>1, <2>1 DEF Calm
    <3> HIDE DEF m, n
    <3>2. m = 1 /\ n = 0
      BY <3>1
    <3> QED BY <3>2 DEF m, n
  <2>3. batch' \in Seq(Outcome) /\ Len(batch') = 0
    BY <1>1, <2>2, HeadTailProperties
  <2>4. 1 \in 1 .. Len(batch) /\ 1 \in DOMAIN batch
    BY <1>1, <2>1, LenProperties
  <2>5. outcome \in Outstanding /\ outcome \in Outcome
    BY <1>1, <2>4, ElementOfSeq DEF Outstanding
  <2>6. batch' = <<>> /\ channel = <<>>
    BY <1>1, <2>2, <2>3, EmptySeq
  <2> QED BY <2>5, <2>6
<1>3. \A decode \in decodes : decode.sent
  BY <1>1 DEF Calm
<1>4. offset' = covered' /\ offset' <= buffered'
  <2>1. offset = covered /\ offset <= buffered
    BY <1>1 DEF Calm
  <2>2. CASE UNCHANGED <<offset, covered>>
    BY <1>1, <2>1, <2>2
  <2>3. CASE ~UNCHANGED <<offset, covered>>
    <3>1. outcome.decoded
      BY <1>1, <2>3 DEF Fold, viewVars
    <3>2. Agree(prefix \o outcome.hyp.text) /\ Advance(outcome.hyp, outcome.from)
      BY <1>1, <3>1 DEF Fold
    <3>3. \E last \in DOMAIN outcome.hyp.segments :
            /\ offset' = offset + outcome.hyp.segments[last].end
            /\ covered' = outcome.from + outcome.hyp.segments[last].end
      BY <1>1, <2>3, <3>1, <3>2, FoldSteps DEF TypeInv
    <3> HIDE DEF outcome
    <3>4. PICK last \in DOMAIN outcome.hyp.segments :
            /\ offset' = offset + outcome.hyp.segments[last].end
            /\ covered' = outcome.from + outcome.hyp.segments[last].end
      BY <3>3
    <3>5. /\ outcome.from = offset
          /\ offset + outcome.hyp.segments[last].end <= buffered
      BY <1>1, <1>2 DEF Calm, InWindow
    <3> QED BY <1>1, <3>4, <3>5
  <2> QED BY <2>2, <2>3
<1>5. Outstanding' = {}
  <2>1. batch' = <<>> /\ channel' = <<>>
    BY <1>1, <1>2
  <2>2. DOMAIN batch' = {} /\ DOMAIN channel' = {}
    BY <2>1
  <2> QED BY <2>2 DEF Outstanding
<1>6. Len(batch') + Len(channel') <= 1
  <2>1. batch' = <<>> /\ channel' = <<>> /\ Len(<<>>) = 0
    BY <1>1, <1>2
  <2> QED BY <2>1
<1> QED BY <1>1, <1>2, <1>3, <1>4, <1>5, <1>6 DEF CalmInv, Calm

(* The queueing of an outcome passes it from its decode to the channel.    *)
LEMMA CalmSend ==
  ASSUME TypeInv, SingleFlight, CalmInv, NEW decode \in decodes, Send(decode)
  PROVE  CalmInv'
<1> SUFFICES ASSUME ~raced PROVE CalmInv'
  BY DEF CalmInv, Send, historyVars
<1>1. /\ ~decode.sent /\ Calm /\ batch = <<>> /\ channel = <<>>
      /\ decode.take = take /\ decode.from = offset /\ decode.to <= buffered
      /\ decodes = {decode}
  BY DEF Send, CalmInv, Calm, SingleFlight
<1>2. /\ decode.to \in Nat /\ offset \in Nat /\ buffered \in Nat
  BY AudioAssumption DEF TypeInv, StreamingTypeOK
<1>3. PICK outcome \in Outcome :
        /\ channel' = Append(channel, outcome)
        /\ outcome.take = decode.take /\ outcome.from = decode.from
        /\ \A i \in DOMAIN outcome.hyp.segments :
             outcome.hyp.segments[i].end \in 1 .. decode.to - decode.from
  BY SendTypeOK
<1>4. UNCHANGED <<pc, take, buffered, batch, offset, covered, raced>>
  BY DEF Send, audioVars, viewVars, historyVars
<1>5. decodes' = {[decode EXCEPT !.sent = TRUE]}
  BY <1>1 DEF Send
<1>6. [decode EXCEPT !.sent = TRUE].sent
  BY DEF TypeInv, StreamingTypeOK
<1>7. Outstanding = {}
  <2>1. DOMAIN batch = {} /\ DOMAIN channel = {}
    BY <1>1
  <2> QED BY <2>1 DEF Outstanding
<1>8. Outstanding' \subseteq {outcome}
  BY <1>3, <1>4, <1>7, OutstandingSend
<1>9. \A other \in Outstanding' : InWindow(other)'
  <2>1. outcome.take = take /\ outcome.from = offset
    BY <1>1, <1>3
  <2>2. ASSUME NEW i \in DOMAIN outcome.hyp.segments
        PROVE  offset + outcome.hyp.segments[i].end <= buffered
    <3> DEFINE end == outcome.hyp.segments[i].end
    <3>1. end \in 1 .. decode.to - offset
      BY <1>1, <1>3
    <3> HIDE DEF end
    <3>2. offset + end <= buffered
      BY <1>1, <1>2, <3>1
    <3> QED BY <3>2 DEF end
  <2> QED BY <1>4, <1>8, <2>1, <2>2 DEF InWindow
<1>10. Len(batch') + Len(channel') <= 1
  <2>1. Len(channel') = 1 /\ Len(batch') = 0
    BY <1>1, <1>3, <1>4
  <2> QED BY <2>1
<1>11. (offset = covered /\ offset <= buffered)'
  BY <1>1, <1>4 DEF Calm
<1> QED BY <1>1, <1>4, <1>5, <1>6, <1>9, <1>10, <1>11 DEF CalmInv, Calm

(* A timer that fires keeps it.                                            *)
LEMMA CalmFire == TypeInv /\ SingleFlight /\ CalmInv /\ Fire => CalmInv'
<1> SUFFICES ASSUME TypeInv, SingleFlight, CalmInv, Fire PROVE CalmInv'
  OBVIOUS
<1>1. /\ pc = "firing" /\ batch = <<>> /\ batch' = batch /\ channel' = channel
      /\ UNCHANGED <<take, buffered, offset, covered>>
  BY DEF Fire, CalmInv, audioVars, viewVars
<1>2. CASE UNCHANGED <<decodes, raced>>
  BY <1>1, <1>2 DEF CalmInv, Calm, Outstanding, InWindow
<1>3. CASE ~UNCHANGED <<decodes, raced>>
  <2> DEFINE new == [take |-> take, from |-> offset, to |-> buffered, sent |-> FALSE]
  <2>1. /\ ~inFlight
        /\ decodes' = decodes \cup {new}
        /\ raced' = (raced \/ channel # <<>>)
    BY <1>3 DEF Fire, ShouldDecode, taskVars
  <2>2. decodes' = {new}
    BY <2>1 DEF SingleFlight
  <2>3. SUFFICES ASSUME ~raced' PROVE Calm'
    BY <1>1 DEF CalmInv
  <2>4. ~raced /\ channel = <<>> /\ Calm
    BY <2>1, <2>3 DEF CalmInv
  <2>5. /\ new.take = take' /\ new.from = offset' /\ new.to = buffered'
        /\ buffered' \in Nat
    BY <1>1, AudioAssumption DEF TypeInv, StreamingTypeOK
  <2>6. \A decode \in decodes' :
          decode.take = take' /\ decode.from = offset' /\ decode.to <= buffered'
    BY <2>2, <2>5
  <2>7. Outstanding' = Outstanding /\ \A outcome \in Outstanding' : InWindow(outcome)'
    BY <1>1, <2>4 DEF Calm, Outstanding, InWindow
  <2>8. (offset = covered /\ offset <= buffered)' /\ Len(batch') + Len(channel') <= 1
    BY <1>1, <2>4 DEF Calm
  <2>9. batch' = <<>> /\ channel' = <<>>
    BY <1>1, <2>4
  <2> HIDE DEF new
  <2> QED BY <2>6, <2>7, <2>8, <2>9 DEF Calm
<1> QED BY <1>2, <1>3

(* So does every other step.                                               *)
LEMMA CalmStep == TypeInv /\ SingleFlight /\ CalmInv /\ [Next]_vars => CalmInv'
<1> SUFFICES ASSUME TypeInv, SingleFlight, CalmInv, [Next]_vars PROVE CalmInv'
  OBVIOUS
<1> USE DEF audioVars, viewVars, taskVars, historyVars
<1>1. CASE Begin
  <2>1. /\ batch' = <<>> /\ channel' = <<>> /\ decodes' = decodes
        /\ raced' = \E decode \in decodes : ~decode.sent
        /\ offset' = 0 /\ covered' = 0 /\ buffered' = 0
    BY <1>1 DEF Begin, CalmInv
  <2>2. SUFFICES ASSUME ~raced' PROVE Calm'
    BY <2>1 DEF CalmInv
  <2>3. \A decode \in decodes' : decode.sent
    BY <2>1, <2>2
  <2>4. DOMAIN batch' = {} /\ DOMAIN channel' = {} /\ Len(batch') + Len(channel') = 0
    BY <2>1
  <2>5. Outstanding' = {}
    BY <2>4 DEF Outstanding
  <2> QED BY <2>1, <2>3, <2>4, <2>5 DEF Calm
<1>2. CASE Record
  <2>1. /\ buffered' = buffered + 1
        /\ UNCHANGED <<pc, take, offset, covered, decodes, channel, batch, raced>>
    BY <1>2 DEF Record
  <2>2. offset \in Nat /\ buffered \in Nat
    BY AudioAssumption DEF TypeInv, StreamingTypeOK
  <2>3. SUFFICES ASSUME ~raced PROVE Calm'
    BY <2>1 DEF CalmInv
  <2>4. Calm
    BY <2>3 DEF CalmInv
  <2>5. ASSUME NEW decode \in decodes, ~decode.sent
        PROVE  decode.to <= buffered'
    <3>1. decode.to \in Nat
      BY AudioAssumption DEF TypeInv, StreamingTypeOK
    <3> QED BY <2>1, <2>2, <2>4, <2>5, <3>1 DEF Calm
  <2>6. Outstanding' = Outstanding
    BY <2>1 DEF Outstanding
  <2>7. ASSUME NEW outcome \in Outstanding
        PROVE  InWindow(outcome)'
    <3>1. InWindow(outcome) /\ outcome \in Outcome
      <4>1. channel \in Seq(Outcome) /\ batch \in Seq(Outcome)
        BY DEF TypeInv, StreamingTypeOK
      <4> QED BY <2>4, <4>1, ElementOfSeq, LenProperties DEF Calm, Outstanding
    <3>2. ASSUME NEW i \in DOMAIN outcome.hyp.segments
          PROVE  offset + outcome.hyp.segments[i].end <= buffered + 1
      <4> DEFINE end == outcome.hyp.segments[i].end
      <4>1. end \in Nat
        <5>1. outcome.hyp.segments \in Seq(Segment)
          BY <3>1 DEF Outcome, Segment
        <5>2. outcome.hyp.segments[i] \in Segment
          BY <5>1, ElementOfSeq, LenProperties
        <5> QED BY <5>2, AudioAssumption DEF Segment
      <4>2. offset + end <= buffered
        BY <3>1 DEF InWindow
      <4> HIDE DEF end
      <4>3. offset + end <= buffered + 1
        BY <2>2, <4>1, <4>2
      <4> QED BY <4>3 DEF end
    <3> QED BY <2>1, <3>1, <3>2 DEF InWindow
  <2>8. offset <= buffered'
    BY <2>1, <2>2, <2>4 DEF Calm
  <2> QED BY <2>1, <2>4, <2>5, <2>6, <2>7, <2>8 DEF Calm
<1>3. CASE Collect
  <2>1. /\ pc' = "draining" /\ batch' = channel /\ channel' = <<>> /\ batch = <<>>
        /\ UNCHANGED <<take, buffered, offset, covered, decodes, raced>>
    BY <1>3 DEF Collect, CalmInv
  <2>2. SUFFICES ASSUME ~raced PROVE Calm'
    BY <2>1 DEF CalmInv
  <2>3. Calm
    BY <2>2 DEF CalmInv
  <2>4. Outstanding' \subseteq Outstanding
    <3>1. \A decode \in decodes : ~Send(decode)
      BY <1>3 DEF Collect, Send
    <3> QED BY <3>1, OutstandingStep
  <2>5. Len(batch') + Len(channel') <= 1
    <3>1. Len(<<>>) = 0 /\ Len(channel) \in Nat
      BY LenProperties DEF TypeInv, StreamingTypeOK
    <3>2. Len(batch) + Len(channel) <= 1
      BY <2>3 DEF Calm
    <3> QED BY <2>1, <3>1, <3>2
  <2>6. (\E decode \in decodes' : ~decode.sent) => batch' = <<>> /\ channel' = <<>>
    BY <2>1, <2>3 DEF Calm
  <2>7. \A outcome \in Outstanding' : InWindow(outcome)'
    BY <2>1, <2>3, <2>4 DEF Calm, InWindow
  <2> QED BY <2>1, <2>3, <2>5, <2>6, <2>7 DEF Calm
<1>4. ASSUME NEW decode \in decodes, Land(decode)
      PROVE  CalmInv'
  <2>1. /\ decodes' \subseteq decodes
        /\ UNCHANGED <<pc, take, buffered, offset, covered, channel, batch, raced>>
    BY <1>4 DEF Land
  <2> QED BY <2>1 DEF CalmInv, Calm, Outstanding, InWindow
<1>5. ASSUME pc' = "draining" => pc = "draining" \/ batch = <<>>,
             pc = "draining" /\ pc' # "draining" => batch = <<>>,
             UNCHANGED <<take, buffered, offset, covered, decodes, channel, batch, raced>>
      PROVE  CalmInv'
  BY <1>5 DEF CalmInv, Calm, Outstanding, InWindow
<1>6. CASE Fire
  BY <1>6, CalmFire
<1>7. CASE Fold
  BY <1>7, CalmFold
<1>8. ASSUME NEW decode \in decodes, Send(decode)
      PROVE  CalmInv'
  BY <1>8, CalmSend
<1>9. CASE EndTake \/ Discard \/ Drained
  BY <1>5, <1>9 DEF EndTake, Discard, Drained
<1>10. ASSUME NEW text \in Text, Finalize(text)
       PROVE  CalmInv'
  BY <1>5, <1>10 DEF Finalize
<1>11. CASE UNCHANGED vars
  BY <1>5, <1>11 DEF vars
<1> QED BY <1>1, <1>2, <1>3, <1>4, <1>6, <1>7, <1>8, <1>9, <1>10, <1>11 DEF Next

(* Outside of the two races the window is right: it starts where the       *)
(* audio of the committed words before it ends, lies within what was       *)
(* recorded, and only outcomes of this take are folded.                    *)
THEOREM WindowIsRightUnlessRaced == Spec => []UnracedWindow
<1>1. Init => CalmInv
  <2> SUFFICES ASSUME Init PROVE CalmInv
    OBVIOUS
  <2>1. /\ batch = <<>> /\ channel = <<>> /\ decodes = {} /\ offset = 0 /\ covered = 0
        /\ buffered = 0
    BY DEF Init
  <2>2. DOMAIN batch = {} /\ DOMAIN channel = {} /\ Len(batch) + Len(channel) = 0
    BY <2>1
  <2>3. Outstanding = {}
    BY <2>2 DEF Outstanding
  <2> QED BY <2>1, <2>2, <2>3 DEF CalmInv, Calm
<1>2. CalmInv => UnracedWindow
  BY DEF CalmInv, Calm, Outstanding, InWindow, UnracedWindow
<1>3. Spec => []SingleFlight
  BY OneDecodeAtATime
<1> QED BY <1>1, <1>2, <1>3, TypeInit, TypeStep, CalmStep, PTL DEF Spec
=============================================================================
