------------------------- MODULE ApprovalQueueProofs ------------------------
(***************************************************************************)
(* Proofs about the approval queue, for every ArmDelay, Timeout and        *)
(* MaxRequests: its types, its invariant, and that it implements the       *)
(* contract.                                                               *)
(***************************************************************************)
EXTENDS ApprovalQueue, SequenceTheorems, TLAPS

(* What removing the element at position i leaves.                         *)
LEMMA RemoveAtProperties ==
  ASSUME NEW S, NEW s \in Seq(S), NEW i \in 1 .. Len(s)
  PROVE  /\ RemoveAt(s, i) \in Seq(S)
         /\ Len(RemoveAt(s, i)) = Len(s) - 1
         /\ \A j \in 1 .. Len(s) - 1 :
              RemoveAt(s, i)[j] = IF j < i THEN s[j] ELSE s[j + 1]
<1> DEFINE before == SubSeq(s, 1, i - 1)
           after == SubSeq(s, i + 1, Len(s))
<1>1. Len(s) \in Nat /\ \A j \in 1 .. Len(s) : s[j] \in S
  BY ElementOfSeq, LenProperties
<1>2. /\ before \in Seq(S)
      /\ Len(before) = i - 1
      /\ \A j \in 1 .. i - 1 : before[j] = s[j]
  <2>1. \A j \in 1 .. i - 1 : s[j] \in S
    BY <1>1
  <2>2. 1 \in Int /\ i - 1 \in Int
    BY <1>1
  <2> HIDE DEF before
  <2>3. /\ SubSeq(s, 1, i - 1) \in Seq(S)
        /\ Len(SubSeq(s, 1, i - 1)) = IF 1 <= i - 1 THEN i - 1 - 1 + 1 ELSE 0
        /\ \A j \in 1 .. i - 1 - 1 + 1 : SubSeq(s, 1, i - 1)[j] = s[1 + j - 1]
    BY <2>1, <2>2, SubSeqProperties
  <2>4. \A j \in 1 .. i - 1 : 1 + j - 1 = j /\ j \in 1 .. i - 1 - 1 + 1
    BY <1>1
  <2>5. (IF 1 <= i - 1 THEN i - 1 - 1 + 1 ELSE 0) = i - 1
    BY <1>1
  <2> QED BY <2>3, <2>4, <2>5 DEF before
<1>3. /\ after \in Seq(S)
      /\ Len(after) = Len(s) - i
      /\ \A j \in 1 .. Len(s) - i : after[j] = s[i + j]
  <2>1. \A j \in i + 1 .. Len(s) : s[j] \in S
    BY <1>1
  <2>2. i + 1 \in Int /\ Len(s) \in Int
    BY <1>1
  <2> HIDE DEF after
  <2>3. /\ SubSeq(s, i + 1, Len(s)) \in Seq(S)
        /\ Len(SubSeq(s, i + 1, Len(s)))
             = IF i + 1 <= Len(s) THEN Len(s) - (i + 1) + 1 ELSE 0
        /\ \A j \in 1 .. Len(s) - (i + 1) + 1 :
             SubSeq(s, i + 1, Len(s))[j] = s[i + 1 + j - 1]
    BY <2>1, <2>2, SubSeqProperties
  <2>4. \A j \in 1 .. Len(s) - i :
          i + 1 + j - 1 = i + j /\ j \in 1 .. Len(s) - (i + 1) + 1
    BY <1>1
  <2>5. (IF i + 1 <= Len(s) THEN Len(s) - (i + 1) + 1 ELSE 0) = Len(s) - i
    BY <1>1
  <2> QED BY <2>3, <2>4, <2>5 DEF after
<1>4. RemoveAt(s, i) = before \o after
  BY DEF RemoveAt
<1> HIDE DEF before, after
<1>5. /\ before \o after \in Seq(S)
      /\ Len(before \o after) = Len(before) + Len(after)
      /\ \A j \in 1 .. Len(before) + Len(after) :
           (before \o after)[j] =
             IF j <= Len(before) THEN before[j] ELSE after[j - Len(before)]
  BY <1>2, <1>3, ConcatProperties
<1>6. Len(before) + Len(after) = Len(s) - 1
  BY <1>1, <1>2, <1>3
<1>7. ASSUME NEW j \in 1 .. Len(s) - 1
      PROVE  (before \o after)[j] = IF j < i THEN s[j] ELSE s[j + 1]
  <2>1. CASE j < i
    BY <1>1, <1>2, <1>5, <1>6, <2>1
  <2>2. CASE ~(j < i)
    <3>1. j - (i - 1) \in 1 .. Len(s) - i /\ i + (j - (i - 1)) = j + 1
      BY <1>1, <2>2
    <3>2. (before \o after)[j] = after[j - (i - 1)]
      BY <1>1, <1>2, <1>5, <1>6, <2>2
    <3> QED BY <1>3, <2>2, <3>1, <3>2
  <2> QED BY <2>1, <2>2
<1> QED BY <1>4, <1>5, <1>6, <1>7

-----------------------------------------------------------------------------
(* What a removal does to the queue: the others keep their order, their    *)
(* ids and their arming, and only the front's shown can change, from       *)
(* NotShown to 0.                                                          *)
LEMMA TakeKeepsTheOthers ==
  ASSUME QueueTypeOK, NEW i \in DOMAIN entries, NEW how, Take(i, how)
  PROVE  /\ entries' \in Seq(Entry)
         /\ Len(entries') = Len(entries) - 1
         /\ \A j \in 1 .. Len(entries) - 1 :
              LET old == IF j < i THEN entries[j] ELSE entries[j + 1]
              IN  /\ entries'[j].id = old.id
                  /\ entries'[j].armed = old.armed
                  /\ entries'[j].shown =
                       IF j = 1 /\ old.shown = NotShown THEN 0 ELSE old.shown
<1> DEFINE rest == RemoveAt(entries, i)
<1>1. /\ entries \in Seq(Entry)
      /\ i \in 1 .. Len(entries)
      /\ Len(entries) \in Nat
  BY LenProperties DEF QueueTypeOK
<1>2. /\ rest \in Seq(Entry)
      /\ Len(rest) = Len(entries) - 1
      /\ \A j \in 1 .. Len(entries) - 1 :
           rest[j] = IF j < i THEN entries[j] ELSE entries[j + 1]
  BY <1>1, RemoveAtProperties
<1>3. entries' = ShowFront(rest)
  BY DEF Take
<1> HIDE DEF rest
<1>4. CASE rest # <<>> /\ rest[1].shown = NotShown
  <2>1. 1 \in 1 .. Len(rest) /\ rest[1] \in Entry
    BY <1>2, <1>4, EmptySeq, ElementOfSeq
  <2>2. entries' = [rest EXCEPT ![1] = [rest[1] EXCEPT !.shown = 0]]
    BY <1>3, <1>4 DEF ShowFront
  <2>3. [rest[1] EXCEPT !.shown = 0] \in Entry
    BY <2>1, DelayAssumption DEF Entry
  <2>4. /\ entries' \in Seq(Entry)
        /\ Len(entries') = Len(rest)
        /\ \A j \in 1 .. Len(rest) :
             entries'[j] = IF j = 1 THEN [rest[1] EXCEPT !.shown = 0] ELSE rest[j]
    BY <1>2, <2>1, <2>2, <2>3, ExceptSeq
  <2>5. \A j \in 1 .. Len(rest) : rest[j] \in Entry
    BY <1>2, ElementOfSeq
  <2> QED BY <1>1, <1>2, <1>4, <2>1, <2>4, <2>5 DEF Entry
<1>5. CASE rest = <<>> \/ rest[1].shown # NotShown
  <2>1. entries' = rest
    BY <1>3, <1>5 DEF ShowFront
  <2>2. \A j \in 1 .. Len(rest) : j = 1 => rest[j].shown # NotShown
    BY <1>2, <1>5, EmptySeq
  <2> QED BY <1>1, <1>2, <2>1, <2>2
<1> QED BY <1>4, <1>5

(* Types are preserved by a removal.                                       *)
LEMMA TakeTypeOK ==
  ASSUME QueueTypeOK, OldestFirst,
         NEW i \in DOMAIN entries, NEW how \in Fate, Take(i, how)
  PROVE  QueueTypeOK'
<1>1. entries' \in Seq(Entry)
  BY TakeKeepsTheOthers
<1>2. fate' \in Seq(Fate) /\ Len(fate') = Len(fate)
  <2>1. entries[i].id \in 1 .. Len(fate)
    <3>1. entries[i] \in Entry
      BY ElementOfSeq, LenProperties DEF QueueTypeOK
    <3> QED BY <3>1, BoundAssumption DEF QueueTypeOK, OldestFirst, Entry, Id
  <2> QED BY <2>1, ExceptSeq DEF Take, QueueTypeOK
<1> QED BY <1>1, <1>2 DEF Take, QueueTypeOK

(* Every step keeps the types.                                             *)
LEMMA StepTypeOK ==
  ASSUME QueueTypeOK, OldestFirst, [QueueNext]_queueVars
  PROVE  QueueTypeOK'
<1> USE DelayAssumption, BoundAssumption
<1>0. entries \in Seq(Entry) /\ \A i \in DOMAIN entries : entries[i] \in Entry
  BY ElementOfSeq, LenProperties DEF QueueTypeOK
<1>1. CASE Push
  <2>1. [id |-> nextId, shown |-> IF entries = <<>> THEN 0 ELSE NotShown,
         armed |-> FALSE] \in Entry
    BY <1>1 DEF Push, Entry, Id, QueueTypeOK
  <2>2. entries' \in Seq(Entry)
    BY <1>1, <2>1 DEF Push, QueueTypeOK
  <2>3. fate' \in Seq(Fate) /\ Len(fate') = Len(fate) + 1
    BY <1>1 DEF Push, QueueTypeOK, Fate
  <2> QED BY <1>1, <2>2, <2>3 DEF Push, QueueTypeOK
<1>2. ASSUME NEW id \in Id, Arm(id)
      PROVE  QueueTypeOK'
  <2>1. 1 \in 1 .. Len(entries)
    BY <1>0, <1>2, EmptySeq DEF Arm, IsShown
  <2>2. [entries[1] EXCEPT !.armed = TRUE] \in Entry
    BY <1>0, <2>1, LenProperties DEF Entry
  <2>3. entries' = [entries EXCEPT ![1] = [entries[1] EXCEPT !.armed = TRUE]]
    BY <1>2 DEF Arm
  <2>4. entries' \in Seq(Entry)
    BY <1>0, <2>1, <2>2, <2>3, ExceptSeq
  <2> QED BY <1>2, <2>4 DEF Arm, QueueTypeOK
<1>3. ASSUME NEW id \in Id, NEW decision \in {"allow", "deny"},
             Answer(id, decision)
      PROVE  QueueTypeOK'
  BY <1>3, TakeTypeOK DEF Answer, Fate
<1>4. CASE Expire
  <2>1. 1 \in DOMAIN entries
    BY <1>0, <1>4, EmptySeq, LenProperties DEF Expire, IsDue
  <2> QED BY <1>4, <2>1, TakeTypeOK DEF Expire, Fate
<1>5. ASSUME NEW id \in Id, Withdraw(id)
      PROVE  QueueTypeOK'
  BY <1>5, TakeTypeOK DEF Withdraw, Fate
<1>6. CASE Tick
  <2>1. \A i \in DOMAIN entries :
          [entries[i] EXCEPT !.shown = Age(entries[i].shown)] \in Entry
    BY <1>0 DEF Entry, Age, NotShown
  <2>2. DOMAIN entries = 1 .. Len(entries) /\ Len(entries) \in Nat
    BY <1>0, LenProperties
  <2>3. entries' \in Seq(Entry)
    BY <1>6, <2>1, <2>2, IsASeq DEF Tick
  <2> QED BY <1>6, <2>3 DEF Tick, QueueTypeOK
<1>7. CASE UNCHANGED queueVars
  BY <1>7 DEF queueVars, QueueTypeOK
<1> QED BY <1>1, <1>2, <1>3, <1>4, <1>5, <1>6, <1>7 DEF QueueNext

-----------------------------------------------------------------------------
(* A removal keeps the queue's invariant.                                  *)
LEMMA TakeInv ==
  ASSUME QueueTypeOK, QueueInv,
         NEW i \in DOMAIN entries, NEW how \in Fate \ {"pending"}, Take(i, how)
  PROVE  QueueInv'
<1> DEFINE old(j) == IF j < i THEN entries[j] ELSE entries[j + 1]
<1>1. /\ Len(entries) \in Nat
      /\ DOMAIN entries = 1 .. Len(entries)
      /\ DOMAIN entries' = 1 .. Len(entries) - 1
      /\ DOMAIN fate = 1 .. nextId - 1
      /\ nextId \in Nat
  BY TakeKeepsTheOthers, LenProperties, BoundAssumption DEF QueueTypeOK
<1>2. \A j \in DOMAIN entries' :
        /\ entries'[j].id = old(j).id
        /\ entries'[j].armed = old(j).armed
        /\ entries'[j].shown =
             IF j = 1 /\ old(j).shown = NotShown THEN 0 ELSE old(j).shown
  BY <1>1, TakeKeepsTheOthers
<1>3. \A j \in DOMAIN entries : entries[j].id \in Nat
  <2>1. \A j \in DOMAIN entries : entries[j] \in Entry
    BY <1>1, ElementOfSeq DEF QueueTypeOK
  <2> QED BY <2>1, BoundAssumption DEF Entry, Id
<1>4. OnlyFrontShown'
  BY <1>1, <1>2 DEF OnlyFrontShown, QueueInv, NotShown
<1>5. OnlyFrontArmed'
  BY <1>1, <1>2 DEF OnlyFrontArmed, QueueInv
<1>6. \A j, k \in DOMAIN entries' : j < k => entries'[j].id < entries'[k].id
  BY <1>1, <1>2, SMTT(30) DEF OldestFirst, QueueInv
<1>7. \A j \in DOMAIN entries' : entries'[j].id < nextId'
  BY <1>1, <1>2 DEF OldestFirst, QueueInv, Take
<1>8. \A id \in DOMAIN fate' : IsPending(id)' <=> fate'[id] = "pending"
  <2>1. SUFFICES ASSUME NEW id \in DOMAIN fate'
                 PROVE  IsPending(id)' <=> fate'[id] = "pending"
    OBVIOUS
  <2>2. fate' = [fate EXCEPT ![entries[i].id] = how] /\ DOMAIN fate' = DOMAIN fate
    BY DEF Take
  <2>3. IsPending(id)' <=> \E j \in DOMAIN entries \ {i} : entries[j].id = id
    <3>1. ASSUME NEW j \in DOMAIN entries', entries'[j].id = id
          PROVE  \E k \in DOMAIN entries \ {i} : entries[k].id = id
      <4>1. CASE j < i
        BY <1>1, <1>2, <3>1, <4>1
      <4>2. CASE ~(j < i)
        <5>1. j + 1 \in DOMAIN entries \ {i} /\ entries[j + 1].id = id
          BY <1>1, <1>2, <3>1, <4>2
        <5> QED BY <5>1
      <4> QED BY <4>1, <4>2
    <3>2. ASSUME NEW k \in DOMAIN entries \ {i}, entries[k].id = id
          PROVE  \E j \in DOMAIN entries' : entries'[j].id = id
      <4>1. CASE k < i
        BY <1>1, <1>2, <3>2, <4>1
      <4>2. CASE ~(k < i)
        <5>1. k - 1 \in DOMAIN entries' /\ entries'[k - 1].id = id
          BY <1>1, <1>2, <3>2, <4>2
        <5> QED BY <5>1
      <4> QED BY <4>1, <4>2
    <3> QED BY <3>1, <3>2 DEF IsPending
  <2>4. \A j \in DOMAIN entries \ {i} : entries[j].id # entries[i].id
    BY <1>1, <1>3 DEF OldestFirst, QueueInv
  <2>5. CASE id = entries[i].id
    BY <2>2, <2>3, <2>4, <2>5
  <2>6. CASE id # entries[i].id
    <3>1. fate'[id] = fate[id]
      BY <2>2, <2>6
    <3>2. IsPending(id) <=> fate[id] = "pending"
      BY <2>2 DEF OldestFirst, QueueInv
    <3> QED BY <2>3, <2>6, <3>1, <3>2 DEF IsPending
  <2> QED BY <2>5, <2>6
<1> QED BY <1>4, <1>5, <1>6, <1>7, <1>8 DEF QueueInv, OldestFirst

(* Every step keeps the queue's invariant.                                 *)
LEMMA StepInv ==
  ASSUME QueueTypeOK, QueueInv, [QueueNext]_queueVars
  PROVE  QueueInv'
<1> USE DelayAssumption, BoundAssumption
<1>0. /\ entries \in Seq(Entry) /\ Len(entries) \in Nat
      /\ DOMAIN entries = 1 .. Len(entries)
      /\ \A i \in DOMAIN entries : entries[i] \in Entry
      /\ DOMAIN fate = 1 .. nextId - 1
      /\ nextId \in Nat
  BY ElementOfSeq, LenProperties DEF QueueTypeOK
<1>1. CASE Push
  <2> DEFINE new == [id |-> nextId,
                     shown |-> IF entries = <<>> THEN 0 ELSE NotShown,
                     armed |-> FALSE]
  <2>1. /\ DOMAIN entries' = 1 .. Len(entries) + 1
        /\ \A i \in DOMAIN entries : entries'[i] = entries[i]
        /\ entries'[Len(entries) + 1] = new
    BY <1>0, <1>1 DEF Push
  <2>2. entries = <<>> <=> Len(entries) = 0
    BY <1>0, EmptySeq
  <2>3. /\ nextId' = nextId + 1
        /\ DOMAIN fate' = 1 .. nextId
        /\ \A id \in DOMAIN fate : fate'[id] = fate[id]
        /\ fate'[nextId] = "pending"
    BY <1>0, <1>1 DEF Push, QueueTypeOK
  <2>4. OnlyFrontShown'
    BY <1>0, <2>1, <2>2 DEF OnlyFrontShown, QueueInv, NotShown
  <2>5. OnlyFrontArmed'
    BY <1>0, <2>1, <2>2 DEF OnlyFrontArmed, QueueInv
  <2>6. \A i, j \in DOMAIN entries' : i < j => entries'[i].id < entries'[j].id
    BY <1>0, <2>1, SMTT(30) DEF OldestFirst, QueueInv
  <2>7. \A i \in DOMAIN entries' : entries'[i].id < nextId'
    <3>1. \A i \in DOMAIN entries : entries[i].id \in Nat /\ entries[i].id < nextId
      BY <1>0 DEF OldestFirst, QueueInv, Entry, Id
    <3> QED BY <1>0, <2>1, <2>3, <3>1
  <2>8. \A id \in DOMAIN fate' : IsPending(id)' <=> fate'[id] = "pending"
    <3>1. SUFFICES ASSUME NEW id \in DOMAIN fate'
                   PROVE  IsPending(id)' <=> fate'[id] = "pending"
      OBVIOUS
    <3>2. IsPending(id)' <=> IsPending(id) \/ id = nextId
      BY <1>0, <2>1 DEF IsPending
    <3>3. CASE id = nextId
      BY <2>3, <3>2, <3>3
    <3>4. CASE id # nextId
      <4>1. id \in DOMAIN fate
        BY <1>0, <2>3, <3>4
      <4> QED BY <2>3, <3>2, <3>4, <4>1 DEF OldestFirst, QueueInv
    <3> QED BY <3>3, <3>4
  <2> QED BY <2>4, <2>5, <2>6, <2>7, <2>8 DEF QueueInv, OldestFirst
<1>2. ASSUME NEW id \in Id, Arm(id)
      PROVE  QueueInv'
  <2>1. 1 \in 1 .. Len(entries)
    BY <1>0, <1>2, EmptySeq DEF Arm, IsShown
  <2>2. /\ DOMAIN entries' = DOMAIN entries
        /\ \A i \in DOMAIN entries :
             /\ entries'[i].id = entries[i].id
             /\ entries'[i].shown = entries[i].shown
             /\ i # 1 => entries'[i].armed = entries[i].armed
    BY <1>0, <1>2, <2>1 DEF Arm, Entry
  <2> QED BY <1>0, <1>2, <2>2
          DEF Arm, QueueInv, OnlyFrontShown, OnlyFrontArmed, OldestFirst, IsPending
<1>3. ASSUME NEW id \in Id, NEW decision \in {"allow", "deny"},
             Answer(id, decision)
      PROVE  QueueInv'
  BY <1>3, TakeInv DEF Answer, Fate
<1>4. CASE Expire
  <2>1. 1 \in DOMAIN entries
    BY <1>0, <1>4, EmptySeq, LenProperties DEF Expire, IsDue
  <2> QED BY <1>4, <2>1, TakeInv DEF Expire, Fate
<1>5. ASSUME NEW id \in Id, Withdraw(id)
      PROVE  QueueInv'
  BY <1>5, TakeInv DEF Withdraw, Fate
<1>6. CASE Tick
  <2>1. /\ DOMAIN entries' = DOMAIN entries
        /\ \A i \in DOMAIN entries :
             /\ entries'[i].id = entries[i].id
             /\ entries'[i].armed = entries[i].armed
             /\ entries'[i].shown = Age(entries[i].shown)
    BY <1>0, <1>6 DEF Tick, Entry
  <2>2. \A i \in DOMAIN entries : (Age(entries[i].shown) # NotShown)
                                    <=> (entries[i].shown # NotShown)
    BY <1>0 DEF Age, NotShown, Entry
  <2>3. nextId' = nextId /\ fate' = fate
    BY <1>6 DEF Tick
  <2>4. OnlyFrontShown'
    BY <2>1, <2>2 DEF QueueInv, OnlyFrontShown
  <2>5. OnlyFrontArmed'
    BY <2>1 DEF QueueInv, OnlyFrontArmed
  <2>6. OldestFirst'
    BY <2>1, <2>3 DEF QueueInv, OldestFirst, IsPending
  <2> QED BY <2>4, <2>5, <2>6 DEF QueueInv
<1>7. CASE UNCHANGED queueVars
  BY <1>7 DEF queueVars, QueueInv, OnlyFrontShown, OnlyFrontArmed, OldestFirst,
              IsPending
<1> QED BY <1>1, <1>2, <1>3, <1>4, <1>5, <1>6, <1>7 DEF QueueNext

(* The queue starts empty.                                                 *)
LEMMA InitInv == QueueInit => QueueTypeOK /\ QueueInv
<1> SUFFICES ASSUME QueueInit PROVE QueueTypeOK /\ QueueInv
  OBVIOUS
<1>1. entries = <<>> /\ fate = <<>> /\ nextId = 1
  BY DEF QueueInit
<1>2. entries \in Seq(Entry) /\ fate \in Seq(Fate) /\ Len(fate) = 0
  BY <1>1, EmptySeq
<1>3. DOMAIN entries = {} /\ DOMAIN fate = {}
  BY <1>1
<1> QED BY <1>1, <1>2, <1>3, BoundAssumption
        DEF QueueTypeOK, QueueInv, OnlyFrontShown, OnlyFrontArmed, OldestFirst

(* The queue's types hold in every reachable state.                        *)
THEOREM QueueTypeCorrect == QueueSpec => []QueueTypeOK
<1>1. QueueInit => QueueTypeOK /\ QueueInv
  BY InitInv
<1>2. QueueTypeOK /\ QueueInv /\ [QueueNext]_queueVars
        => QueueTypeOK' /\ QueueInv'
  BY StepTypeOK, StepInv DEF QueueInv
<1> QED BY <1>1, <1>2, PTL DEF QueueSpec

(* In every reachable state exactly the front request is shown, none       *)
(* behind it is armed, ids ascend, and a request is in the queue exactly   *)
(* while it is pending: Queue::take always shows the new front.            *)
THEOREM QueueInvariant == QueueSpec => []QueueInv
<1>1. QueueInit => QueueTypeOK /\ QueueInv
  BY InitInv
<1>2. QueueTypeOK /\ QueueInv /\ [QueueNext]_queueVars
        => QueueTypeOK' /\ QueueInv'
  BY StepTypeOK, StepInv DEF QueueInv
<1> QED BY <1>1, <1>2, PTL DEF QueueSpec

-----------------------------------------------------------------------------
(* Under the mapping, the contract's oldest pending request is the front.  *)
LEMMA FrontIsOldest ==
  ASSUME QueueTypeOK, QueueInv
  PROVE  /\ \A id \in DOMAIN fate : id \in Contract!Pending <=> IsPending(id)
         /\ \A id : IsPending(id) => id \in DOMAIN fate
         /\ \A id : Contract!IsOldest(id) <=> IsShown(id)
<1>1. /\ Len(entries) \in Nat
      /\ DOMAIN entries = 1 .. Len(entries)
      /\ DOMAIN fate = 1 .. nextId - 1
      /\ nextId \in Nat
  BY LenProperties, BoundAssumption DEF QueueTypeOK
<1>2. \A i \in DOMAIN entries : entries[i].id \in DOMAIN fate
  <2>1. \A i \in DOMAIN entries : entries[i] \in Entry
    BY <1>1, ElementOfSeq DEF QueueTypeOK
  <2>2. \A i \in DOMAIN entries : entries[i].id \in 1 .. MaxRequests
    BY <2>1 DEF Entry, Id
  <2> QED BY <1>1, <2>2, BoundAssumption DEF QueueInv, OldestFirst
<1>3. \A id \in DOMAIN fate : id \in Contract!Pending <=> IsPending(id)
  BY DEF Contract!Pending, QueueInv, OldestFirst
<1>4. \A id : IsPending(id) => id \in DOMAIN fate
  BY <1>2 DEF IsPending
<1>5. \A id : id \in Contract!Pending => id \in DOMAIN fate
  BY DEF Contract!Pending
<1>6. ASSUME NEW id, Contract!IsOldest(id)
      PROVE  IsShown(id)
  <2>1. PICK i \in DOMAIN entries : entries[i].id = id
    BY <1>3, <1>5, <1>6 DEF Contract!IsOldest, IsPending
  <2>2. 1 \in DOMAIN entries /\ entries # <<>>
    BY <1>1, <2>1
  <2>3. IsPending(entries[1].id) /\ entries[1].id \in Contract!Pending
    BY <1>2, <1>3, <2>2 DEF IsPending
  <2>4. id <= entries[1].id
    BY <1>6, <2>3 DEF Contract!IsOldest
  <2>5. i # 1 => entries[1].id < id
    BY <1>1, <2>1, <2>2 DEF QueueInv, OldestFirst
  <2>6. id \in Nat /\ entries[1].id \in Nat
    BY <1>1, <1>2, <2>1, <2>2
  <2> QED BY <2>1, <2>2, <2>4, <2>5, <2>6 DEF IsShown
<1>7. ASSUME NEW id, IsShown(id)
      PROVE  Contract!IsOldest(id)
  <2>1. 1 \in DOMAIN entries /\ entries[1].id = id
    BY <1>1, <1>7, EmptySeq DEF IsShown, QueueTypeOK
  <2>2. id \in Contract!Pending
    BY <1>2, <1>3, <2>1 DEF IsPending
  <2>3. ASSUME NEW other \in Contract!Pending
        PROVE  id <= other
    <3>1. PICK j \in DOMAIN entries : entries[j].id = other
      BY <1>3, <1>5, <2>3 DEF IsPending
    <3>2. j # 1 => id < other
      BY <1>1, <2>1, <3>1 DEF QueueInv, OldestFirst
    <3>3. id \in Nat /\ other \in Nat
      BY <1>1, <1>2, <2>1, <3>1
    <3> QED BY <2>1, <3>1, <3>2, <3>3
  <2> QED BY <2>2, <2>3 DEF Contract!IsOldest
<1> QED BY <1>3, <1>4, <1>6, <1>7

(* What leaves the queue was pending, and nothing else changes its fate.   *)
LEMMA TakeChangesOne ==
  ASSUME QueueTypeOK, QueueInv, NEW i \in DOMAIN entries, NEW how, Take(i, how)
  PROVE  /\ entries[i].id \in DOMAIN fate /\ fate[entries[i].id] = "pending"
         /\ fate' = [fate EXCEPT ![entries[i].id] = how]
<1>1. IsPending(entries[i].id)
  BY DEF IsPending
<1>2. entries[i].id \in DOMAIN fate
  BY <1>1, FrontIsOldest
<1> QED BY <1>1, <1>2 DEF Take, QueueInv, OldestFirst

(* A request that is settled stays settled, as it was.                     *)
LEMMA FatesStay ==
  ASSUME QueueTypeOK, QueueInv, [QueueNext]_queueVars,
         NEW id \in DOMAIN fate
  PROVE  id \in DOMAIN fate' /\ (fate[id] # "pending" => fate'[id] = fate[id])
<1>1. ASSUME NEW i \in DOMAIN entries, NEW how, Take(i, how)
      PROVE  id \in DOMAIN fate' /\ (fate[id] # "pending" => fate'[id] = fate[id])
  BY <1>1, TakeChangesOne
<1>2. CASE Push
  BY <1>2 DEF Push, QueueTypeOK
<1>3. CASE UNCHANGED fate
  BY <1>3
<1>4. CASE Expire
  <2>1. 1 \in DOMAIN entries
    BY <1>4, EmptySeq, LenProperties DEF Expire, IsDue, QueueTypeOK
  <2> QED BY <1>1, <1>4, <2>1 DEF Expire
<1> QED BY <1>1, <1>2, <1>3, <1>4
        DEF QueueNext, Arm, Answer, Withdraw, Tick, queueVars

(* A removal settles one pending request, and restarts the clock and the   *)
(* arming exactly when it was the front.                                   *)
LEMMA TakeSettles ==
  ASSUME QueueTypeOK, QueueInv,
         NEW i \in DOMAIN entries,
         NEW how \in {"allow", "deny", "lapsed", "withdrawn"}, Take(i, how),
         how = "allow" => CanAllow(entries[i].id),
         how = "lapsed" => i = 1 /\ entries[1].shown >= Timeout
  PROVE  Contract!Settle(entries[i].id, how)
<1> DEFINE id == entries[i].id
           clock == IF entries = <<>> THEN 0 ELSE entries[1].shown
           seen == IF entries = <<>> THEN FALSE ELSE entries[1].armed
<1>0. /\ Len(entries) \in Nat
      /\ DOMAIN entries = 1 .. Len(entries)
      /\ 1 \in DOMAIN entries
      /\ entries # <<>>
  BY LenProperties DEF QueueTypeOK
<1>1. /\ entries' \in Seq(Entry)
      /\ Len(entries') = Len(entries) - 1
      /\ \A j \in 1 .. Len(entries) - 1 :
           LET old == IF j < i THEN entries[j] ELSE entries[j + 1]
           IN  /\ entries'[j].id = old.id
               /\ entries'[j].armed = old.armed
               /\ entries'[j].shown =
                    IF j = 1 /\ old.shown = NotShown THEN 0 ELSE old.shown
  BY TakeKeepsTheOthers
<1>2. IsPending(id) /\ id \in DOMAIN fate /\ id \in Contract!Pending
  BY FrontIsOldest DEF IsPending
<1>3. Contract!IsOldest(id) <=> i = 1
  <2>1. i # 1 => entries[1].id < entries[i].id
    BY <1>0 DEF QueueInv, OldestFirst
  <2>2. entries[1].id \in Nat /\ entries[i].id \in Nat
    <3>1. entries[1] \in Entry /\ entries[i] \in Entry
      BY <1>0, ElementOfSeq DEF QueueTypeOK
    <3> QED BY <3>1, BoundAssumption DEF Entry, Id
  <2>3. IsShown(id) <=> i = 1
    BY <1>0, <2>1, <2>2 DEF IsShown
  <2> QED BY <2>3, FrontIsOldest
<1>4. fate' = [fate EXCEPT ![id] = how]
  BY DEF Take
<1>5. how = "allow" => Contract!IsOldest(id) /\ seen /\ clock >= ArmDelay
  BY <1>0, FrontIsOldest DEF CanAllow
<1>6. how = "lapsed" => Contract!IsOldest(id) /\ clock >= Timeout
  BY <1>0, <1>3
<1>7. CASE i = 1
  <2>1. CASE entries' = <<>>
    BY <1>2, <1>3, <1>4, <1>5, <1>6, <1>7, <2>1 DEF Contract!Settle
  <2>2. CASE entries' # <<>>
    <3>1. 1 \in 1 .. Len(entries) - 1 /\ 2 \in DOMAIN entries
      BY <1>0, <1>1, <2>2, EmptySeq
    <3>2. entries[2].shown = NotShown /\ ~entries[2].armed
      BY <3>1 DEF QueueInv, OnlyFrontShown, OnlyFrontArmed
    <3>3. entries[2].armed \in BOOLEAN /\ entries'[1].armed = entries[2].armed
      <4>1. entries[2] \in Entry
        BY <1>0, <3>1, ElementOfSeq DEF QueueTypeOK
      <4> QED BY <1>1, <1>7, <3>1, <4>1 DEF Entry
    <3>4. entries'[1].shown = 0
      BY <1>1, <1>7, <3>1, <3>2
    <3>5. clock' = 0 /\ seen' = FALSE
      BY <2>2, <3>2, <3>3, <3>4
    <3> QED BY <1>2, <1>3, <1>4, <1>5, <1>6, <1>7, <3>5 DEF Contract!Settle
  <2> QED BY <2>1, <2>2
<1>8. CASE i # 1
  <2>1. 1 \in 1 .. Len(entries) - 1 /\ 1 < i
    BY <1>0, <1>8
  <2>2. entries' # <<>>
    BY <1>1, <2>1
  <2>3. entries[1].shown # NotShown
    BY <1>0 DEF QueueInv, OnlyFrontShown
  <2>4. clock' = clock /\ seen' = seen
    BY <1>0, <1>1, <2>1, <2>2, <2>3
  <2> QED BY <1>2, <1>3, <1>4, <1>5, <1>6, <1>8, <2>4 DEF Contract!Settle
<1> QED BY <1>7, <1>8

(* The queue implements the contract, for every ArmDelay and Timeout:      *)
(* Allow only ever reaches the oldest pending request, seen and up for     *)
(* ArmDelay; a lapse only reaches it after Timeout; no request is settled  *)
(* twice; and each new front starts with a fresh clock, unseen.            *)
THEOREM QueueImplementsContract == QueueSpec => ImplementsContract
<1> USE DelayAssumption, BoundAssumption
<1>1. QueueInit => Contract!Init
  BY DEF QueueInit, Contract!Init
<1>2. ASSUME QueueTypeOK, QueueInv, [QueueNext]_queueVars
      PROVE  [Contract!Next]_(Contract!vars)
  <2>0. /\ Len(entries) \in Nat
        /\ DOMAIN entries = 1 .. Len(entries)
        /\ \A i \in DOMAIN entries : entries[i] \in Entry
        /\ entries # <<>> => 1 \in DOMAIN entries
        /\ \A i \in DOMAIN entries : entries[i].id \in DOMAIN fate
    <3>1. /\ Len(entries) \in Nat
          /\ DOMAIN entries = 1 .. Len(entries)
          /\ entries # <<>> => 1 \in DOMAIN entries
      BY <1>2, EmptySeq, LenProperties DEF QueueTypeOK
    <3>2. \A i \in DOMAIN entries : entries[i] \in Entry
      BY <1>2, <3>1, ElementOfSeq DEF QueueTypeOK
    <3>3. \A i \in DOMAIN entries : entries[i].id \in DOMAIN fate
      BY <1>2, FrontIsOldest DEF IsPending
    <3> QED BY <3>1, <3>2, <3>3
  <2>1. CASE Push
    <3>1. fate' = Append(fate, "pending")
      BY <2>1 DEF Push
    <3>2. CASE entries = <<>>
      <4>1. /\ entries' # <<>>
            /\ entries'[1].shown = 0 /\ entries'[1].armed = FALSE
        BY <2>1, <3>2 DEF Push
      <4> QED BY <3>1, <3>2, <4>1 DEF Contract!Next, Contract!Ask
    <3>3. CASE entries # <<>>
      <4>1. entries' # <<>> /\ entries'[1] = entries[1]
        BY <1>2, <2>0, <2>1, <3>3 DEF Push, QueueTypeOK
      <4> QED BY <3>1, <3>3, <4>1 DEF Contract!Next, Contract!Ask
    <3> QED BY <3>2, <3>3
  <2>2. ASSUME NEW id \in Id, Arm(id)
        PROVE  [Contract!Next]_(Contract!vars)
    <3>1. entries # <<>> /\ 1 \in DOMAIN entries /\ fate' = fate
      BY <2>0, <2>2 DEF Arm, IsShown
    <3>2. /\ entries' # <<>>
          /\ entries'[1].armed = TRUE /\ entries'[1].shown = entries[1].shown
      BY <2>0, <2>2, <3>1 DEF Arm, Entry
    <3>3. Contract!Pending # {}
      BY <1>2, <2>0, <3>1, FrontIsOldest DEF IsPending
    <3> QED BY <3>1, <3>2, <3>3 DEF Contract!Next, Contract!See
  <2>3. ASSUME NEW i \in DOMAIN entries,
               NEW how \in {"allow", "deny", "lapsed", "withdrawn"}, Take(i, how),
               how = "allow" => CanAllow(entries[i].id),
               how = "lapsed" => i = 1 /\ entries[1].shown >= Timeout
        PROVE  [Contract!Next]_(Contract!vars)
    BY <1>2, <2>0, <2>3, TakeSettles DEF Contract!Next
  <2>4. ASSUME NEW id \in Id, NEW decision \in {"allow", "deny"},
               Answer(id, decision)
        PROVE  [Contract!Next]_(Contract!vars)
    BY <2>3, <2>4 DEF Answer
  <2>5. CASE Expire
    BY <2>0, <2>3, <2>5 DEF Expire, IsDue
  <2>6. ASSUME NEW id \in Id, Withdraw(id)
        PROVE  [Contract!Next]_(Contract!vars)
    BY <2>3, <2>6 DEF Withdraw
  <2>7. CASE Tick
    <3>1. /\ entries # <<>> /\ 1 \in DOMAIN entries
          /\ fate' = fate
          /\ entries'[1].armed = entries[1].armed
          /\ entries'[1].shown = Age(entries[1].shown)
          /\ entries' # <<>>
      BY <2>0, <2>7, EmptySeq DEF Tick, Entry
    <3>2. Contract!Pending # {}
      BY <1>2, <2>0, <3>1, FrontIsOldest DEF IsPending
    <3>3. entries[1].shown \in 0 .. Timeout
      BY <1>2, <2>0, <3>1 DEF QueueInv, OnlyFrontShown, Entry, NotShown
    <3>4. CASE entries[1].shown \in 0 .. Timeout - 1
      <4>1. entries'[1].shown = entries[1].shown + 1 /\ entries[1].shown < Timeout
        BY <3>1, <3>4 DEF Age
      <4> QED BY <3>1, <3>2, <4>1 DEF Contract!Next, Contract!Tick
    <3>5. CASE entries[1].shown \notin 0 .. Timeout - 1
      <4>1. entries'[1].shown = entries[1].shown
        BY <3>1, <3>5 DEF Age
      <4> QED BY <3>1, <4>1 DEF Contract!vars
    <3> QED BY <3>4, <3>5
  <2>8. CASE UNCHANGED queueVars
    BY <2>8 DEF queueVars, Contract!vars
  <2> QED BY <1>2, <2>1, <2>2, <2>4, <2>5, <2>6, <2>7, <2>8 DEF QueueNext
<1>3. QueueSpec => [](QueueTypeOK /\ QueueInv)
  BY QueueTypeCorrect, QueueInvariant, PTL
<1> QED BY <1>1, <1>2, <1>3, PTL DEF QueueSpec, ImplementsContract, Contract!Spec
=============================================================================
