---------------------------- MODULE DesktopProofs ---------------------------
(***************************************************************************)
(* Proofs about the parts of the desktop app that act at once with the     *)
(* user, one another's threads or other processes. The card's parts have   *)
(* the invariants of their components, which are proved elsewhere. The     *)
(* keychain, the hotkeys, the bridge to the agents and its listener are    *)
(* proved here for every value of their constants, which are the fields of *)
(* k in C(k), G(k), B(k) and E(k).                                         *)
(***************************************************************************)
EXTENDS MCDesktop, FiniteSetTheorems, TLAPS

(* The parts' invariants, each while its part runs.                        *)
KeysPart == part = "keys" => K!KeysTypeOK /\ K!QueueInv /\ K!KeysInv /\ K!FreshLook
HoldPart == part = "hold" => H!KeysTypeOK /\ H!QueueInv /\ H!KeysInv /\ H!FreshLook
LivePart == part = "live" => L!SideTypeOK /\ L!QueueInv /\ L!SideInv
SidePart == part = "side" => S!SideTypeOK /\ S!QueueInv /\ S!SideInv

CardInv == KeysPart /\ HoldPart /\ LivePart /\ SidePart

(* The parts are given constants they assume.                              *)
LEMMA PartConstants ==
  /\ K!HoldAssumption /\ H!HoldAssumption
  /\ L!ChoiceAssumption /\ S!ChoiceAssumption
BY DEF K!HoldAssumption, H!HoldAssumption, L!ChoiceAssumption, S!ChoiceAssumption

(* The card starts with each part in an initial state of its own.          *)
LEMMA CardInit == Init => CardInv
<1> SUFFICES ASSUME Init PROVE CardInv
  OBVIOUS
<1>1. KeysPart
  <2>1. part = "keys" => K!Init
    BY DEF Init
  <2> QED BY <2>1, PartConstants, K!KeysInit DEF KeysPart
<1>2. HoldPart
  <2>1. part = "hold" => H!Init
    BY DEF Init
  <2> QED BY <2>1, PartConstants, H!KeysInit DEF HoldPart
<1>3. LivePart
  <2>1. part = "live" => L!Init
    BY DEF Init
  <2> QED BY <2>1, PartConstants, L!SideInit DEF LivePart
<1>4. SidePart
  <2>1. part = "side" => S!Init
    BY DEF Init
  <2> QED BY <2>1, PartConstants, S!SideInit DEF SidePart
<1> QED BY <1>1, <1>2, <1>3, <1>4 DEF CardInv

(* A part that runs takes its own steps, and nothing else moves.           *)
LEMMA PartStep ==
  ASSUME [Next]_vars
  PROVE  /\ part' = part
         /\ part = "keys" => [K!Next]_(K!vars)
         /\ part = "hold" => [H!Next]_(H!vars)
         /\ part = "live" => [L!Next]_(L!vars)
         /\ part = "side" => [S!Next]_(S!vars)
         /\ part \notin {"keys", "hold"} => answers' = answers
<1>1. CASE Next
  BY <1>1 DEF Next, approvalKeysVars
<1>2. CASE UNCHANGED vars
  BY <1>2 DEF vars, approvalKeysVars, approvalSideVars, K!vars, H!vars, L!vars, S!vars,
     K!queueVars, K!keyVars, H!queueVars, H!keyVars, L!queueVars, L!sideVars, L!cardVars,
     L!pageVars, S!queueVars, S!sideVars, S!cardVars, S!pageVars
<1> QED BY <1>1, <1>2

(* A step of the card is one of the part that runs.                        *)
LEMMA CardStep ==
  ASSUME CardInv, [Next]_vars
  PROVE  CardInv'
<1>1. KeysPart'
  BY PartStep, PartConstants, K!KeysStep DEF CardInv, KeysPart
<1>2. HoldPart'
  BY PartStep, PartConstants, H!KeysStep DEF CardInv, HoldPart
<1>3. LivePart'
  BY PartStep, PartConstants, L!SideStep DEF CardInv, LivePart
<1>4. SidePart'
  BY PartStep, PartConstants, S!SideStep DEF CardInv, SidePart
<1> QED BY <1>1, <1>2, <1>3, <1>4 DEF CardInv

(* The invariants of the parts hold of the card.                           *)
LEMMA CardInvariant == Spec => []CardInv
BY CardInit, CardStep, PTL DEF Spec

(* A hold allows the request the chord was pressed for, and no other.      *)
THEOREM CardAllowsWhatWasPressedFor == Spec => []AllowsWhatWasPressedFor
<1>1. CardInv => AllowsWhatWasPressedFor
  BY DEF CardInv, KeysPart, HoldPart, K!KeysInv, H!KeysInv, AllowsWhatWasPressedFor
<1> QED BY <1>1, CardInvariant, PTL

(* No hold finishes once a key of the chord has been up for a tick.        *)
THEOREM CardLetGoNeverAllows == Spec => LetGoNeverAllows
<1> DEFINE Allows == \E task \in answers' \ answers : task.decision = "allow"
<1>1. CardInv /\ [Next]_vars => (Allows => upFor = 0)
  <2> SUFFICES ASSUME CardInv, [Next]_vars,
                      NEW task \in answers' \ answers, task.decision = "allow"
               PROVE  upFor = 0
    OBVIOUS
  <2>1. part \in {"keys", "hold"}
    BY PartStep
  <2>2. CASE part = "keys"
    BY <2>2, PartStep, K!FinishedHoldSawTheChord DEF CardInv, KeysPart
  <2>3. CASE part = "hold"
    BY <2>3, PartStep, H!FinishedHoldSawTheChord DEF CardInv, HoldPart
  <2> QED BY <2>1, <2>2, <2>3
<1> QED BY <1>1, CardInvariant, PTL DEF Spec, LetGoNeverAllows, H!LetGoNeverAllows

(* Once no call of `changed` is under way, hotkeys, timer, card and        *)
(* overlay agree with the queue.                                           *)
THEOREM CardInLineWithQueue == Spec => []InLineWithQueue
<1>1. CardInv => InLineWithQueue
  <2>1. ASSUME LivePart, part = "live"
        PROVE  /\ L!SideTypeOK /\ L!InLineWithQueue /\ L!CardInLine
               /\ L!OverlayAsTheUserLeftIt
    <3>1. L!SideTypeOK /\ L!QueueInv /\ L!SideInv
      BY <2>1 DEF LivePart
    <3>2. choices = 0
      BY <3>1 DEF L!SideTypeOK
    <3> QED BY <3>1, <3>2, L!InvInLine, L!InvOverlay
  <2>2. ASSUME SidePart, part = "side"
        PROVE  S!SideTypeOK /\ S!InLineWithQueue /\ S!CardInLine
    BY <2>2, S!InvInLine DEF SidePart
  <2> QED BY <2>1, <2>2 DEF CardInv, InLineWithQueue
<1> QED BY <1>1, CardInvariant, PTL

(* Nothing is allowed whose text was not in view for the arm delay, and    *)
(* what the card shows as armed can be allowed.                            *)
THEOREM CardAllowedWasSeen == Spec => []AllowedWasSeen
<1>1. CardInv => AllowedWasSeen
  BY L!InvSeen, S!InvSeen DEF CardInv, LivePart, SidePart, AllowedWasSeen
<1> QED BY <1>1, CardInvariant, PTL
-----------------------------------------------------------------------------
(* The keychain: k says which threads call it, whether a save runs alone   *)
(* and what may fail.                                                      *)

Calls(k) == [op : {"none", "read", "store", "delete"},
             at : {"none", "get", "legacy", "set", "forget", "delete"},
             secret : k.keys \cup {NoKey}, result : k.keys \cup {NoKey, Error}]

KeychainTypeOK(k) ==
  /\ keychainKey \in k.keys \cup {NoKey} /\ old \in k.keys \cup {NoKey}
  /\ env \in k.keys \cup {NoKey} /\ carry \in BOOLEAN /\ stale \in BOOLEAN
  /\ keychainCall \in [k.threads -> Calls(k)]
  /\ promised \in k.keys \cup {NoKey, Error}

(* Where a call is says which call it is and what it carries.              *)
CallsInv(k) ==
  \A t \in k.threads :
    /\ keychainCall[t].at # "none" => keychainCall[t].op # "none"
    /\ keychainCall[t].at \in {"get", "legacy"} => keychainCall[t].op = "read"
    /\ keychainCall[t].at = "set" =>
         keychainCall[t].op \in {"read", "store"} /\ keychainCall[t].secret \in k.keys
    /\ keychainCall[t].at = "legacy" => carry
    /\ keychainCall[t].at = "set" /\ keychainCall[t].op = "read" => carry
    /\ keychainCall[t].at = "forget" =>
         carry /\ (keychainCall[t].op # "delete" => keychainCall[t].secret \in k.keys)
    /\ keychainCall[t].at = "delete" => keychainCall[t].op = "delete"

(* A save or a removal runs alone, and until it returns nothing is         *)
(* promised; a save that drops the old copy has stored its secret.         *)
WritersInv(k) ==
  \A t \in k.threads :
    keychainCall[t].op \in {"store", "delete"} /\ keychainCall[t].at # "none" =>
      /\ promised = Error
      /\ \A u \in k.threads \ {t} : keychainCall[u].at = "none"
      /\ keychainCall[t].op = "store" /\ keychainCall[t].at = "forget" =>
           keychainKey = keychainCall[t].secret

(* A read that moves the promised key carries it, and drops the old copy   *)
(* only once the new one is there.                                         *)
MoversInv(k) ==
  promised \in k.keys =>
    \A t \in k.threads :
      /\ keychainCall[t].at = "legacy" => old \in {NoKey, promised}
      /\ keychainCall[t].at \in {"set", "forget"} => keychainCall[t].secret = promised
      /\ keychainCall[t].at = "forget" => keychainKey = promised

(* While nothing has failed, the entry and the old copy are both there     *)
(* only when a call is about to drop the old one.                          *)
CopiesInv(k) ==
  carry /\ ~stale =>
    \/ keychainKey = NoKey \/ old = NoKey
    \/ \E t \in k.threads : keychainCall[t].at = "forget"

(* The inductive invariant of the keychain.                                *)
KeysHold(k) ==
  /\ KeychainTypeOK(k) /\ CallsInv(k) /\ WritersInv(k) /\ MoversInv(k)
  /\ CopiesInv(k) /\ C(k)!KeyIsKept

(* No secret and an error are told apart from every key.                   *)
Sentinels(k) == NoKey \notin k.keys /\ Error \notin k.keys \cup {NoKey}

(* The keychain starts as it must be.                                      *)
LEMMA KeysHoldInit ==
  ASSUME NEW k, Sentinels(k), C(k)!Init
  PROVE  KeysHold(k)
<1>1. C(k)!Idle \in Calls(k) /\ C(k)!Idle.at = "none"
  BY DEF C!Idle, Calls
<1>2. keychainCall = [t \in k.threads |-> C(k)!Idle]
  BY DEF C!Init
<1>3. \A t \in k.threads : keychainCall[t].at = "none"
  BY <1>1, <1>2
<1>4. KeychainTypeOK(k)
  BY <1>1, <1>2 DEF KeychainTypeOK, C!Init
<1>5. CallsInv(k) /\ WritersInv(k) /\ MoversInv(k)
  BY <1>3 DEF CallsInv, WritersInv, MoversInv
<1>6. CopiesInv(k) /\ C(k)!KeyIsKept
  BY Sentinels(k) DEF CopiesInv, C!Init, C!KeyIsKept, Sentinels
<1> QED BY <1>4, <1>5, <1>6 DEF KeysHold

(* A call that returns is over, and the others are where they were.        *)
LEMMA CallReturns ==
  ASSUME NEW k, KeychainTypeOK(k), NEW t \in k.threads,
         NEW r \in k.keys \cup {NoKey, Error}, C(k)!Returns(t, r)
  PROVE  /\ keychainCall' \in [k.threads -> Calls(k)]
         /\ keychainCall'[t].at = "none" /\ keychainCall'[t].op = keychainCall[t].op
         /\ keychainCall'[t].result = r
         /\ \A u \in k.threads \ {t} : keychainCall'[u] = keychainCall[u]
<1> DEFINE c == [[C(k)!Idle EXCEPT !.op = keychainCall[t].op] EXCEPT !.result = r]
<1>1. keychainCall \in [k.threads -> Calls(k)] /\ keychainCall[t] \in Calls(k)
  BY DEF KeychainTypeOK
<1>2. /\ c \in Calls(k)
      /\ c.at = "none" /\ c.op = keychainCall[t].op /\ c.result = r
  BY <1>1 DEF C!Idle, Calls
<1>3. keychainCall' = [keychainCall EXCEPT ![t] = c]
  BY DEF C!Returns
<1> HIDE DEF c
<1> QED BY <1>1, <1>2, <1>3

(* A call that goes on keeps what it is about.                             *)
LEMMA CallGoes ==
  ASSUME NEW k, KeychainTypeOK(k), NEW t \in k.threads,
         NEW at \in {"legacy", "forget", "delete"}, C(k)!Goes(t, at)
  PROVE  /\ keychainCall' \in [k.threads -> Calls(k)]
         /\ keychainCall'[t].at = at /\ keychainCall'[t].op = keychainCall[t].op
         /\ keychainCall'[t].secret = keychainCall[t].secret
         /\ \A u \in k.threads \ {t} : keychainCall'[u] = keychainCall[u]
BY DEF KeychainTypeOK, Calls, C!Goes

(* While a read is under way nothing is saved or removed.                  *)
LEMMA ReadersShutOut ==
  ASSUME NEW k, KeysHold(k), NEW t \in k.threads,
         keychainCall[t].at # "none", keychainCall[t].op = "read"
  PROVE  \A u \in k.threads :
           keychainCall[u].at # "none" => keychainCall[u].op = "read"
BY DEF KeysHold, KeychainTypeOK, CallsInv, WritersInv, Calls

(* A read that returns without moving anything disturbs nothing.           *)
LEMMA ReadReturns ==
  ASSUME NEW k, KeysHold(k), NEW t \in k.threads, NEW r \in k.keys \cup {NoKey, Error},
         keychainCall[t].at # "forget", keychainCall[t].op = "read",
         C(k)!Returns(t, r), stale' \in BOOLEAN, stale => stale',
         UNCHANGED <<keychainKey, old, env, carry, promised>>
  PROVE  KeysHold(k)'
<1>1. /\ KeychainTypeOK(k) /\ CallsInv(k) /\ WritersInv(k) /\ MoversInv(k)
      /\ CopiesInv(k) /\ C(k)!KeyIsKept
  BY DEF KeysHold
<1>2. /\ keychainCall' \in [k.threads -> Calls(k)]
      /\ keychainCall'[t].at = "none" /\ keychainCall'[t].op = keychainCall[t].op
      /\ \A u \in k.threads \ {t} : keychainCall'[u] = keychainCall[u]
  BY <1>1, CallReturns
<1>3. KeychainTypeOK(k)'
  BY <1>1, <1>2 DEF KeychainTypeOK
<1>4. CallsInv(k)'
  BY <1>1, <1>2 DEF CallsInv
<1>5. WritersInv(k)'
  BY <1>1, <1>2 DEF WritersInv
<1>6. MoversInv(k)'
  BY <1>1, <1>2 DEF MoversInv
<1>7. CopiesInv(k)'
  BY <1>1, <1>2 DEF CopiesInv
<1>8. C(k)!KeyIsKept'
  BY <1>1 DEF C!KeyIsKept
<1> QED BY <1>3, <1>4, <1>5, <1>6, <1>7, <1>8 DEF KeysHold

(* A call begins: a read beside reads, a save or a removal alone.          *)
LEMMA KeysBegins ==
  ASSUME NEW k, k.alone, Sentinels(k), KeysHold(k), NEW t \in k.threads,
         C(k)!BeginRead(t) \/ C(k)!BeginWrite(t)
  PROVE  KeysHold(k)'
<1>1. /\ KeychainTypeOK(k) /\ CallsInv(k) /\ WritersInv(k) /\ MoversInv(k)
      /\ CopiesInv(k) /\ C(k)!KeyIsKept
  BY DEF KeysHold
<1>2. /\ keychainCall[t].at = "none"
      /\ UNCHANGED <<keychainKey, old, env, carry, faults, stale>>
  BY DEF C!BeginRead, C!BeginWrite, C!Begin, C!At
<1>3. PICK op \in {"read", "store", "delete"}, at \in {"get", "set", "forget", "delete"},
           secret \in k.keys \cup {NoKey} :
        /\ keychainCall' = [keychainCall EXCEPT ![t] =
             [op |-> op, at |-> at, secret |-> secret, result |-> NoKey]]
        /\ \/ op = "read" /\ at = "get" /\ ~C(k)!Writing /\ promised' = promised
           \/ /\ C(k)!Alone /\ promised' = Error
              /\ \/ op = "store" /\ at = "set" /\ secret \in k.keys
                 \/ op = "delete" /\ at = "delete"
                 \/ op = "delete" /\ at = "forget" /\ carry
  <2>1. CASE C(k)!BeginRead(t)
    BY <2>1 DEF C!BeginRead, C!Begin
  <2>2. CASE C(k)!BeginWrite(t)
    BY <2>2 DEF C!BeginWrite, C!Begin
  <2> QED BY <2>1, <2>2
<1> DEFINE c == [op |-> op, at |-> at, secret |-> secret, result |-> NoKey]
<1>4. c \in Calls(k) /\ c.op = op /\ c.at = at /\ c.secret = secret
  BY DEF Calls
<1>5. /\ keychainCall' \in [k.threads -> Calls(k)]
      /\ keychainCall'[t] = c
      /\ \A u \in k.threads \ {t} : keychainCall'[u] = keychainCall[u]
  BY <1>1, <1>3, <1>4 DEF KeychainTypeOK
<1> HIDE DEF c
<1>6. KeychainTypeOK(k)'
  BY <1>1, <1>2, <1>3, <1>5 DEF KeychainTypeOK
<1>7. CallsInv(k)'
  BY <1>1, <1>2, <1>3, <1>4, <1>5 DEF CallsInv
<1>8. WritersInv(k)'
  BY <1>1, <1>2, <1>3, <1>4, <1>5
     DEF WritersInv, C!Writing, C!Alone, C!At
<1>9. MoversInv(k)'
  BY <1>1, <1>2, <1>3, <1>4, <1>5, Sentinels(k) DEF MoversInv, Sentinels
<1>10. CopiesInv(k)'
  BY <1>1, <1>2, <1>4, <1>5 DEF CopiesInv
<1>11. C(k)!KeyIsKept'
  BY <1>1, <1>2, <1>3, Sentinels(k) DEF C!KeyIsKept, Sentinels
<1> QED BY <1>6, <1>7, <1>8, <1>9, <1>10, <1>11 DEF KeysHold

(* read_key reads the environment, then the entry, then the old one.       *)
LEMMA KeysGet ==
  ASSUME NEW k, k.alone, Sentinels(k), KeysHold(k), NEW t \in k.threads, C(k)!Get(t)
  PROVE  KeysHold(k)'
<1>1. /\ KeychainTypeOK(k) /\ CallsInv(k) /\ WritersInv(k) /\ MoversInv(k)
      /\ CopiesInv(k) /\ C(k)!KeyIsKept
  BY DEF KeysHold
<1>2. /\ keychainCall[t].at = "get" /\ keychainCall[t].op = "read"
      /\ UNCHANGED <<keychainKey, old, env, carry, promised>>
      /\ stale' \in BOOLEAN /\ (stale => stale')
  BY <1>1 DEF C!Get, C!At, C!Works, C!Fails, CallsInv, KeychainTypeOK
<1>3. CASE \E r \in k.keys \cup {NoKey, Error} : C(k)!Returns(t, r)
  BY <1>2, <1>3, ReadReturns
<1>4. CASE C(k)!Works /\ keychainKey = NoKey /\ carry /\ C(k)!Goes(t, "legacy")
  <2>1. /\ keychainCall' \in [k.threads -> Calls(k)]
        /\ keychainCall'[t].at = "legacy" /\ keychainCall'[t].op = "read"
        /\ \A u \in k.threads \ {t} : keychainCall'[u] = keychainCall[u]
    BY <1>1, <1>2, <1>4, CallGoes
  <2>2. KeychainTypeOK(k)'
    BY <1>1, <1>2, <2>1 DEF KeychainTypeOK
  <2>3. CallsInv(k)'
    BY <1>1, <1>2, <1>4, <2>1 DEF CallsInv
  <2>4. WritersInv(k)'
    BY <1>1, <1>2, <2>1 DEF WritersInv
  <2>5. MoversInv(k)'
    BY <1>1, <1>2, <1>4, <2>1, Sentinels(k)
       DEF MoversInv, C!KeyIsKept, Sentinels, KeychainTypeOK
  <2>6. CopiesInv(k)'
    BY <1>2, <1>4 DEF CopiesInv
  <2>7. C(k)!KeyIsKept'
    BY <1>1, <1>2 DEF C!KeyIsKept
  <2> QED BY <2>2, <2>3, <2>4, <2>5, <2>6, <2>7 DEF KeysHold
<1>5. env \in k.keys \cup {NoKey} /\ keychainKey \in k.keys \cup {NoKey}
  BY <1>1 DEF KeychainTypeOK
<1> QED BY <1>3, <1>4, <1>5 DEF C!Get

(* adopt_legacy_key finds the old entry, which is the promised key's.      *)
LEMMA KeysLegacy ==
  ASSUME NEW k, k.alone, Sentinels(k), KeysHold(k), NEW t \in k.threads, C(k)!Legacy(t)
  PROVE  KeysHold(k)'
<1>1. /\ KeychainTypeOK(k) /\ CallsInv(k) /\ WritersInv(k) /\ MoversInv(k)
      /\ CopiesInv(k) /\ C(k)!KeyIsKept
  BY DEF KeysHold
<1>2. /\ keychainCall[t].at = "legacy" /\ keychainCall[t].op = "read" /\ carry
      /\ UNCHANGED <<keychainKey, old, env, carry, promised>>
      /\ stale' \in BOOLEAN /\ (stale => stale')
  BY <1>1 DEF C!Legacy, C!At, C!Works, C!Fails, CallsInv, KeychainTypeOK
<1>3. CASE \E r \in k.keys \cup {NoKey, Error} : C(k)!Returns(t, r)
  BY <1>2, <1>3, ReadReturns
<1>4. CASE /\ C(k)!Works /\ old # NoKey
           /\ keychainCall' = [keychainCall EXCEPT ![t].at = "set", ![t].secret = old]
  <2>0. old \in k.keys
    BY <1>1, <1>4 DEF KeychainTypeOK
  <2>1. /\ keychainCall' \in [k.threads -> Calls(k)]
        /\ keychainCall'[t].at = "set" /\ keychainCall'[t].op = "read"
        /\ keychainCall'[t].secret = old
        /\ \A u \in k.threads \ {t} : keychainCall'[u] = keychainCall[u]
    BY <1>1, <1>2, <1>4, <2>0 DEF KeychainTypeOK, Calls
  <2>2. KeychainTypeOK(k)'
    BY <1>1, <1>2, <2>1 DEF KeychainTypeOK
  <2>3. CallsInv(k)'
    BY <1>1, <1>2, <2>0, <2>1 DEF CallsInv
  <2>4. WritersInv(k)'
    BY <1>1, <1>2, <2>1 DEF WritersInv
  <2>5. MoversInv(k)'
    BY <1>1, <1>2, <1>4, <2>1 DEF MoversInv
  <2>6. CopiesInv(k)'
    BY <1>1, <1>2, <1>4, <2>1 DEF CopiesInv, C!Works
  <2>7. C(k)!KeyIsKept'
    BY <1>1, <1>2 DEF C!KeyIsKept
  <2> QED BY <2>2, <2>3, <2>4, <2>5, <2>6, <2>7 DEF KeysHold
<1> QED BY <1>3, <1>4 DEF C!Legacy

(* store_key writes the entry, and what it wrote is kept.                  *)
LEMMA KeysSet ==
  ASSUME NEW k, k.alone, Sentinels(k), KeysHold(k), NEW t \in k.threads, C(k)!Set(t)
  PROVE  KeysHold(k)'
<1>1. /\ KeychainTypeOK(k) /\ CallsInv(k) /\ WritersInv(k) /\ MoversInv(k)
      /\ CopiesInv(k) /\ C(k)!KeyIsKept
  BY DEF KeysHold
<1> DEFINE s == keychainCall[t].secret
<1>2. /\ keychainCall[t].at = "set" /\ keychainCall[t].op \in {"read", "store"}
      /\ s \in k.keys /\ (keychainCall[t].op = "read" => carry)
      /\ UNCHANGED <<old, env, carry>>
  BY <1>1 DEF C!Set, C!At, CallsInv
<1> HIDE DEF s
<1>3. CASE /\ keychainCall[t].op = "read"
           /\ C(k)!Works /\ keychainKey' = s /\ C(k)!Goes(t, "forget")
           /\ promised' = promised
  <2>1. /\ keychainCall' \in [k.threads -> Calls(k)]
        /\ keychainCall'[t].at = "forget" /\ keychainCall'[t].op = "read"
        /\ keychainCall'[t].secret = s
        /\ \A u \in k.threads \ {t} : keychainCall'[u] = keychainCall[u]
    BY <1>1, <1>2, <1>3, CallGoes DEF s
  <2>2. \A u \in k.threads : keychainCall[u].at # "none" => keychainCall[u].op = "read"
    BY <1>2, <1>3, ReadersShutOut
  <2>3. promised \in k.keys => s = promised
    BY <1>1, <1>2 DEF MoversInv, s
  <2>4. KeychainTypeOK(k)'
    BY <1>1, <1>2, <1>3, <2>1 DEF KeychainTypeOK, C!Works
  <2>5. CallsInv(k)'
    BY <1>1, <1>2, <1>3, <2>1 DEF CallsInv
  <2>6. WritersInv(k)'
    BY <2>1, <2>2 DEF WritersInv
  <2>7. MoversInv(k)'
    BY <1>1, <1>2, <1>3, <2>1, <2>3 DEF MoversInv
  <2>8. CopiesInv(k)'
    BY <2>1 DEF CopiesInv
  <2>9. C(k)!KeyIsKept'
    BY <1>2, <1>3, <2>3 DEF C!KeyIsKept
  <2> QED BY <2>4, <2>5, <2>6, <2>7, <2>8, <2>9 DEF KeysHold
<1>4. CASE /\ keychainCall[t].op = "read"
           /\ C(k)!Fails /\ keychainKey' = keychainKey /\ C(k)!Returns(t, Error)
           /\ promised' = promised
  <2>1. /\ keychainCall[t].at # "forget" /\ stale' \in BOOLEAN /\ (stale => stale')
        /\ Error \in k.keys \cup {NoKey, Error}
    BY <1>2, <1>4 DEF C!Fails
  <2> QED BY <1>2, <1>4, <2>1, ReadReturns
<1>5. ASSUME keychainCall[t].op = "store"
      PROVE  /\ promised = Error
             /\ \A u \in k.threads \ {t} : keychainCall[u].at = "none"
  BY <1>1, <1>2, <1>5 DEF WritersInv
<1>6. CASE /\ keychainCall[t].op = "store"
           /\ C(k)!Works /\ keychainKey' = s /\ carry /\ C(k)!Goes(t, "forget")
           /\ promised' = promised
  <2>1. /\ keychainCall' \in [k.threads -> Calls(k)]
        /\ keychainCall'[t].at = "forget" /\ keychainCall'[t].op = "store"
        /\ keychainCall'[t].secret = s
        /\ \A u \in k.threads \ {t} : keychainCall'[u] = keychainCall[u]
    BY <1>1, <1>6, CallGoes DEF s
  <2>2. KeychainTypeOK(k)'
    BY <1>1, <1>2, <1>6, <2>1 DEF KeychainTypeOK, C!Works
  <2>3. CallsInv(k)'
    BY <1>1, <1>2, <1>6, <2>1 DEF CallsInv
  <2>4. WritersInv(k)'
    BY <1>5, <1>6, <2>1 DEF WritersInv
  <2>5. promised' \notin k.keys
    BY <1>5, <1>6, Sentinels(k) DEF Sentinels
  <2>6. CopiesInv(k)'
    BY <2>1 DEF CopiesInv
  <2>7. MoversInv(k)' /\ C(k)!KeyIsKept'
    BY <2>5 DEF MoversInv, C!KeyIsKept
  <2> QED BY <2>2, <2>3, <2>4, <2>6, <2>7 DEF KeysHold
<1>7. CASE /\ keychainCall[t].op = "store"
           /\ \/ /\ C(k)!Works /\ keychainKey' = s /\ ~carry
                 /\ C(k)!Returns(t, s) /\ promised' = s
              \/ /\ C(k)!Fails /\ keychainKey' = keychainKey
                 /\ C(k)!Returns(t, Error) /\ promised' = Error
  <2>1. /\ keychainCall' \in [k.threads -> Calls(k)]
        /\ \A u \in k.threads : keychainCall'[u].at = "none"
    <3>1. PICK r \in k.keys \cup {NoKey, Error} : C(k)!Returns(t, r)
      BY <1>2, <1>7
    <3> QED BY <1>1, <1>5, <1>7, <3>1, CallReturns
  <2>2. KeychainTypeOK(k)'
    BY <1>1, <1>2, <1>7, <2>1 DEF KeychainTypeOK, C!Works, C!Fails
  <2>3. CallsInv(k)' /\ WritersInv(k)' /\ MoversInv(k)'
    BY <2>1 DEF CallsInv, WritersInv, MoversInv
  <2>4. CopiesInv(k)'
    BY <1>2, <1>7 DEF CopiesInv, C!Fails
  <2>5. C(k)!KeyIsKept'
    BY <1>7, Sentinels(k) DEF C!KeyIsKept, Sentinels
  <2> QED BY <2>2, <2>3, <2>4, <2>5 DEF KeysHold
<1>8. s # Error
  BY <1>2, Sentinels(k) DEF Sentinels
<1>9. \/ /\ C(k)!Works /\ keychainKey' = s
         /\ IF carry THEN C(k)!Goes(t, "forget") /\ promised' = promised
            ELSE C(k)!Returns(t, s) /\ C(k)!Promises(t, s)
      \/ /\ C(k)!Fails /\ keychainKey' = keychainKey
         /\ C(k)!Returns(t, Error) /\ C(k)!Promises(t, Error)
  BY DEF C!Set, s
<1>10. CASE keychainCall[t].op = "read"
  <2>1. C(k)!Promises(t, Error) => promised' = promised
    BY <1>10 DEF C!Promises
  <2> QED BY <1>2, <1>3, <1>4, <1>9, <1>10, <2>1
<1>11. CASE keychainCall[t].op = "store"
  <2>1. /\ C(k)!Promises(t, Error) => promised' = Error
        /\ C(k)!Promises(t, s) => promised' = s
    BY <1>8, <1>11 DEF C!Promises, s
  <2> QED BY <1>6, <1>7, <1>9, <1>11, <2>1
<1> QED BY <1>2, <1>10, <1>11

(* forget_legacy_key drops the old copy or fails to: the new one is there. *)
LEMMA KeysForget ==
  ASSUME NEW k, k.alone, Sentinels(k), KeysHold(k), NEW t \in k.threads, C(k)!Forget(t)
  PROVE  KeysHold(k)'
<1>1. /\ KeychainTypeOK(k) /\ CallsInv(k) /\ WritersInv(k) /\ MoversInv(k)
      /\ CopiesInv(k) /\ C(k)!KeyIsKept
  BY DEF KeysHold
<1> DEFINE s == keychainCall[t].secret
<1>2. /\ keychainCall[t].at = "forget" /\ carry
      /\ keychainCall[t].op \in {"read", "store", "delete"}
      /\ (keychainCall[t].op # "delete" => s \in k.keys)
      /\ UNCHANGED <<keychainKey, env, carry>>
  <2>1. keychainCall[t].at = "forget"
    BY DEF C!Forget, C!At
  <2>2. keychainCall[t].op \in {"none", "read", "store", "delete"}
    BY <1>1 DEF KeychainTypeOK, Calls
  <2> QED BY <1>1, <2>1, <2>2 DEF C!Forget, CallsInv
<1> HIDE DEF s
<1>3. /\ old' \in {NoKey, old} /\ stale' \in BOOLEAN /\ (stale => stale')
      /\ (~stale' => old' = NoKey)
  BY <1>1 DEF C!Forget, C!Works, C!Fails, KeychainTypeOK
<1>4. IF keychainCall[t].op = "delete" THEN C(k)!Goes(t, "delete") /\ promised' = promised
      ELSE C(k)!Returns(t, s) /\ C(k)!Promises(t, s)
  BY DEF C!Forget, s
<1>5. /\ keychainCall' \in [k.threads -> Calls(k)]
      /\ keychainCall'[t].op = keychainCall[t].op
      /\ keychainCall'[t].at = IF keychainCall[t].op = "delete" THEN "delete" ELSE "none"
      /\ \A u \in k.threads \ {t} : keychainCall'[u] = keychainCall[u]
  <2>1. CASE keychainCall[t].op = "delete"
    BY <1>1, <1>4, <2>1, CallGoes
  <2>2. CASE keychainCall[t].op # "delete"
    <3>1. s \in k.keys \cup {NoKey, Error} /\ C(k)!Returns(t, s)
      BY <1>2, <1>4, <2>2
    <3> QED BY <1>1, <2>2, <3>1, CallReturns
  <2> QED BY <2>1, <2>2
<1>6. CASE keychainCall[t].op = "read"
  <2>1. promised' = promised
    BY <1>4, <1>6 DEF C!Promises
  <2>2. \A u \in k.threads : keychainCall[u].at # "none" => keychainCall[u].op = "read"
    BY <1>2, <1>6, ReadersShutOut
  <2>3. promised \in k.keys => keychainKey = promised
    BY <1>1, <1>2 DEF MoversInv
  <2>4. KeychainTypeOK(k)'
    BY <1>1, <1>2, <1>3, <1>5, <2>1 DEF KeychainTypeOK
  <2>5. CallsInv(k)'
    BY <1>1, <1>2, <1>5, <1>6 DEF CallsInv
  <2>6. WritersInv(k)'
    BY <1>5, <1>6, <2>2 DEF WritersInv
  <2>7. MoversInv(k)'
    BY <1>1, <1>2, <1>3, <1>5, <1>6, <2>1 DEF MoversInv
  <2>8. CopiesInv(k)'
    BY <1>3 DEF CopiesInv
  <2>9. C(k)!KeyIsKept'
    BY <1>2, <2>1, <2>3 DEF C!KeyIsKept
  <2> QED BY <2>4, <2>5, <2>6, <2>7, <2>8, <2>9 DEF KeysHold
<1>7. CASE keychainCall[t].op \in {"store", "delete"}
  <2>1. /\ promised = Error
        /\ \A u \in k.threads \ {t} : keychainCall[u].at = "none"
        /\ (keychainCall[t].op = "store" => keychainKey = s)
    BY <1>1, <1>2, <1>7 DEF WritersInv, s
  <2>2. /\ (keychainCall[t].op = "store" => promised' = s)
        /\ (keychainCall[t].op = "delete" => promised' = Error)
    <3>1. s # Error \/ keychainCall[t].op = "delete"
      BY <1>2, Sentinels(k) DEF Sentinels
    <3> QED BY <1>4, <2>1, <3>1 DEF C!Promises, s
  <2>3. KeychainTypeOK(k)'
    BY <1>1, <1>2, <1>3, <1>5, <1>7, <2>2 DEF KeychainTypeOK
  <2>4. CallsInv(k)'
    BY <1>2, <1>5, <2>1 DEF CallsInv
  <2>5. WritersInv(k)'
    BY <1>5, <1>7, <2>1, <2>2 DEF WritersInv
  <2>6. MoversInv(k)'
    BY <1>5, <1>7, <2>1, <2>2, Sentinels(k) DEF MoversInv, Sentinels
  <2>7. CopiesInv(k)'
    BY <1>3 DEF CopiesInv
  <2>8. C(k)!KeyIsKept'
    BY <1>2, <1>7, <2>1, <2>2, Sentinels(k) DEF C!KeyIsKept, Sentinels
  <2> QED BY <2>3, <2>4, <2>5, <2>6, <2>7, <2>8 DEF KeysHold
<1> QED BY <1>2, <1>6, <1>7

(* delete_api_key removes the entry, the old one's removal behind it.      *)
LEMMA KeysDelete ==
  ASSUME NEW k, k.alone, Sentinels(k), KeysHold(k), NEW t \in k.threads, C(k)!Delete(t)
  PROVE  KeysHold(k)'
<1>1. /\ KeychainTypeOK(k) /\ CallsInv(k) /\ WritersInv(k) /\ MoversInv(k)
      /\ CopiesInv(k) /\ C(k)!KeyIsKept
  BY DEF KeysHold
<1>2. /\ keychainCall[t].at = "delete" /\ keychainCall[t].op = "delete"
      /\ UNCHANGED <<old, env, carry>>
  BY <1>1 DEF C!Delete, C!At, CallsInv
<1>3. \A u \in k.threads \ {t} : keychainCall[u].at = "none"
  BY <1>1, <1>2 DEF WritersInv
<1>4. /\ keychainKey' \in {NoKey, keychainKey} /\ promised' \in {NoKey, Error}
      /\ stale' \in BOOLEAN /\ (~stale' => ~stale)
  BY <1>1, <1>2 DEF C!Delete, C!Promises, C!Works, C!Fails, KeychainTypeOK
<1>5. \E r \in k.keys \cup {NoKey, Error} : C(k)!Returns(t, r)
  BY DEF C!Delete
<1>6. /\ keychainCall' \in [k.threads -> Calls(k)]
      /\ \A u \in k.threads : keychainCall'[u].at = "none"
  BY <1>1, <1>3, <1>5, CallReturns
<1>7. KeychainTypeOK(k)'
  BY <1>1, <1>2, <1>4, <1>6 DEF KeychainTypeOK
<1>8. CallsInv(k)' /\ WritersInv(k)' /\ MoversInv(k)'
  BY <1>6 DEF CallsInv, WritersInv, MoversInv
<1>9. CopiesInv(k)'
  BY <1>1, <1>2, <1>3, <1>4 DEF CopiesInv
<1>10. C(k)!KeyIsKept'
  BY <1>4, Sentinels(k) DEF C!KeyIsKept, Sentinels
<1> QED BY <1>7, <1>8, <1>9, <1>10 DEF KeysHold

(* A crash between two calls of the keychain leaves the entries as they    *)
(* are, and what was promised with them.                                   *)
LEMMA KeysCrash ==
  ASSUME NEW k, Sentinels(k), KeysHold(k), C(k)!Crash
  PROVE  KeysHold(k)'
<1>1. KeychainTypeOK(k) /\ C(k)!KeyIsKept
  BY DEF KeysHold
<1>2. /\ UNCHANGED <<keychainKey, old, env, carry, promised>> /\ stale' = TRUE
      /\ keychainCall' = [u \in k.threads |-> C(k)!Idle]
  BY DEF C!Crash, C!Fails
<1>3. C(k)!Idle \in Calls(k) /\ C(k)!Idle.at = "none"
  BY DEF C!Idle, Calls
<1>4. \A u \in k.threads : keychainCall'[u].at = "none"
  BY <1>2, <1>3
<1>5. KeychainTypeOK(k)'
  BY <1>1, <1>2, <1>3 DEF KeychainTypeOK
<1>6. CallsInv(k)' /\ WritersInv(k)' /\ MoversInv(k)'
  BY <1>4 DEF CallsInv, WritersInv, MoversInv
<1>7. CopiesInv(k)' /\ C(k)!KeyIsKept'
  BY <1>1, <1>2 DEF CopiesInv, C!KeyIsKept
<1> QED BY <1>5, <1>6, <1>7 DEF KeysHold

(* Every step of the keychain keeps the invariant where a save runs alone. *)
LEMMA KeysHoldStep ==
  ASSUME NEW k, k.alone, Sentinels(k), KeysHold(k), [C(k)!Next]_(C(k)!vars)
  PROVE  KeysHold(k)'
<1>1. CASE \E t \in k.threads : C(k)!BeginRead(t) \/ C(k)!BeginWrite(t)
  BY <1>1, KeysBegins
<1>2. CASE \E t \in k.threads : C(k)!Steps(t)
  BY <1>2, KeysGet, KeysLegacy, KeysSet, KeysForget, KeysDelete DEF C!Steps
<1>3. CASE C(k)!Crash
  BY <1>3, KeysCrash
<1>4. CASE UNCHANGED C(k)!vars
  BY <1>4 DEF C!vars, KeysHold, KeychainTypeOK, CallsInv, WritersInv, MoversInv,
     CopiesInv, C!KeyIsKept
<1> QED BY <1>1, <1>2, <1>3, <1>4 DEF C!Next

(* Where nothing fails and one thread calls: a removed key is in neither   *)
(* entry and on no call's way there, and a read looks for the old entry    *)
(* while there is no other.                                                *)
SoundInv(k) ==
  /\ faults = 0
  /\ promised = NoKey =>
       /\ keychainKey = NoKey /\ (carry => old = NoKey)
       /\ \A t \in k.threads : keychainCall[t].at \notin {"set", "forget"}
  /\ \A t \in k.threads :
       /\ keychainCall[t].at = "delete" /\ carry => old = NoKey
       /\ keychainCall[t].at = "legacy" => keychainKey = NoKey

(* What makes a keychain sound: no call of it fails, and one thread calls. *)
Sound(k) == k.alone /\ k.faults = 0 /\ \A t, u \in k.threads : t = u

(* A sound keychain starts so.                                             *)
LEMMA SoundInit ==
  ASSUME NEW k, Sentinels(k), C(k)!Init
  PROVE  SoundInv(k)
<1>1. C(k)!Idle.at = "none"
  BY DEF C!Idle
<1>2. \A t \in k.threads : keychainCall[t].at = "none"
  BY <1>1 DEF C!Init
<1>3. carry \in BOOLEAN /\ faults = 0 /\ keychainKey = NoKey
  BY DEF C!Init
<1>4. promised = NoKey /\ carry => old = NoKey
  BY DEF C!Init
<1> QED BY <1>2, <1>3, <1>4 DEF SoundInv

(* And stays so: a removal drops the old copy before the entry.            *)
LEMMA SoundStep ==
  ASSUME NEW k, Sound(k), Sentinels(k), KeysHold(k), SoundInv(k),
         [C(k)!Next]_(C(k)!vars)
  PROVE  SoundInv(k)'
<1>1. /\ KeychainTypeOK(k) /\ CallsInv(k) /\ WritersInv(k) /\ MoversInv(k)
  BY DEF KeysHold
<1>2. ~C(k)!Fails
  BY DEF C!Fails, SoundInv, Sound
<1>3. ASSUME NEW t \in k.threads, C(k)!BeginRead(t)
      PROVE  SoundInv(k)'
  <2>1. /\ keychainCall'[t].at = "get"
        /\ UNCHANGED <<keychainKey, old, carry, faults, promised>>
    BY <1>1, <1>3 DEF C!BeginRead, C!Begin, KeychainTypeOK
  <2> QED BY <2>1 DEF SoundInv, Sound
<1>4. ASSUME NEW t \in k.threads, C(k)!BeginWrite(t)
      PROVE  SoundInv(k)'
  <2>1. /\ keychainCall'[t].at \in {"set", "forget", "delete"} /\ promised' = Error
        /\ (keychainCall'[t].at = "delete" => ~carry)
        /\ UNCHANGED <<keychainKey, old, carry, faults>>
    BY <1>1, <1>4 DEF C!BeginWrite, C!Begin, KeychainTypeOK
  <2> QED BY <2>1, Sentinels(k) DEF SoundInv, Sound, Sentinels
<1>5. ASSUME NEW t \in k.threads, C(k)!Get(t)
      PROVE  SoundInv(k)'
  <2>1. /\ UNCHANGED <<keychainKey, old, carry, faults, promised>>
        /\ (keychainCall'[t].at = "none" \/ (keychainCall'[t].at = "legacy" /\ keychainKey = NoKey))
    <3>1. CASE \E r : C(k)!Returns(t, r)
      BY <1>1, <1>2, <1>5, <3>1
         DEF C!Get, C!Works, C!Returns, C!Idle, KeychainTypeOK
    <3>2. CASE keychainKey = NoKey /\ C(k)!Goes(t, "legacy")
      BY <1>1, <1>2, <1>5, <3>2
         DEF C!Get, C!Works, C!Goes, KeychainTypeOK, Calls
    <3> QED BY <1>2, <1>5, <3>1, <3>2 DEF C!Get
  <2> QED BY <2>1 DEF SoundInv, Sound
<1>6. ASSUME NEW t \in k.threads, C(k)!Legacy(t)
      PROVE  SoundInv(k)'
  <2>0. carry
    BY <1>1, <1>6 DEF C!Legacy, C!At, CallsInv
  <2>1. /\ UNCHANGED <<keychainKey, old, carry, faults, promised>>
        /\ (keychainCall'[t].at = "none" \/ (keychainCall'[t].at = "set" /\ old # NoKey))
    <3>1. CASE C(k)!Returns(t, NoKey)
      BY <1>1, <1>2, <1>6, <3>1
         DEF C!Legacy, C!Works, C!Returns, C!Idle, KeychainTypeOK
    <3>2. CASE
        /\ old # NoKey
        /\ keychainCall' = [keychainCall EXCEPT ![t].at = "set", ![t].secret = old]
      BY <1>1, <1>2, <1>6, <3>2 DEF C!Legacy, C!Works, KeychainTypeOK, Calls
    <3> QED BY <1>2, <1>6, <3>1, <3>2 DEF C!Legacy
  <2> QED BY <2>0, <2>1 DEF SoundInv, Sound
<1>7. ASSUME NEW t \in k.threads, C(k)!Set(t)
      PROVE  SoundInv(k)'
  <2> DEFINE s == keychainCall[t].secret
  <2>1. /\ keychainCall[t].at = "set" /\ keychainCall[t].op \in {"read", "store"}
        /\ s \in k.keys /\ promised # NoKey
    BY <1>1, <1>7 DEF C!Set, C!At, CallsInv, SoundInv
  <2>2. /\ UNCHANGED <<carry, faults>>
        /\ \/ C(k)!Goes(t, "forget") /\ promised' = promised
           \/ C(k)!Returns(t, s) /\ C(k)!Promises(t, s)
    BY <1>2, <1>7 DEF C!Set, C!Works
  <2>3. ASSUME C(k)!Promises(t, s)
        PROVE  promised' # NoKey
    <3>1. s # Error /\ s # NoKey
      BY <2>1, Sentinels(k) DEF Sentinels
    <3>2. CASE keychainCall[t].op = "read"
      BY <2>1, <2>3, <3>2 DEF C!Promises
    <3>3. CASE keychainCall[t].op = "store"
      BY <2>3, <3>1, <3>3 DEF C!Promises
    <3> QED BY <2>1, <3>2, <3>3
  <2>4. keychainCall'[t].at \in {"forget", "none"}
    <3>1. CASE C(k)!Goes(t, "forget")
      BY <1>1, <3>1, CallGoes
    <3>2. CASE C(k)!Returns(t, s)
      BY <1>1, <2>1, <3>2, CallReturns
    <3> QED BY <2>2, <3>1, <3>2
  <2>5. promised' # NoKey
    BY <2>1, <2>2, <2>3
  <2> QED BY <2>2, <2>4, <2>5 DEF SoundInv, Sound
<1>8. ASSUME NEW t \in k.threads, C(k)!Forget(t)
      PROVE  SoundInv(k)'
  <2> DEFINE s == keychainCall[t].secret
  <2>1. /\ keychainCall[t].at = "forget" /\ promised # NoKey
        /\ (keychainCall[t].op # "delete" => s \in k.keys)
    BY <1>1, <1>8 DEF C!Forget, C!At, CallsInv, SoundInv
  <2>2. /\ UNCHANGED <<carry, faults>> /\ old' = NoKey
        /\ \/ C(k)!Goes(t, "delete") /\ promised' = promised
           \/ /\ s \in k.keys /\ keychainCall[t].op # "delete"
              /\ C(k)!Returns(t, s) /\ C(k)!Promises(t, s)
    BY <1>2, <1>8, <2>1 DEF C!Forget, C!Works
  <2>3. ASSUME s \in k.keys, keychainCall[t].op # "delete", C(k)!Promises(t, s)
        PROVE  promised' # NoKey
    <3>1. s # Error /\ s # NoKey
      BY <2>3, Sentinels(k) DEF Sentinels
    <3>2. keychainCall[t].op \in {"none", "read", "store", "delete"}
      BY <1>1 DEF KeychainTypeOK, Calls
    <3>3. CASE keychainCall[t].op \in {"none", "read"}
      BY <2>1, <2>3, <3>3 DEF C!Promises
    <3>4. CASE keychainCall[t].op = "store"
      BY <2>3, <3>1, <3>4 DEF C!Promises
    <3> QED BY <2>3, <3>2, <3>3, <3>4
  <2>4. keychainCall'[t].at \in {"delete", "none"}
    <3>1. CASE C(k)!Goes(t, "delete")
      BY <1>1, <3>1, CallGoes
    <3>2. CASE s \in k.keys /\ C(k)!Returns(t, s)
      BY <1>1, <3>2, CallReturns
    <3> QED BY <2>2, <3>1, <3>2
  <2>5. promised' # NoKey
    BY <2>1, <2>2, <2>3
  <2> QED BY <2>2, <2>4, <2>5 DEF SoundInv, Sound
<1>9. ASSUME NEW t \in k.threads, C(k)!Delete(t)
      PROVE  SoundInv(k)'
  <2>1. keychainCall[t].at = "delete" /\ (carry => old = NoKey)
    BY <1>1, <1>9 DEF C!Delete, C!At, SoundInv
  <2>2. /\ UNCHANGED <<old, carry, faults>> /\ keychainKey' = NoKey
        /\ keychainCall'[t].at = "none"
    BY <1>1, <1>2, <1>9 DEF C!Delete, C!Works, C!Returns,
       C!Idle, KeychainTypeOK
  <2> QED BY <2>1, <2>2 DEF SoundInv, Sound
<1>10. CASE UNCHANGED C(k)!vars
  BY <1>10 DEF C!vars, SoundInv
<1> QED BY <1>2, <1>3, <1>4, <1>5, <1>6, <1>7, <1>8, <1>9, <1>10
        DEF C!Next, C!Steps, C!Crash

(* A read of a sound keychain returns what is stored.                      *)
LEMMA SoundReads ==
  ASSUME NEW k, Sound(k), Sentinels(k), KeysHold(k), SoundInv(k),
         [C(k)!Next]_(C(k)!vars)
  PROVE  C(k)!ReadIsStored
<1>1. /\ KeychainTypeOK(k) /\ CallsInv(k) /\ MoversInv(k) /\ C(k)!KeyIsKept
  BY DEF KeysHold
<1>2. ~C(k)!Fails
  BY DEF C!Fails, SoundInv, Sound
<1> SUFFICES ASSUME NEW t \in k.threads,
                    keychainCall[t].op = "read", keychainCall[t].at # "none",
                    promised # Error,
                    keychainCall'[t].op = "read", keychainCall'[t].at = "none"
             PROVE  \/ keychainCall'[t].result = promised
                    \/ env # NoKey /\ keychainCall'[t].result = env
  BY DEF C!ReadIsStored
<1>3. promised \in k.keys \/ promised = NoKey
  BY <1>1 DEF KeychainTypeOK
<1>4. \A u \in k.threads : u = t
  BY DEF Sound
<1>5. CASE C(k)!BeginRead(t) \/ C(k)!BeginWrite(t)
  BY <1>5 DEF C!BeginRead, C!BeginWrite, C!Begin, C!At
<1>6. CASE C(k)!Get(t)
  <2>1. \/ env # NoKey /\ C(k)!Returns(t, env)
        \/ keychainKey # NoKey /\ C(k)!Returns(t, keychainKey)
        \/ keychainKey = NoKey /\ ~carry /\ C(k)!Returns(t, NoKey)
        \/ C(k)!Goes(t, "legacy")
    BY <1>2, <1>6 DEF C!Get
  <2>2. env \in k.keys \cup {NoKey} /\ keychainKey \in k.keys \cup {NoKey}
    BY <1>1 DEF KeychainTypeOK
  <2>3. CASE env # NoKey /\ C(k)!Returns(t, env)
    BY <1>1, <2>2, <2>3, CallReturns
  <2>4. CASE keychainKey # NoKey /\ C(k)!Returns(t, keychainKey)
    <3>1. keychainCall'[t].result = keychainKey
      BY <1>1, <2>2, <2>4, CallReturns
    <3>2. keychainKey = promised
      BY <1>1, <1>3, <2>4 DEF C!KeyIsKept, SoundInv
    <3> QED BY <3>1, <3>2
  <2>5. CASE keychainKey = NoKey /\ ~carry /\ C(k)!Returns(t, NoKey)
    <3>1. keychainCall'[t].result = NoKey
      BY <1>1, <2>5, CallReturns
    <3>2. promised = NoKey
      BY <1>1, <1>3, <2>5 DEF C!KeyIsKept
    <3> QED BY <3>1, <3>2
  <2>6. CASE C(k)!Goes(t, "legacy")
    BY <1>1, <2>6, CallGoes
  <2> QED BY <2>1, <2>3, <2>4, <2>5, <2>6
<1>7. CASE C(k)!Legacy(t)
  <2>1. keychainCall[t].at = "legacy" /\ keychainKey = NoKey
    BY <1>7 DEF C!Legacy, C!At, SoundInv
  <2>2. CASE old = NoKey /\ C(k)!Returns(t, NoKey)
    <3>1. keychainCall'[t].result = NoKey
      BY <1>1, <2>2, CallReturns
    <3>2. promised = NoKey
      BY <1>1, <1>3, <2>1, <2>2, Sentinels(k) DEF C!KeyIsKept, Sentinels
    <3> QED BY <3>1, <3>2
  <2>3. CASE keychainCall' = [keychainCall EXCEPT ![t].at = "set", ![t].secret = old]
    BY <1>1, <2>3 DEF KeychainTypeOK, Calls
  <2> QED BY <1>2, <1>7, <2>2, <2>3 DEF C!Legacy
<1>8. CASE C(k)!Set(t)
  <2>1. carry
    BY <1>1, <1>8 DEF C!Set, C!At, CallsInv
  <2>2. C(k)!Goes(t, "forget")
    BY <1>2, <1>8, <2>1 DEF C!Set
  <2> QED BY <1>1, <2>2, CallGoes
<1>9. CASE C(k)!Forget(t)
  <2>1. /\ keychainCall[t].at = "forget"
        /\ C(k)!Returns(t, keychainCall[t].secret)
    BY <1>9 DEF C!Forget, C!At
  <2>2. keychainCall[t].secret \in k.keys /\ promised # NoKey
    BY <1>1, <2>1 DEF CallsInv, SoundInv
  <2>3. keychainCall[t].secret = promised
    BY <1>1, <1>3, <2>1, <2>2 DEF MoversInv
  <2>4. keychainCall'[t].result = keychainCall[t].secret
    <3>1. keychainCall[t].secret \in k.keys \cup {NoKey, Error}
      BY <2>2
    <3> QED BY <1>1, <2>1, <3>1, CallReturns
  <2> QED BY <2>3, <2>4
<1>10. CASE C(k)!Delete(t)
  BY <1>1, <1>10 DEF C!Delete, C!At, CallsInv
<1>11. CASE UNCHANGED C(k)!vars
  BY <1>11 DEF C!vars
<1> QED BY <1>2, <1>4, <1>5, <1>6, <1>7, <1>8, <1>9, <1>10, <1>11
        DEF C!Next, C!Steps, C!Crash

-----------------------------------------------------------------------------
(* Where a save and a removal run alone, a key the user has and did not    *)
(* replace or remove is in one of the entries, and if nothing failed no    *)
(* copy of it stays behind: for any keys and threads, whatever calls of    *)
(* the keychain fail and wherever the app dies.                            *)
THEOREM KeychainKeepsKeys ==
  ASSUME NEW CONSTANT k, k.alone, Sentinels(k)
  PROVE  C(k)!Spec => [](C(k)!KeyIsKept /\ C(k)!NoStaleCopy)
<1>1. C(k)!Init => KeysHold(k)
  BY KeysHoldInit
<1>2. KeysHold(k) /\ [C(k)!Next]_(C(k)!vars) => KeysHold(k)'
  BY KeysHoldStep
<1>3. KeysHold(k) => C(k)!KeyIsKept /\ C(k)!NoStaleCopy
  BY DEF KeysHold, CopiesInv, C!NoStaleCopy, C!Alone, C!At
<1> QED BY <1>1, <1>2, <1>3, PTL DEF C!Spec

-----------------------------------------------------------------------------
(* Each of the keychain's parts has the invariant while it runs; the one   *)
(* with two threads has it where a save and a removal run alone.           *)
KeychainsHold ==
  /\ part = "keychain" /\ Exclusive => KeysHold(Moves)
  /\ part = "reads" => KeysHold(Reads) /\ SoundInv(Reads)

(* The run's constants are what its keychains assume.                      *)
LEMMA KeychainConstants ==
  /\ Sentinels(Moves) /\ Sentinels(Reads) /\ Sound(Reads)
  /\ (Exclusive => Moves.alone)
BY DesktopAssumption
   DEF DesktopAssumption, C!KeychainAssumption, Sentinels, Sound, Reads, Moves

(* The run starts with each keychain as it must be.                        *)
LEMMA KeychainsInit == Init => KeychainsHold
<1> SUFFICES ASSUME Init PROVE KeychainsHold
  OBVIOUS
<1>1. part = "keychain" => C(Moves)!Init
  BY DEF Init
<1>2. part = "reads" => C(Reads)!Init
  BY DEF Init
<1> QED BY <1>1, <1>2, KeychainConstants, KeysHoldInit, SoundInit DEF KeychainsHold

(* A keychain takes its own steps while its part runs.                     *)
LEMMA KeychainPartStep ==
  ASSUME [Next]_vars
  PROVE  /\ part' = part
         /\ part = "keychain" => [C(Moves)!Next]_(C(Moves)!vars)
         /\ part = "reads" => [C(Reads)!Next]_(C(Reads)!vars)
<1>1. CASE Next
  BY <1>1 DEF Next, keychainVars
<1>2. CASE UNCHANGED vars
  BY <1>2 DEF vars, keychainVars, C!vars
<1> QED BY <1>1, <1>2

(* A step of the run is one of the part that runs.                         *)
LEMMA KeychainsStep ==
  ASSUME KeychainsHold, [Next]_vars
  PROVE  KeychainsHold'
<1>1. /\ Sentinels(Moves) /\ Sentinels(Reads)
      /\ Sound(Reads) /\ Reads.alone
      /\ (Exclusive => Moves.alone)
  BY KeychainConstants DEF Sound
<1>2. part = "keychain" /\ Exclusive => KeysHold(Moves)'
  BY <1>1, KeychainPartStep, KeysHoldStep DEF KeychainsHold
<1>3. part = "reads" => KeysHold(Reads)' /\ SoundInv(Reads)'
  BY <1>1, KeychainPartStep, KeysHoldStep, SoundStep DEF KeychainsHold
<1> QED BY <1>2, <1>3, KeychainPartStep DEF KeychainsHold

(* Where a save and a removal run alone, a key the user has and did not    *)
(* replace or remove is in one of the entries whatever call fails and      *)
(* wherever the app dies; if nothing failed no copy stays behind; and a    *)
(* removed key stays removed.                                              *)
THEOREM KeysAreKept ==
  ASSUME Exclusive
  PROVE  Spec => []KeychainInv
<1>1. Init => KeychainsHold
  BY KeychainsInit
<1>2. KeychainsHold /\ [Next]_vars => KeychainsHold'
  BY KeychainsStep
<1>3. KeychainsHold => KeychainInv
  <2>1. ASSUME NEW k, KeysHold(k)
        PROVE  C(k)!KeyIsKept /\ C(k)!NoStaleCopy
    BY <2>1 DEF KeysHold, CopiesInv, C!NoStaleCopy, C!Alone, C!At
  <2>2. ASSUME NEW k, SoundInv(k)
        PROVE  C(k)!RemovedStaysRemoved
    BY <2>2 DEF SoundInv, C!RemovedStaysRemoved
  <2> QED BY <2>1, <2>2 DEF KeychainsHold, KeychainInv, C!KeychainInv
<1> QED BY <1>1, <1>2, <1>3, PTL DEF Spec

(* Where no call fails, a read returns what the user was told is stored or *)
(* what the environment has.                                               *)
THEOREM ReadsAreOfWhatIsStored ==
  Spec => [][part = "reads" => C(Reads)!ReadIsStored]_vars
<1>1. Init => KeychainsHold
  BY KeychainsInit
<1>2. KeychainsHold /\ [Next]_vars => KeychainsHold'
  BY KeychainsStep
<1>3. KeychainsHold /\ [Next]_vars
        => (part = "reads" => C(Reads)!ReadIsStored)
  BY KeychainConstants, KeychainPartStep, SoundReads DEF KeychainsHold
<1> QED BY <1>1, <1>2, <1>3, PTL DEF Spec
-----------------------------------------------------------------------------
(* The global hotkeys: k says which chords there are and how often they    *)
(* are bound.                                                              *)

Bound == {"dictation", "command"}
OtherOf(s) == IF s = "dictation" THEN "command" ELSE "dictation"
Bindable(k) == k.choices \cup {k.default[s] : s \in Bound}
Pages == Bound \cup {"debug", "dead"}
Adds(k) == [op : {"register"}, slot : Bound \cup {"debug"}, chord : k.chords,
            falls : BOOLEAN]

(* Who may have which chord, and what is left to a slot that has met no    *)
(* other holder of its chord.                                              *)
ChordsOK(k) ==
  /\ setting \in [Bound -> Bindable(k)] /\ want \in [Bound -> Bindable(k)]
  /\ holder \in [k.chords -> Pages \cup {"free", "foreign", "card"}]
  /\ clash \subseteq Bound /\ registered \subseteq k.chords
  /\ \A c \in k.chords :
       /\ holder[c] = "foreign" => c \in k.choices
       /\ holder[c] = "card" => c = k.card
       /\ holder[c] = "debug" => c = k.debug
       /\ holder[c] \in Pages => c # k.card
  /\ \A s \in Bound \ clash :
       /\ setting[s] \notin {k.debug, setting[OtherOf(s)], k.default[OtherOf(s)]}
       /\ holder[setting[s]] # "foreign"

(* What the page wants of a slot once it has heard of its last setting.    *)
Wants(k, s) ==
  /\ want[s] \in {setting[s], k.default[s]}
  /\ s \notin clash => want[s] = setting[s]

(* A new page: the chords of the last one are dead, and among those the    *)
(* next refresh takes back.                                                *)
Loading(k) ==
  /\ loading /\ events = <<>> /\ calls = <<>> /\ registered = {}
  /\ \A c \in k.chords :
       /\ holder[c] \notin Bound \cup {"debug"}
       /\ holder[c] = "dead" => \/ c = k.debug
                                \/ \E s \in Bound : c \in {setting[s], k.default[s]}

(* A slot was rebound and the page has not heard of it.                    *)
Heard(k) ==
  /\ ~loading /\ calls = <<>>
  /\ \A c \in k.chords : /\ holder[c] # "dead"
                         /\ holder[c] \in Pages => c \in registered
  /\ \A c \in registered : holder[c] \in Bound \cup {"debug"}
  /\ \E s \in Bound : events = <<s>> /\ Wants(k, OtherOf(s))

(* All the page's chords are being taken back, the card's are not.         *)
Taking(k) ==
  /\ ~loading /\ events = <<>> /\ registered = {}
  /\ \A s \in Bound : Wants(k, s)
  /\ \E chords \in SUBSET (k.chords \ {k.card}) :
       /\ calls = <<[op |-> "unregister", chords |-> chords]>>
       /\ \A c \in k.chords : holder[c] \in Pages => c \in chords

(* A call to register a slot that is not answered.                         *)
Pending(s) == \E i \in 1..Len(calls) : calls[i].slot = s

(* A call carries what its slot wants, and there is one for each slot.     *)
CallsOK(k) ==
  /\ calls \in Seq(Adds(k))
  /\ \A i \in 1..Len(calls) :
       /\ calls[i].slot = "debug" => calls[i].chord = k.debug /\ ~calls[i].falls
       /\ calls[i].slot \in Bound =>
            /\ calls[i].chord = want[calls[i].slot]
            /\ calls[i].falls \/ want[calls[i].slot] = k.default[calls[i].slot]
  /\ \A i, j \in 1..Len(calls) : calls[i].slot = calls[j].slot => i = j

(* A slot has no chord while its call is pending; then one that met no     *)
(* other holder has its own, and dictation has one.                        *)
SlotsOK(k) ==
  /\ \A c \in k.chords : \A s \in Bound :
       holder[c] = s => c = want[s] /\ ~Pending(s)
  /\ \A s \in Bound \ clash : ~Pending(s) => holder[setting[s]] = s
  /\ ~Pending("dictation") /\ setting["command"] # k.default["dictation"]
       => \E c \in k.chords : holder[c] = "dictation"

(* The chords are being registered, or are.                                *)
Live(k) ==
  /\ ~loading /\ events = <<>>
  /\ CallsOK(k) /\ SlotsOK(k)
  /\ \A s \in Bound : Wants(k, s)
  /\ \A c \in k.chords : holder[c] # "dead"
  /\ registered = {c \in k.chords : holder[c] \in Bound \cup {"debug"}}

(* The inductive invariant of the hotkeys.                                 *)
HotkeysHold(k) ==
  ChordsOK(k) /\ (Loading(k) \/ Heard(k) \/ Taking(k) \/ Live(k))

(* What the hotkeys assume, for chords that are rebound once the last are  *)
(* in force.                                                               *)
Apart(k) == G(k)!HotkeysAssumption /\ ~k.overlapping

(* What these say of the chords and the slots.                             *)
LEMMA ChordsApart ==
  ASSUME NEW k, Apart(k)
  PROVE  /\ k.default \in [Bound -> k.chords]
         /\ k.default["dictation"] # k.default["command"]
         /\ \A s \in Bound : /\ k.default[s] \notin k.choices
                             /\ k.default[s] \notin {k.debug, k.card}
         /\ Bindable(k) \subseteq k.chords /\ k.card \notin Bindable(k)
         /\ k.choices \subseteq k.chords /\ k.card \in k.chords /\ k.card # k.debug
         /\ k.debug \in k.chords
BY DEF Apart, G!HotkeysAssumption, G!Slots, Bound, Bindable

(* A mounted page starts with the defaults and no chord.                   *)
LEMMA HotkeysInit ==
  ASSUME NEW k, Apart(k), G(k)!Init
  PROVE  HotkeysHold(k)
<1>1. /\ setting \in [Bound -> Bindable(k)] /\ want = k.default
      /\ clash = {s \in Bound : setting[s] \in G(k)!Contended(s, setting)}
      /\ events = <<>> /\ loading = TRUE /\ registered = {} /\ calls = <<>>
  BY DEF G!Init, G!Slots, Bound, Bindable
<1>2. /\ holder \in [k.chords -> {"free", "foreign"}]
      /\ \A c \in k.chords : holder[c] = "foreign" => c \in k.choices
  BY DEF G!Init
<1>3. want \in [Bound -> Bindable(k)]
  BY <1>1, ChordsApart DEF Bindable
<1>4. ASSUME NEW s \in Bound \ clash
      PROVE  /\ setting[s] \notin {k.debug, setting[OtherOf(s)], k.default[OtherOf(s)]}
             /\ holder[setting[s]] # "foreign"
  BY <1>1, <1>4, ChordsApart DEF G!Contended, G!Other, OtherOf
<1>5. ChordsOK(k)
  BY <1>1, <1>2, <1>3, <1>4 DEF ChordsOK, Pages, Bound
<1>6. Loading(k)
  BY <1>1, <1>2 DEF Loading, Bound
<1> QED BY <1>5, <1>6 DEF HotkeysHold

(* What holds once the calls are answered.                                 *)
LEMMA HotkeysMeans ==
  ASSUME NEW k, Apart(k), HotkeysHold(k)
  PROVE  G(k)!HotkeysInv
<1>1. ChordsOK(k)
  BY DEF HotkeysHold
<1>2. ASSUME G(k)!Quiet
      PROVE  Live(k) /\ \A s : ~Pending(s)
  BY <1>2 DEF HotkeysHold, G!Quiet, Loading, Heard, Taking, Live, Pending
<1>3. G(k)!HotkeysTypeOK
  <2>1. setting \in [Bound -> k.chords] /\ want \in [Bound -> k.chords]
    BY <1>1, ChordsApart DEF ChordsOK
  <2> QED BY <1>1, <1>2, <2>1 DEF ChordsOK, Live, G!HotkeysTypeOK, G!Slots,
         G!Holders, G!PageHolders, Bound, Pages
<1>4. G(k)!RebindStands
  <2> SUFFICES ASSUME G(k)!Quiet, NEW s \in Bound \ clash
               PROVE  {c \in k.chords : holder[c] = s} = {setting[s]}
    BY DEF G!RebindStands, G!Of, G!Slots, Bound
  <2>1. Live(k) /\ ~Pending(s)
    BY <1>2
  <2>2. holder[setting[s]] = s /\ setting[s] \in k.chords
    BY <1>1, <2>1, ChordsApart DEF Live, SlotsOK, ChordsOK
  <2>3. ASSUME NEW c \in k.chords, holder[c] = s
        PROVE  c = setting[s]
    BY <2>1, <2>3 DEF Live, SlotsOK, Wants
  <2> QED BY <2>2, <2>3
<1>5. G(k)!NoDeadChord
  BY <1>2 DEF G!NoDeadChord, G!Of, Live
<1>6. G(k)!DictationFallsBack
  BY <1>2 DEF G!DictationFallsBack, G!Of, Live, SlotsOK
<1> QED BY <1>3, <1>4, <1>5, <1>6 DEF G!HotkeysInv

(* The rest of a list of calls once its head is answered.                  *)
LEMMA RestOfCalls ==
  ASSUME NEW Call, NEW q \in Seq(Call), q # <<>>
  PROVE  /\ Tail(q) \in Seq(Call) /\ Head(q) = q[1] /\ Head(q) \in Call
         /\ Len(q) \in Nat \ {0} /\ Len(Tail(q)) = Len(q) - 1
         /\ \A i \in 1..Len(Tail(q)) : Tail(q)[i] = q[i + 1] /\ i + 1 \in 1..Len(q)
OBVIOUS

(* Three calls after none are three.                                       *)
LEMMA ThreeMore == ASSUME NEW a, NEW b, NEW c PROVE <<>> \o <<a, b, c>> = <<a, b, c>>
OBVIOUS

(* The card's chord comes and goes, and no one else's.                     *)
LEMMA HotkeysCard ==
  ASSUME NEW k, Apart(k), HotkeysHold(k), G(k)!CardShows \/ G(k)!CardCloses
  PROVE  HotkeysHold(k)'
<1>1. /\ ChordsOK(k) /\ (Loading(k) \/ Heard(k) \/ Taking(k) \/ Live(k))
  BY DEF HotkeysHold
<1>2. /\ UNCHANGED <<setting, events, loading, want, registered, calls, clash>>
      /\ holder' \in [k.chords -> Pages \cup {"free", "foreign", "card"}]
      /\ holder[k.card] \notin Pages /\ holder'[k.card] \in {"free", "card"}
      /\ \A c \in k.chords \ {k.card} : holder'[c] = holder[c]
  BY <1>1, ChordsApart DEF G!CardShows, G!CardCloses, ChordsOK
<1>3. ChordsOK(k)'
  BY <1>1, <1>2, ChordsApart DEF ChordsOK, Pages, Bound
<1>4. \A c \in k.chords : holder[c] \in Pages \/ holder'[c] \in Pages => holder'[c] = holder[c]
  BY <1>2 DEF Pages, Bound
<1>5. CASE Loading(k)
  BY <1>2, <1>3, <1>4, <1>5 DEF HotkeysHold, Loading, Pages
<1>6. CASE Heard(k)
  BY <1>1, <1>2, <1>3, <1>4, <1>6 DEF HotkeysHold, Heard, Pages, Wants, ChordsOK
<1>7. CASE Taking(k)
  BY <1>2, <1>3, <1>4, <1>7 DEF HotkeysHold, Taking, Wants
<1>8. CASE Live(k)
  <2>1. CallsOK(k)'
    BY <1>2, <1>8 DEF Live, CallsOK
  <2>2. \A s : Pending(s)' <=> Pending(s)
    BY <1>2 DEF Pending
  <2>3. SlotsOK(k)'
    <3>1. ASSUME NEW s \in Bound \ clash, ~Pending(s)
          PROVE  holder'[setting[s]] = s
      <4>1. setting[s] \in k.chords /\ holder[setting[s]] = s
        BY <1>1, <1>8, <3>1, ChordsApart DEF Live, SlotsOK, ChordsOK
      <4> QED BY <1>4, <4>1 DEF Pages
    <3>2. ASSUME ~Pending("dictation"), setting["command"] # k.default["dictation"]
          PROVE  \E c \in k.chords : holder'[c] = "dictation"
      BY <1>4, <1>8, <3>2 DEF Live, SlotsOK, Pages, Bound
    <3>3. \A c \in k.chords : \A s \in Bound : holder'[c] = s => holder[c] = s
      BY <1>4 DEF Pages
    <3> QED BY <1>2, <1>8, <2>2, <3>1, <3>2, <3>3 DEF Live, SlotsOK
  <2>4. registered' = {c \in k.chords : holder'[c] \in Bound \cup {"debug"}}
    BY <1>2, <1>4, <1>8 DEF Live, Pages
  <2>5. \A c \in k.chords : holder'[c] # "dead"
    BY <1>4, <1>8 DEF Live, Pages
  <2>6. Live(k)'
    BY <1>2, <1>8, <2>1, <2>3, <2>4, <2>5 DEF Live, Wants
  <2> QED BY <1>3, <2>6 DEF HotkeysHold
<1> QED BY <1>1, <1>5, <1>6, <1>7, <1>8

(* A page that is mounted reads the settings and takes back what they and  *)
(* the defaults name, which is all a page before it may have had.          *)
LEMMA HotkeysLoad ==
  ASSUME NEW k, Apart(k), HotkeysHold(k), G(k)!LoadSettings
  PROVE  HotkeysHold(k)'
<1>1. ChordsOK(k) /\ Loading(k)
  BY DEF HotkeysHold, G!LoadSettings, Heard, Taking, Live
<1> DEFINE X == registered \cup {k.debug} \cup {setting[s] : s \in Bound}
                  \cup {k.default[s] : s \in Bound}
<1>2. /\ loading' = FALSE /\ want' = setting /\ registered' = {}
      /\ calls' = Append(calls, [op |-> "unregister", chords |-> X])
      /\ UNCHANGED <<setting, events, holder, clash>>
  BY DEF G!LoadSettings, G!Refresh, G!TakeBack, G!ToTakeBack,
     G!Slots, Bound
<1>3. calls' = <<[op |-> "unregister", chords |-> X]>>
  BY <1>1, <1>2 DEF Loading
<1>4. X \in SUBSET (k.chords \ {k.card})
  BY <1>1, ChordsApart DEF Loading, ChordsOK, Bindable
<1>5. \A c \in k.chords : holder[c] \in Pages => c \in X
  BY <1>1 DEF Loading, Pages
<1> HIDE DEF X
<1>6. ChordsOK(k)'
  BY <1>1, <1>2 DEF ChordsOK
<1>7. Taking(k)'
  <2>1. \A s \in Bound : Wants(k, s)'
    BY <1>2 DEF Wants
  <2> QED BY <1>1, <1>2, <1>3, <1>4, <1>5, <2>1 DEF Taking, Loading
<1> QED BY <1>6, <1>7 DEF HotkeysHold

(* The page hears that a slot was rebound and takes back what it has.      *)
LEMMA HotkeysHear ==
  ASSUME NEW k, Apart(k), HotkeysHold(k), G(k)!HearRebound
  PROVE  HotkeysHold(k)'
<1>1. ChordsOK(k) /\ Heard(k)
  BY DEF HotkeysHold, G!HearRebound, Loading, Taking, Live
<1>2. PICK s \in Bound : events = <<s>> /\ Wants(k, OtherOf(s))
  BY <1>1 DEF Heard
<1> DEFINE X == registered \cup {k.debug} \cup {want'[t] : t \in Bound}
                  \cup {k.default[t] : t \in Bound}
<1>3. /\ ~loading' /\ events' = <<>> /\ registered' = {}
      /\ want' = [want EXCEPT ![s] = setting[s]]
      /\ calls' = Append(calls, [op |-> "unregister", chords |-> X])
      /\ UNCHANGED <<setting, holder, clash>>
  BY <1>2 DEF G!HearRebound, G!Refresh, G!TakeBack, G!ToTakeBack,
     G!Slots, Bound
<1>4. calls' = <<[op |-> "unregister", chords |-> X]>>
  BY <1>1, <1>3 DEF Heard
<1>5. want' \in [Bound -> Bindable(k)] /\ want'[s] = setting[s]
      /\ want'[OtherOf(s)] = want[OtherOf(s)]
  BY <1>1, <1>3 DEF ChordsOK, OtherOf, Bound
<1>6. X \in SUBSET (k.chords \ {k.card})
  <2>1. registered \subseteq k.chords \ {k.card}
    BY <1>1 DEF ChordsOK, Heard, Pages
  <2> QED BY <1>5, <2>1, ChordsApart
<1>7. \A c \in k.chords : holder[c] \in Pages => c \in X
  BY <1>1 DEF Heard
<1> HIDE DEF X
<1>8. ChordsOK(k)'
  BY <1>1, <1>3, <1>5 DEF ChordsOK
<1>9. Taking(k)'
  <2>1. Wants(k, s)' /\ Wants(k, OtherOf(s))'
    BY <1>2, <1>3, <1>5 DEF Wants
  <2>2. \A t \in Bound : t = s \/ t = OtherOf(s)
    BY DEF Bound, OtherOf
  <2> QED BY <1>3, <1>4, <1>6, <1>7, <2>1, <2>2 DEF Taking
<1> QED BY <1>8, <1>9 DEF HotkeysHold

(* Once all is taken back, the current chords are registered.              *)
LEMMA HotkeysTaken ==
  ASSUME NEW k, Apart(k), HotkeysHold(k), G(k)!Unregistered
  PROVE  HotkeysHold(k)'
<1> DEFINE A == [op |-> "register", slot |-> "debug", chord |-> k.debug, falls |-> FALSE]
           D == [op |-> "register", slot |-> "dictation", chord |-> want["dictation"],
                 falls |-> TRUE]
           M == [op |-> "register", slot |-> "command", chord |-> want["command"],
                 falls |-> TRUE]
<1>1. ChordsOK(k) /\ Taking(k)
  <2>1. ASSUME Live(k)
        PROVE  FALSE
    <3>1. calls # <<>> /\ calls \in Seq(Adds(k)) /\ Head(calls).op = "unregister"
      BY <2>1 DEF Live, CallsOK, G!Unregistered
    <3>2. Head(calls) \in Adds(k)
      BY <3>1, RestOfCalls
    <3> QED BY <3>1, <3>2 DEF Adds
  <2> QED BY <2>1 DEF HotkeysHold, G!Unregistered, Loading, Heard
<1>2. PICK chords \in SUBSET (k.chords \ {k.card}) :
        /\ calls = <<[op |-> "unregister", chords |-> chords]>>
        /\ \A c \in k.chords : holder[c] \in Pages => c \in chords
  BY <1>1 DEF Taking
<1>3. Head(calls).chords = chords /\ Tail(calls) = <<>>
  BY <1>2
<1>4. /\ holder' = [c \in k.chords |->
           IF c \in chords /\ holder[c] \in Pages \cup {"card"} THEN "free" ELSE holder[c]]
      /\ calls' = Tail(calls) \o <<A, D, M>>
      /\ UNCHANGED <<setting, events, loading, want, registered, clash>>
  BY <1>3 DEF G!Unregistered, G!Add, G!PageHolders, G!Slots, Bound, Pages
<1>5. calls' = <<A, D, M>>
  BY <1>3, <1>4, ThreeMore
<1>6. /\ holder' \in [k.chords -> {"free", "foreign", "card"}]
      /\ \A c \in k.chords : holder'[c] # "free" => holder'[c] = holder[c]
  BY <1>1, <1>2, <1>4 DEF ChordsOK
<1>7. ChordsOK(k)'
  <2>1. \A s \in Bound : setting[s] \in k.chords
    BY <1>1, ChordsApart DEF ChordsOK
  <2> QED BY <1>1, <1>4, <1>6, <2>1 DEF ChordsOK, Pages, Bound
<1>8. CallsOK(k)'
  <2>1. A \in Adds(k) /\ D \in Adds(k) /\ M \in Adds(k)
    <3>1. want["dictation"] \in k.chords /\ want["command"] \in k.chords
      BY <1>1, ChordsApart DEF ChordsOK, Bound
    <3> QED BY <3>1, ChordsApart DEF Adds, Bound
  <2>2. calls' \in Seq(Adds(k)) /\ Len(calls') = 3
        /\ calls'[1] = A /\ calls'[2] = D /\ calls'[3] = M
    <3> HIDE DEF A, D, M
    <3> QED BY <1>5, <2>1
  <2> QED BY <1>4, <2>2 DEF CallsOK, Bound
<1>9. \A s \in Bound : Pending(s)'
  <2>1. Len(calls') = 3 /\ calls'[2].slot = "dictation" /\ calls'[3].slot = "command"
    BY <1>5
  <2> QED BY <2>1 DEF Pending, Bound
<1>10. SlotsOK(k)'
  BY <1>6, <1>9 DEF SlotsOK, Bound
<1>11. registered' = {c \in k.chords : holder'[c] \in Bound \cup {"debug"}}
  BY <1>1, <1>4, <1>6 DEF Taking, Bound
<1>12. Live(k)'
  BY <1>1, <1>4, <1>6, <1>8, <1>10, <1>11 DEF Taking, Live, Wants
<1> QED BY <1>7, <1>12 DEF HotkeysHold

(* The calls that are left after the first, and what is pending then.      *)
LEMMA CallsLeft ==
  ASSUME NEW k, CallsOK(k), calls # <<>>
  PROVE  /\ Head(calls) \in Adds(k) /\ Tail(calls) \in Seq(Adds(k))
         /\ Head(calls).slot = "debug" => Head(calls).chord = k.debug /\ ~Head(calls).falls
         /\ Head(calls).slot \in Bound =>
              /\ Head(calls).chord = want[Head(calls).slot] /\ Pending(Head(calls).slot)
              /\ Head(calls).falls
                   \/ want[Head(calls).slot] = k.default[Head(calls).slot]
         /\ \A i \in 1..Len(Tail(calls)) :
              /\ Tail(calls)[i].slot # Head(calls).slot
              /\ Tail(calls)[i].slot = "debug" =>
                   Tail(calls)[i].chord = k.debug /\ ~Tail(calls)[i].falls
              /\ Tail(calls)[i].slot \in Bound =>
                   /\ Tail(calls)[i].chord = want[Tail(calls)[i].slot]
                   /\ Tail(calls)[i].falls
                        \/ want[Tail(calls)[i].slot] = k.default[Tail(calls)[i].slot]
         /\ \A i, j \in 1..Len(Tail(calls)) :
              Tail(calls)[i].slot = Tail(calls)[j].slot => i = j
         /\ \A s : Pending(s) <=>
              \/ s = Head(calls).slot
              \/ \E i \in 1..Len(Tail(calls)) : Tail(calls)[i].slot = s
<1> DEFINE q == calls
<1>1. q \in Seq(Adds(k)) /\ q # <<>>
  BY DEF CallsOK
<1>2. /\ Tail(q) \in Seq(Adds(k)) /\ Head(q) = q[1] /\ Head(q) \in Adds(k)
      /\ Len(q) \in Nat \ {0} /\ Len(Tail(q)) = Len(q) - 1
      /\ \A i \in 1..Len(Tail(q)) : Tail(q)[i] = q[i + 1] /\ i + 1 \in 1..Len(q)
  BY <1>1, RestOfCalls
<1>3. 1 \in 1..Len(q)
  BY <1>2
<1>4. \A i \in 1..Len(Tail(q)) : i # 0 /\ i + 1 # 1
  BY <1>2
<1>5. \A s : Pending(s) <=> \/ s = Head(q).slot
                            \/ \E i \in 1..Len(Tail(q)) : Tail(q)[i].slot = s
  <2> SUFFICES ASSUME NEW s
               PROVE  (\E i \in 1..Len(q) : q[i].slot = s)
                        <=> \/ s = q[1].slot
                            \/ \E i \in 1..Len(Tail(q)) : Tail(q)[i].slot = s
    BY <1>2 DEF Pending
  <2>1. ASSUME NEW i \in 1..Len(q), q[i].slot = s
        PROVE  i = 1 \/ \E j \in 1..Len(Tail(q)) : Tail(q)[j].slot = s
    <3>1. CASE i # 1
      <4>1. i - 1 \in 1..Len(Tail(q)) /\ (i - 1) + 1 = i
        BY <1>2, <3>1
      <4>2. Tail(q)[i - 1] = q[i]
        BY <1>2, <4>1
      <4> QED BY <2>1, <4>1, <4>2
    <3> QED BY <3>1
  <2> QED BY <1>2, <1>3, <2>1
<1>6. /\ \A i \in 1..Len(q) :
           /\ q[i].slot = "debug" => q[i].chord = k.debug /\ ~q[i].falls
           /\ q[i].slot \in Bound =>
                q[i].chord = want[q[i].slot]
                /\ (q[i].falls \/ want[q[i].slot] = k.default[q[i].slot])
      /\ \A i, j \in 1..Len(q) : q[i].slot = q[j].slot => i = j
  BY DEF CallsOK
<1>7. \A i \in 1..Len(Tail(q)) : Tail(q)[i].slot # Head(q).slot
  BY <1>2, <1>3, <1>4, <1>6
<1>8. \A i, j \in 1..Len(Tail(q)) : Tail(q)[i].slot = Tail(q)[j].slot => i = j
  <2> SUFFICES ASSUME NEW i \in 1..Len(Tail(q)), NEW j \in 1..Len(Tail(q)),
                      Tail(q)[i].slot = Tail(q)[j].slot
               PROVE  i = j
    OBVIOUS
  <2>1. i + 1 = j + 1
    BY <1>2, <1>6
  <2> QED BY <2>1
<1> HIDE DEF q
<1>9. \A i \in 1..Len(Tail(q)) :
        /\ Tail(q)[i].slot = "debug" => Tail(q)[i].chord = k.debug /\ ~Tail(q)[i].falls
        /\ Tail(q)[i].slot \in Bound =>
             Tail(q)[i].chord = want[Tail(q)[i].slot]
             /\ (Tail(q)[i].falls \/ want[Tail(q)[i].slot] = k.default[Tail(q)[i].slot])
  BY <1>2, <1>6
<1> QED BY <1>2, <1>3, <1>5, <1>6, <1>7, <1>8, <1>9 DEF q

(* What a slot wants is free until it has it, where the slot has met no    *)
(* other holder, and so is dictation's default.                            *)
LEMMA FreeUntilHeld ==
  ASSUME NEW k, Apart(k), ChordsOK(k), Live(k)
  PROVE  /\ \A s \in Bound \ clash : Pending(s) => holder[want[s]] = "free"
         /\ Pending("dictation") /\ setting["command"] # k.default["dictation"]
              => holder[k.default["dictation"]] = "free"
<1>1. /\ \A c \in k.chords : \A s \in Bound : holder[c] = s => c = want[s] /\ ~Pending(s)
      /\ \A c \in k.chords : holder[c] # "dead"
      /\ \A s \in Bound : Wants(k, s)
  BY DEF Live, SlotsOK
<1>2. ASSUME NEW s \in Bound \ clash, Pending(s)
      PROVE  holder[want[s]] = "free"
  <2>1. /\ want[s] = setting[s] /\ want[s] \in k.chords /\ want[s] # k.card
        /\ want[s] \notin {k.debug, setting[OtherOf(s)], k.default[OtherOf(s)]}
        /\ holder[want[s]] # "foreign"
    BY <1>1, ChordsApart DEF Wants, ChordsOK
  <2>2. want[OtherOf(s)] \in {setting[OtherOf(s)], k.default[OtherOf(s)]}
        /\ OtherOf(s) \in Bound /\ Bound = {s, OtherOf(s)}
    BY <1>1 DEF Wants, Bound, OtherOf
  <2>3. holder[want[s]] # s /\ holder[want[s]] # OtherOf(s)
    BY <1>1, <1>2, <2>1, <2>2
  <2>4. holder[want[s]] \notin {"debug", "card", "dead"}
    BY <1>1, <2>1 DEF ChordsOK
  <2> QED BY <2>1, <2>2, <2>3, <2>4 DEF ChordsOK, Pages
<1>3. ASSUME Pending("dictation"), setting["command"] # k.default["dictation"]
      PROVE  holder[k.default["dictation"]] = "free"
  <2> DEFINE c == k.default["dictation"]
  <2>1. c \in k.chords /\ c # k.card /\ c # k.debug /\ c \notin k.choices
        /\ c # k.default["command"]
    BY ChordsApart DEF Bound
  <2>2. want["command"] # c
    BY <1>1, <1>3, <2>1 DEF Wants, Bound
  <2> HIDE DEF c
  <2>3. holder[c] \notin {"dictation", "command"}
    BY <1>1, <1>3, <2>1, <2>2 DEF Bound
  <2>4. holder[c] \notin {"debug", "card", "dead", "foreign"}
    BY <1>1, <2>1 DEF ChordsOK
  <2> QED BY <2>1, <2>3, <2>4 DEF ChordsOK, Pages, Bound, c
<1> QED BY <1>2, <1>3

(* Only live hotkeys have a call to register answered.                     *)
LEMMA RegisteringIsLive ==
  ASSUME NEW k, HotkeysHold(k), calls # <<>>, Head(calls).op = "register"
  PROVE  ChordsOK(k) /\ Live(k)
<1>1. ~Taking(k)
  <2> SUFFICES ASSUME NEW X, calls = <<[op |-> "unregister", chords |-> X]>>
               PROVE  FALSE
    BY DEF Taking
  <2> QED OBVIOUS
<1> QED BY <1>1 DEF HotkeysHold, Loading, Heard

(* A chord that is free is registered for its slot.                        *)
LEMMA HotkeysRegister ==
  ASSUME NEW k, Apart(k), HotkeysHold(k), G(k)!Registered
  PROVE  HotkeysHold(k)'
<1> DEFINE first == Head(calls)
<1>1. /\ calls # <<>> /\ first.op = "register" /\ holder[first.chord] = "free"
      /\ holder' = [holder EXCEPT ![first.chord] = first.slot]
      /\ registered' = registered \cup {first.chord}
      /\ calls' = Tail(calls)
      /\ UNCHANGED <<setting, events, loading, want, clash>>
  BY DEF G!Registered
<1>2. ChordsOK(k) /\ Live(k) /\ CallsOK(k) /\ SlotsOK(k)
  BY <1>1, RegisteringIsLive DEF Live
<1>3. /\ first.chord \in k.chords /\ first.slot \in Bound \cup {"debug"}
      /\ first.slot = "debug" => first.chord = k.debug
      /\ first.slot \in Bound => first.chord = want[first.slot]
      /\ \A s : Pending(s) <=> s = first.slot \/ Pending(s)'
      /\ \A s : s = first.slot => ~Pending(s)'
  <2>1. calls # <<>> /\ calls' = Tail(calls)
    BY <1>1
  <2>2. first \in Adds(k)
    BY <1>2, <2>1, CallsLeft
  <2>3. \A s : Pending(s) <=>
          s = first.slot \/ \E i \in 1..Len(Tail(calls)) : Tail(calls)[i].slot = s
    BY <1>2, <2>1, CallsLeft
  <2>4. \A s : Pending(s)' <=> \E i \in 1..Len(Tail(calls)) : Tail(calls)[i].slot = s
    BY <2>1 DEF Pending
  <2>5. \A i \in 1..Len(Tail(calls)) : Tail(calls)[i].slot # first.slot
    BY <1>2, <2>1, CallsLeft
  <2>6. /\ first.slot = "debug" => first.chord = k.debug
        /\ first.slot \in Bound => first.chord = want[first.slot]
    BY <1>2, <2>1, CallsLeft
  <2>7. first.chord \in k.chords /\ first.slot \in Bound \cup {"debug"}
    BY <2>2 DEF Adds
  <2> HIDE DEF first
  <2> QED BY <2>3, <2>4, <2>5, <2>6, <2>7
<1>4. CallsOK(k)'
  BY <1>1, <1>2, CallsLeft DEF CallsOK
<1> HIDE DEF first
<1>5. first.chord # k.card
  BY <1>2, <1>3, ChordsApart DEF ChordsOK, Bound
<1>6. /\ holder' \in [k.chords -> Pages \cup {"free", "foreign", "card"}]
      /\ holder'[first.chord] = first.slot
      /\ \A c \in k.chords \ {first.chord} : holder'[c] = holder[c]
  BY <1>1, <1>2, <1>3 DEF ChordsOK, Pages
<1>7. ChordsOK(k)'
  <2>1. \A s \in Bound : setting[s] \in k.chords
    BY <1>2, ChordsApart DEF ChordsOK
  <2>2. \A c \in k.chords :
          /\ holder'[c] = "foreign" => c \in k.choices
          /\ holder'[c] = "card" => c = k.card
          /\ holder'[c] = "debug" => c = k.debug
          /\ holder'[c] \in Pages => c # k.card
    BY <1>2, <1>3, <1>5, <1>6 DEF ChordsOK, Bound
  <2>3. \A s \in Bound \ clash : holder'[setting[s]] # "foreign"
    BY <1>2, <1>3, <1>6, <2>1 DEF ChordsOK, Bound
  <2>4. registered' \subseteq k.chords
    BY <1>1, <1>2, <1>3 DEF ChordsOK
  <2> QED BY <1>1, <1>2, <1>6, <2>2, <2>3, <2>4 DEF ChordsOK
<1>8. SlotsOK(k)'
  <2>1. ASSUME NEW c \in k.chords, NEW s \in Bound, holder'[c] = s
        PROVE  c = want[s] /\ ~Pending(s)'
    <3>1. CASE c = first.chord
      BY <1>3, <1>6, <2>1, <3>1
    <3>2. CASE c # first.chord
      BY <1>2, <1>3, <1>6, <2>1, <3>2 DEF SlotsOK
    <3> QED BY <3>1, <3>2
  <2>2. ASSUME NEW s \in Bound \ clash, ~Pending(s)'
        PROVE  holder'[setting[s]] = s
    <3>1. want[s] = setting[s] /\ setting[s] \in k.chords
      BY <1>2, ChordsApart DEF Live, Wants, ChordsOK
    <3>2. CASE s = first.slot
      BY <1>3, <1>6, <3>1, <3>2
    <3>3. CASE s # first.slot
      <4>1. holder[setting[s]] = s
        BY <1>2, <1>3, <2>2, <3>3 DEF SlotsOK
      <4>2. setting[s] # first.chord
        BY <1>1, <4>1 DEF Bound, first
      <4> QED BY <1>6, <3>1, <4>1, <4>2
    <3> QED BY <3>2, <3>3
  <2>3. ASSUME ~Pending("dictation")', setting["command"] # k.default["dictation"]
        PROVE  \E c \in k.chords : holder'[c] = "dictation"
    <3>1. CASE first.slot = "dictation"
      BY <1>3, <1>6, <3>1
    <3>2. CASE first.slot # "dictation"
      <4>1. PICK c \in k.chords : holder[c] = "dictation"
        BY <1>2, <1>3, <2>3, <3>2 DEF SlotsOK
      <4>2. c # first.chord
        BY <1>1, <4>1 DEF first
      <4> QED BY <1>6, <4>1, <4>2
    <3> QED BY <3>1, <3>2
  <2> QED BY <1>1, <2>1, <2>2, <2>3 DEF SlotsOK
<1>9. registered' = {c \in k.chords : holder'[c] \in Bound \cup {"debug"}}
  BY <1>1, <1>2, <1>3, <1>6 DEF Live
<1>10. \A c \in k.chords : holder'[c] # "dead"
  BY <1>2, <1>3, <1>6 DEF Live, Bound
<1>11. Live(k)'
  BY <1>1, <1>2, <1>4, <1>8, <1>9, <1>10 DEF Live, Wants
<1> QED BY <1>7, <1>11 DEF HotkeysHold

(* A chord that is taken: the slot falls back to its default, if that is   *)
(* not what it wanted; only a slot that met another holder does, and       *)
(* dictation gives up only where its default is command mode's.            *)
LEMMA HotkeysFail ==
  ASSUME NEW k, Apart(k), HotkeysHold(k), G(k)!RegisterFails
  PROVE  HotkeysHold(k)'
<1>1. /\ calls # <<>> /\ Head(calls).op = "register" /\ holder[Head(calls).chord] # "free"
      /\ UNCHANGED <<setting, events, loading, registered, holder, clash>>
  BY DEF G!RegisterFails
<1>2. ChordsOK(k) /\ Live(k) /\ CallsOK(k) /\ SlotsOK(k)
  BY <1>1, RegisteringIsLive DEF Live
<1> DEFINE Left == Tail(calls)
<1>3. PICK s \in Bound \cup {"debug"}, chord \in k.chords, falls \in BOOLEAN :
        /\ Head(calls).slot = s /\ Head(calls).chord = chord /\ Head(calls).falls = falls
  BY <1>1, <1>2, CallsLeft DEF Adds
<1>4. /\ s = "debug" => ~falls
      /\ s \in Bound => /\ chord = want[s] /\ Pending(s)
                        /\ falls \/ want[s] = k.default[s]
      /\ \A i \in 1..Len(Left) : Left[i].slot # s
      /\ \A t : Pending(t) <=> t = s \/ \E i \in 1..Len(Left) : Left[i].slot = t
  BY <1>1, <1>2, <1>3, CallsLeft
<1>5. /\ Left \in Seq(Adds(k))
      /\ \A i \in 1..Len(Left) :
           /\ Left[i].slot = "debug" => Left[i].chord = k.debug /\ ~Left[i].falls
           /\ Left[i].slot \in Bound =>
                /\ Left[i].chord = want[Left[i].slot]
                /\ Left[i].falls \/ want[Left[i].slot] = k.default[Left[i].slot]
      /\ \A i, j \in 1..Len(Left) : Left[i].slot = Left[j].slot => i = j
  BY <1>1, <1>2, CallsLeft
<1>6. IF falls /\ want[s] # k.default[s]
      THEN /\ want' = [want EXCEPT ![s] = k.default[s]]
           /\ calls' = Append(Left, [op |-> "register", slot |-> s,
                                     chord |-> k.default[s], falls |-> FALSE])
      ELSE calls' = Left /\ want' = want
  BY <1>3 DEF G!RegisterFails, G!FallsBack, G!Add
<1> HIDE DEF Left
<1>7. /\ s \in Bound => s \in clash
      /\ s = "dictation" /\ setting["command"] # k.default["dictation"]
           => falls /\ want[s] # k.default[s]
  BY <1>1, <1>2, <1>3, <1>4, FreeUntilHeld DEF Bound
<1>8. CASE falls /\ want[s] # k.default[s]
  <2> DEFINE a == [op |-> "register", slot |-> s, chord |-> k.default[s], falls |-> FALSE]
  <2>1. s \in Bound
    BY <1>4, <1>8
  <2>2. /\ want' = [want EXCEPT ![s] = k.default[s]] /\ calls' = Append(Left, a)
        /\ k.default[s] \in Bindable(k)
    BY <1>6, <1>8, <2>1 DEF Bindable
  <2>3. /\ want' \in [Bound -> Bindable(k)] /\ want'[s] = k.default[s]
        /\ \A t \in Bound \ {s} : want'[t] = want[t]
    BY <1>2, <2>1, <2>2 DEF ChordsOK
  <2>4. /\ a \in Adds(k) /\ a.slot = s /\ a.chord = k.default[s] /\ ~a.falls
    BY <2>1, ChordsApart DEF Adds
  <2> HIDE DEF a
  <2>5. /\ calls' \in Seq(Adds(k)) /\ Len(Left) \in Nat /\ Len(calls') = Len(Left) + 1
        /\ calls'[Len(Left) + 1] = a
        /\ \A i \in 1..Len(Left) : calls'[i] = Left[i]
    BY <1>5, <2>2, <2>4
  <2>6. \A i \in 1..Len(calls') : i \in 1..Len(Left) \/ i = Len(Left) + 1
    BY <2>5
  <2>7. CallsOK(k)'
    <3>1. ASSUME NEW i \in 1..Len(calls')
          PROVE  /\ calls'[i].slot = "debug" => calls'[i].chord = k.debug /\ ~calls'[i].falls
                 /\ calls'[i].slot \in Bound =>
                      /\ calls'[i].chord = want'[calls'[i].slot]
                      /\ calls'[i].falls \/ want'[calls'[i].slot] = k.default[calls'[i].slot]
      <4>1. CASE i \in 1..Len(Left)
        <5>1. calls'[i] = Left[i] /\ Left[i].slot # s
          BY <1>4, <2>5, <4>1
        <5> QED BY <1>5, <2>3, <4>1, <5>1
      <4>2. CASE i = Len(Left) + 1
        <5>1. calls'[i] = a
          BY <2>5, <4>2
        <5> QED BY <2>1, <2>3, <2>4, <5>1 DEF Bound
      <4> QED BY <2>6, <4>1, <4>2
    <3>2. ASSUME NEW i \in 1..Len(calls'), NEW j \in 1..Len(calls'),
                 calls'[i].slot = calls'[j].slot
          PROVE  i = j
      BY <1>4, <1>5, <2>4, <2>5, <2>6, <3>2
    <3> QED BY <2>5, <3>1, <3>2 DEF CallsOK
  <2>8. \A t : Pending(t)' <=> Pending(t)
    <3>1. \A t : (\E i \in 1..Len(calls') : calls'[i].slot = t)
                   <=> t = s \/ \E i \in 1..Len(Left) : Left[i].slot = t
      <4>1. Len(Left) + 1 \in 1..Len(calls') /\ \A i \in 1..Len(Left) : i \in 1..Len(calls')
        BY <2>5
      <4> QED BY <2>4, <2>5, <2>6, <4>1
    <3> QED BY <1>4, <3>1 DEF Pending
  <2>9. SlotsOK(k)'
    BY <1>1, <1>2, <1>4, <2>1, <2>3, <2>8 DEF SlotsOK
  <2>10. \A t \in Bound : Wants(k, t)'
    BY <1>1, <1>2, <1>7, <2>1, <2>3 DEF Live, Wants
  <2>11. Live(k)'
    BY <1>1, <1>2, <2>7, <2>9, <2>10 DEF Live
  <2>12. ChordsOK(k)'
    BY <1>1, <1>2, <2>3 DEF ChordsOK
  <2> QED BY <2>11, <2>12 DEF HotkeysHold
<1>9. CASE ~(falls /\ want[s] # k.default[s])
  <2>1. calls' = Left /\ want' = want
    BY <1>6, <1>9
  <2>2. \A t : Pending(t) <=> t = s \/ Pending(t)'
    BY <1>4, <2>1 DEF Pending
  <2>3. CallsOK(k)'
    BY <1>5, <2>1 DEF CallsOK
  <2>4. SlotsOK(k)'
    BY <1>1, <1>2, <1>7, <1>9, <2>1, <2>2 DEF SlotsOK, Bound
  <2>5. Live(k)'
    BY <1>1, <1>2, <2>1, <2>3, <2>4 DEF Live, Wants
  <2>6. ChordsOK(k)'
    BY <1>1, <1>2, <2>1 DEF ChordsOK
  <2> QED BY <2>5, <2>6 DEF HotkeysHold
<1> QED BY <1>8, <1>9

(* A page mounted again finds the chords of the last one, dead.            *)
LEMMA HotkeysMount ==
  ASSUME NEW k, Apart(k), HotkeysHold(k), G(k)!MountAgain
  PROVE  HotkeysHold(k)'
<1>1. /\ ~loading /\ events = <<>> /\ calls = <<>>
      /\ holder' = [c \in k.chords |-> IF holder[c] \in Pages THEN "dead" ELSE holder[c]]
      /\ loading' = TRUE /\ registered' = {} /\ want' = k.default
      /\ UNCHANGED <<setting, events, calls, clash>>
  BY DEF G!MountAgain, G!Quiet, G!PageHolders, G!Slots, Bound, Pages
<1>2. ChordsOK(k) /\ Live(k)
  BY <1>1 DEF HotkeysHold, Loading, Heard, Taking
<1>3. /\ holder' \in [k.chords -> {"free", "foreign", "card", "dead"}]
      /\ \A c \in k.chords : /\ holder'[c] # "dead" => holder'[c] = holder[c]
                             /\ holder'[c] = "dead" => holder[c] \in Pages
  BY <1>1, <1>2 DEF ChordsOK, Pages
<1>4. want' \in [Bound -> Bindable(k)]
  BY <1>1, ChordsApart DEF Bindable
<1>5. ChordsOK(k)'
  <2>1. \A s \in Bound : setting[s] \in k.chords
    BY <1>2, ChordsApart DEF ChordsOK
  <2> QED BY <1>1, <1>2, <1>3, <1>4, <2>1 DEF ChordsOK, Pages, Bound
<1>6. ASSUME NEW c \in k.chords, holder'[c] = "dead"
      PROVE  c = k.debug \/ \E s \in Bound : c \in {setting[s], k.default[s]}
  <2>1. holder[c] \in Bound \cup {"debug"}
    BY <1>2, <1>3, <1>6 DEF Live, Pages
  <2> QED BY <1>2, <2>1 DEF Live, SlotsOK, Wants, ChordsOK
<1>7. Loading(k)'
  BY <1>1, <1>3, <1>6 DEF Loading, Bound
<1> QED BY <1>5, <1>7 DEF HotkeysHold

(* The user binds a slot once the last chord is in force.                  *)
LEMMA HotkeysRebind ==
  ASSUME NEW k, Apart(k), HotkeysHold(k), NEW s \in Bound, NEW c \in Bindable(k),
         G(k)!Rebind(s, c)
  PROVE  HotkeysHold(k)'
<1>1. /\ ~loading /\ events = <<>> /\ calls = <<>>
      /\ setting' = [setting EXCEPT ![s] = c] /\ events' = Append(events, s)
      /\ clash' = (IF c \in G(k)!Contended(s, setting) THEN clash \cup {s} ELSE clash \ {s})
                  \cup (IF c = setting[OtherOf(s)] THEN {OtherOf(s)} ELSE {})
      /\ UNCHANGED <<loading, want, registered, calls, holder>>
  BY DEF Apart, G!Rebind, G!Quiet, G!Other, OtherOf
<1>2. ChordsOK(k) /\ Live(k)
  BY <1>1 DEF HotkeysHold, Loading, Heard, Taking
<1>3. OtherOf(s) \in Bound /\ OtherOf(s) # s /\ OtherOf(OtherOf(s)) = s
      /\ Bound = {s, OtherOf(s)}
  BY DEF OtherOf, Bound
<1>4. /\ setting' \in [Bound -> Bindable(k)] /\ setting'[s] = c
      /\ setting'[OtherOf(s)] = setting[OtherOf(s)]
  BY <1>1, <1>2, <1>3 DEF ChordsOK
<1>5. clash' \subseteq Bound
  BY <1>1, <1>2, <1>3 DEF ChordsOK
<1>6. ASSUME s \notin clash'
      PROVE  /\ c \notin {k.debug, setting[OtherOf(s)], k.default[OtherOf(s)]}
             /\ holder[c] # "foreign"
  <2>1. c \notin G(k)!Contended(s, setting)
    BY <1>1, <1>6
  <2> QED BY <2>1, ChordsApart DEF G!Contended, G!Other, OtherOf
<1>7. ASSUME OtherOf(s) \notin clash'
      PROVE  OtherOf(s) \notin clash /\ c # setting[OtherOf(s)]
  BY <1>1, <1>3, <1>7
<1>8. ASSUME NEW t \in Bound \ clash'
      PROVE  /\ setting'[t] \notin {k.debug, setting'[OtherOf(t)], k.default[OtherOf(t)]}
             /\ holder[setting'[t]] # "foreign"
  <2>1. CASE t = s
    BY <1>4, <1>6, <1>8, <2>1
  <2>2. CASE t = OtherOf(s)
    BY <1>2, <1>3, <1>4, <1>7, <1>8, <2>2 DEF ChordsOK
  <2> QED BY <1>3, <2>1, <2>2
<1>9. ChordsOK(k)'
  BY <1>1, <1>2, <1>4, <1>5, <1>8 DEF ChordsOK
<1>10. Wants(k, OtherOf(s))'
  BY <1>1, <1>2, <1>3, <1>4, <1>7 DEF Live, Wants
<1>11. Heard(k)'
  <2>1. events' = <<s>>
    BY <1>1
  <2>2. /\ \A d \in k.chords : /\ holder'[d] # "dead"
                               /\ holder'[d] \in Pages => d \in registered'
        /\ \A d \in registered' : holder'[d] \in Bound \cup {"debug"}
    BY <1>1, <1>2 DEF Live, Pages
  <2> QED BY <1>1, <1>10, <2>1, <2>2 DEF Heard
<1> QED BY <1>9, <1>11 DEF HotkeysHold

(* Every step of the hotkeys keeps the invariant.                          *)
LEMMA HotkeysStep ==
  ASSUME NEW k, Apart(k), HotkeysHold(k), [G(k)!Next]_(G(k)!vars)
  PROVE  HotkeysHold(k)'
<1>1. CASE \E s \in G(k)!Slots, c \in k.choices \cup {k.default[t] : t \in G(k)!Slots} :
             G(k)!Rebind(s, c)
  BY <1>1, HotkeysRebind DEF G!Slots, Bound, Bindable
<1>2. CASE UNCHANGED G(k)!vars
  BY <1>2 DEF G!vars, HotkeysHold, ChordsOK, Loading, Heard, Taking, Live, CallsOK,
     SlotsOK, Wants, Pending
<1> QED BY <1>1, <1>2, HotkeysCard, HotkeysLoad, HotkeysHear, HotkeysTaken,
        HotkeysRegister, HotkeysFail, HotkeysMount DEF G!Next

(* No step of the page takes the card's chord.                             *)
LEMMA CardChordStays ==
  ASSUME NEW k, Apart(k), HotkeysHold(k), [G(k)!Next]_(G(k)!vars)
  PROVE  G(k)!CardKeepsItsChord
<1> SUFFICES ASSUME holder[k.card] = "card", ~G(k)!CardCloses
             PROVE  holder'[k.card] = "card"
  BY DEF G!CardKeepsItsChord
<1>1. k.card \in k.chords /\ ChordsOK(k)
  BY ChordsApart DEF HotkeysHold
<1>2. CASE G(k)!Unregistered
  <2>1. calls # <<>> /\ Head(calls).op = "unregister"
    BY <1>2 DEF G!Unregistered
  <2>2. ~Live(k)
    <3> SUFFICES ASSUME Live(k) PROVE FALSE
      OBVIOUS
    <3>1. calls \in Seq(Adds(k))
      BY DEF Live, CallsOK
    <3>2. Head(calls) \in Adds(k)
      BY <2>1, <3>1, RestOfCalls
    <3> QED BY <2>1, <3>2 DEF Adds
  <2>3. Taking(k)
    BY <2>1, <2>2 DEF HotkeysHold, Loading, Heard
  <2>4. k.card \notin Head(calls).chords
    BY <2>3 DEF Taking
  <2> QED BY <1>1, <1>2, <2>4 DEF G!Unregistered
<1>3. CASE G(k)!Registered
  <2>1. holder[Head(calls).chord] # "card" /\ Head(calls).chord # k.card
    BY <1>3 DEF G!Registered
  <2> QED BY <1>1, <1>3, <2>1 DEF G!Registered, ChordsOK
<1>4. CASE G(k)!MountAgain
  BY <1>1, <1>4 DEF G!MountAgain, G!PageHolders, G!Slots
<1>5. CASE G(k)!CardShows
  BY <1>5 DEF G!CardShows
<1> QED BY <1>2, <1>3, <1>4, <1>5
        DEF G!Next, G!vars, G!LoadSettings, G!HearRebound,
            G!RegisterFails, G!Rebind

(* The hotkeys take their own steps while their part runs.                 *)
LEMMA HotkeysPartStep ==
  ASSUME [Next]_vars
  PROVE  /\ part' = part
         /\ part = "hotkeys" => [G(Binds)!Next]_(G(Binds)!vars)
<1>1. CASE Next
  BY <1>1 DEF Next
<1>2. CASE UNCHANGED vars
  BY <1>2 DEF vars, hotkeysVars, G!vars
<1> QED BY <1>1, <1>2

-----------------------------------------------------------------------------
(* Where a chord is rebound only once the last is in force, the page has,  *)
(* when nothing is under way, the chords of the last setting wherever      *)
(* these were free, none fires nothing, and dictation has one unless       *)
(* command mode was given its default: for any chords and any number of    *)
(* rebindings and pages.                                                   *)
THEOREM HotkeysComeBack ==
  ASSUME NEW CONSTANT k, Apart(k)
  PROVE  G(k)!Spec => []G(k)!HotkeysInv
<1>1. G(k)!Init => HotkeysHold(k)
  BY HotkeysInit
<1>2. HotkeysHold(k) /\ [G(k)!Next]_(G(k)!vars) => HotkeysHold(k)'
  BY HotkeysStep
<1>3. HotkeysHold(k) => G(k)!HotkeysInv
  BY HotkeysMeans
<1> QED BY <1>1, <1>2, <1>3, PTL DEF G!Spec

(* The same of the part with the hotkeys.                                  *)
THEOREM BoundChordsFire ==
  Spec => []HotkeysInv
<1> DEFINE Kept == part = "hotkeys" => HotkeysHold(Binds)
<1>0. Apart(Binds)
  BY DesktopAssumption DEF DesktopAssumption, Apart, Binds
<1>1. Init => Kept
  BY <1>0, HotkeysInit DEF Init
<1>2. Kept /\ [Next]_vars => Kept'
  BY <1>0, HotkeysPartStep, HotkeysStep
<1>3. Kept => HotkeysInv
  BY <1>0, HotkeysMeans DEF HotkeysInv
<1> QED BY <1>1, <1>2, <1>3, PTL DEF Spec

(* And the card keeps its chord there, whatever the page registers, takes  *)
(* back or leaves behind.                                                  *)
THEOREM CardChordIsKept ==
  Spec => [][part = "hotkeys" => G(Binds)!CardKeepsItsChord]_vars
<1> DEFINE Kept == part = "hotkeys" => HotkeysHold(Binds)
<1>0. Apart(Binds)
  BY DesktopAssumption DEF DesktopAssumption, Apart, Binds
<1>1. Init => Kept
  BY <1>0, HotkeysInit DEF Init
<1>2. Kept /\ [Next]_vars => Kept'
  BY <1>0, HotkeysPartStep, HotkeysStep
<1>3. Kept /\ [Next]_vars
        => (part = "hotkeys" => G(Binds)!CardKeepsItsChord)
  BY <1>0, HotkeysPartStep, CardChordStays
<1> QED BY <1>1, <1>2, <1>3, PTL DEF Spec

-----------------------------------------------------------------------------
(* The listener of agent_bridge/endpoint.rs, and the exchange of one hook  *)
(* with it.                                                                *)

(* The listener's state: a file names a bridge that was stopped only while *)
(* a removal of it is under way, one command at a time removes, and the    *)
(* other Ottid starts no bridge before its last one's file is seen to.     *)
Stopped(j) == life[j] \in {"draining", "gone"}
IsRemoved(j) ==
  \/ removing.bridge = j /\ removing.remove
  \/ removingToo.bridge = j /\ removingToo.remove
Removals(k) == [bridge : 0..k.bridges, remove : BOOLEAN]

EndpointTypes(k) ==
  /\ agentEndpointInstalled \subseteq k.agents
  /\ mine \in 0..k.bridges /\ other \in 0..k.bridges
  /\ agentEndpointFile \in 0..k.bridges /\ sock \in 0..k.bridges
  /\ pc \in [k.threads -> {"idle", "look", "start", "stop", "remove"}]
  /\ life \in [1..k.bridges -> {"unused", "up", "broken", "draining", "gone", "killed"}]
  /\ removing \in Removals(k) /\ removingToo \in Removals(k)
OneRemoves(k) ==
  /\ removing.bridge = 0 => ~removing.remove
  /\ removingToo.bridge = 0 => ~removingToo.remove
  /\ \A t, u \in k.threads : pc[t] = "remove" /\ pc[u] = "remove" => t = u
  /\ \A t \in k.threads : pc[t] = "remove" => removing.bridge # 0
  /\ removing.bridge # 0 => \E t \in k.threads : pc[t] = "remove"
  /\ other # 0 => removingToo.bridge = 0
FileHolds == agentEndpointFile # 0 /\ Stopped(agentEndpointFile) => IsRemoved(agentEndpointFile)

EndpointHolds(k) == EndpointTypes(k) /\ OneRemoves(k) /\ FileHolds

(* What no removal looks like.                                             *)
LEMMA NoneMeans ==
  ASSUME NEW k, EndpointTypes(k), OneRemoves(k)
  PROVE  /\ removing = E(k)!None <=> removing.bridge = 0
         /\ removingToo = E(k)!None <=> removingToo.bridge = 0
BY DEF EndpointTypes, OneRemoves, Removals, E!None

(* A listener starts with no bridge at all.                                *)
LEMMA EndpointInit ==
  ASSUME NEW k, E(k)!EndpointAssumption, E(k)!Init
  PROVE  EndpointHolds(k)
BY DEF EndpointHolds, EndpointTypes, OneRemoves, FileHolds, Stopped, Removals,
       E!EndpointAssumption, E!Init, E!Bridges, E!None

(* A removal names the bridge that stops, and takes the file that names it. *)
LEMMA RemovalTakes ==
  ASSUME NEW k, NEW j \in 1..k.bridges
  PROVE  /\ E(k)!Removal(j) \in Removals(k)
         /\ E(k)!Removal(j).bridge = j
         /\ agentEndpointFile = j => E(k)!Removal(j).remove
<1> DEFINE own == agentEndpointFile # 0
                   /\ E(k)!Endpoint(agentEndpointFile) = E(k)!Endpoint(j)
<1>1. E(k)!Removal(j) = [bridge |-> j, remove |-> own]
  BY DEF E!Removal
<1>2. own \in BOOLEAN
  OBVIOUS
<1>3. agentEndpointFile = j => own
  OBVIOUS
<1> HIDE DEF own
<1> QED BY <1>1, <1>2, <1>3 DEF Removals

(* The commands that change neither bridge nor file.                       *)
LEMMA EndpointLooks ==
  ASSUME NEW k, EndpointHolds(k), NEW t \in k.threads,
         \/ E(k)!Apply(t) \/ E(k)!Look(t) \/ E(k)!AlreadyUp(t)
         \/ E(k)!NothingToStop(t)
  PROVE  EndpointHolds(k)'
<1>1. /\ UNCHANGED <<mine, other, life, agentEndpointFile, sock, removing, removingToo>>
      /\ agentEndpointInstalled' \subseteq k.agents
      /\ pc[t] # "remove"
      /\ \E to \in {"idle", "look", "start", "stop"} : pc' = [pc EXCEPT ![t] = to]
  BY DEF EndpointHolds, EndpointTypes, E!Apply, E!Look, E!AlreadyUp,
         E!NothingToStop, E!At
<1>2. EndpointTypes(k)'
  BY <1>1 DEF EndpointHolds, EndpointTypes, Removals
<1>3. OneRemoves(k)'
  BY <1>1 DEF EndpointHolds, EndpointTypes, OneRemoves
<1>4. FileHolds'
  BY <1>1 DEF EndpointHolds, FileHolds, Stopped, IsRemoved
<1> QED BY <1>2, <1>3, <1>4 DEF EndpointHolds

(* A bridge that opens is up, and the file names it.                       *)
LEMMA OpensUp ==
  ASSUME NEW k, EndpointTypes(k), NEW j \in 1..k.bridges, E(k)!Opens(j)
  PROVE  /\ life' = [life EXCEPT ![j] = "up"] /\ life'[j] = "up"
         /\ agentEndpointFile' = j /\ sock' \in 0..k.bridges
BY DEF EndpointTypes, E!Opens, E!Binds, E!Writes

(* A command that starts this Ottid's bridge, or fails to.                 *)
LEMMA EndpointStarts ==
  ASSUME NEW k, E(k)!EndpointAssumption, EndpointHolds(k), NEW t \in k.threads,
         E(k)!StartBridge(t)
  PROVE  EndpointHolds(k)'
<1>1. /\ pc[t] = "start" /\ pc' = [pc EXCEPT ![t] = "idle"]
      /\ UNCHANGED <<agentEndpointInstalled, other, removing, removingToo>>
  BY DEF E!StartBridge, E!At
<1>2. OneRemoves(k)'
  BY <1>1 DEF EndpointHolds, EndpointTypes, OneRemoves
<1>3. CASE E(k)!OpenFails /\ UNCHANGED mine
  BY <1>1, <1>2, <1>3 DEF EndpointHolds, EndpointTypes, Removals, FileHolds, Stopped,
     IsRemoved, E!OpenFails, E!EndpointAssumption
<1>4. CASE \E j \in 1..k.bridges : E(k)!Opens(j) /\ mine' = j
  <2>1. PICK j \in 1..k.bridges : E(k)!Opens(j) /\ mine' = j
    BY <1>4
  <2>2. /\ life' = [life EXCEPT ![j] = "up"] /\ life'[j] = "up"
        /\ agentEndpointFile' = j /\ sock' \in 0..k.bridges
    BY <2>1, OpensUp DEF EndpointHolds
  <2>3. EndpointTypes(k)'
    BY <1>1, <2>1, <2>2 DEF EndpointHolds, EndpointTypes, Removals, E!EndpointAssumption
  <2>4. FileHolds'
    BY <2>2 DEF FileHolds, Stopped
  <2> QED BY <1>2, <2>3, <2>4 DEF EndpointHolds
<1> QED BY <1>3, <1>4 DEF E!StartBridge, E!Bridges

(* Aborting a bridge that ran, or one that broke or was killed.            *)
LEMMA AbortedLife ==
  ASSUME NEW k, EndpointTypes(k), NEW j \in 1..k.bridges, E(k)!Aborted(j)
  PROVE  /\ life' \in [1..k.bridges -> {"unused", "up", "broken", "draining", "gone", "killed"}]
         /\ \A i \in 1..k.bridges : i # j => life'[i] = life[i]
BY DEF EndpointTypes, E!Aborted

(* A command that stops the bridge: its file, if the file is this one's,   *)
(* is about to be removed.                                                 *)
LEMMA EndpointStops ==
  ASSUME NEW k, E(k)!EndpointAssumption, EndpointHolds(k), NEW t \in k.threads,
         E(k)!StopBridge(t)
  PROVE  EndpointHolds(k)'
<1>1. /\ pc[t] = "stop" /\ pc' = [pc EXCEPT ![t] = "remove"]
      /\ E(k)!Unlocked /\ mine \in 1..k.bridges /\ mine' = 0
      /\ removing' = E(k)!Removal(mine) /\ E(k)!Aborted(mine)
      /\ UNCHANGED <<agentEndpointInstalled, other, agentEndpointFile, sock, removingToo>>
  BY DEF EndpointHolds, EndpointTypes, E!StopBridge, E!At
<1>2. /\ removing' \in Removals(k) /\ removing'.bridge = mine
      /\ agentEndpointFile = mine => removing'.remove
  BY <1>1, RemovalTakes
<1>3. removing.bridge = 0 /\ \A u \in k.threads : pc[u] # "remove"
  BY <1>1, NoneMeans DEF EndpointHolds, OneRemoves, E!Unlocked
<1>4. EndpointTypes(k)'
  <2>1. life' \in [1..k.bridges -> {"unused", "up", "broken", "draining", "gone", "killed"}]
    BY <1>1, AbortedLife DEF EndpointHolds
  <2>2. removingToo \in Removals(k) /\ Removals(k)' = Removals(k)
    BY DEF EndpointHolds, EndpointTypes, Removals
  <2>3. 0 \in 0..k.bridges
    BY DEF E!EndpointAssumption
  <2> QED BY <1>1, <1>2, <2>1, <2>2, <2>3 DEF EndpointHolds, EndpointTypes
<1>5. OneRemoves(k)'
  BY <1>1, <1>2, <1>3 DEF EndpointHolds, EndpointTypes, OneRemoves
<1>6. FileHolds'
  <2>1. CASE agentEndpointFile = mine
    BY <1>1, <1>2, <2>1 DEF FileHolds, IsRemoved
  <2>2. CASE agentEndpointFile # mine
    <3>1. agentEndpointFile # 0 => life'[agentEndpointFile] = life[agentEndpointFile]
      BY <1>1, <2>2, AbortedLife DEF EndpointHolds, EndpointTypes
    <3>2. agentEndpointFile # 0 /\ Stopped(agentEndpointFile) =>
            removingToo.bridge = agentEndpointFile /\ removingToo.remove
      BY <1>3 DEF EndpointHolds, FileHolds, IsRemoved
    <3> QED BY <1>1, <3>1, <3>2 DEF FileHolds, Stopped, IsRemoved
  <2> QED BY <2>1, <2>2
<1> QED BY <1>4, <1>5, <1>6 DEF EndpointHolds

(* The file is removed, or left to the bridge it names.                    *)
LEMMA EndpointRemoves ==
  ASSUME NEW k, E(k)!EndpointAssumption, EndpointHolds(k), NEW t \in k.threads,
         E(k)!RemoveFile(t)
  PROVE  EndpointHolds(k)'
<1>1. /\ pc[t] = "remove" /\ pc' = [pc EXCEPT ![t] = "idle"]
      /\ removing' = [bridge |-> 0, remove |-> FALSE]
      /\ agentEndpointFile' = IF removing.remove THEN 0 ELSE agentEndpointFile
      /\ UNCHANGED <<agentEndpointInstalled, mine, other, life, sock, removingToo>>
  BY DEF E!RemoveFile, E!At, E!None
<1>2. EndpointTypes(k)'
  BY <1>1 DEF EndpointHolds, EndpointTypes, Removals, E!EndpointAssumption
<1>3. OneRemoves(k)'
  <2>1. \A u \in k.threads : u # t => pc[u] # "remove" /\ pc'[u] # "remove"
    BY <1>1 DEF EndpointHolds, EndpointTypes, OneRemoves
  <2>2. pc'[t] = "idle"
    BY <1>1 DEF EndpointHolds, EndpointTypes
  <2> QED BY <1>1, <2>1, <2>2 DEF EndpointHolds, OneRemoves
<1>4. FileHolds'
  BY <1>1 DEF EndpointHolds, EndpointTypes, FileHolds, Stopped, IsRemoved
<1> QED BY <1>2, <1>3, <1>4 DEF EndpointHolds

(* A listener whose task ends, or whose accept loop does.                  *)
LEMMA EndpointEnds ==
  ASSUME NEW k, E(k)!EndpointAssumption, EndpointHolds(k), NEW j \in 1..k.bridges,
         E(k)!Drained(j) \/ E(k)!Breaks(j)
  PROVE  EndpointHolds(k)'
<1>1. /\ \/ life[j] = "draining" /\ life' = [life EXCEPT ![j] = "gone"]
         \/ life[j] = "up" /\ life' = [life EXCEPT ![j] = "broken"]
      /\ sock' \in {sock, 0}
      /\ UNCHANGED <<agentEndpointInstalled, pc, mine, other, agentEndpointFile, removing,
                     removingToo>>
  BY DEF E!Drained, E!Breaks
<1>2. EndpointTypes(k)'
  <2>1. life' \in [1..k.bridges -> {"unused", "up", "broken", "draining", "gone", "killed"}]
    BY <1>1 DEF EndpointHolds, EndpointTypes
  <2>2. sock' \in 0..k.bridges
    BY <1>1 DEF EndpointHolds, EndpointTypes, E!EndpointAssumption
  <2>3. Removals(k)' = Removals(k)
    BY DEF Removals
  <2> QED BY <1>1, <2>1, <2>2, <2>3 DEF EndpointHolds, EndpointTypes
<1>3. OneRemoves(k)'
  BY <1>1 DEF EndpointHolds, EndpointTypes, OneRemoves
<1>4. FileHolds'
  <2>1. ASSUME agentEndpointFile # 0, Stopped(agentEndpointFile)'
        PROVE  Stopped(agentEndpointFile)
    <3>1. agentEndpointFile \in 1..k.bridges
      BY <2>1 DEF EndpointHolds, EndpointTypes, E!EndpointAssumption
    <3>2. agentEndpointFile = j /\ life'[agentEndpointFile] # "broken" => Stopped(j)
      BY <1>1, <3>1 DEF EndpointHolds, EndpointTypes, Stopped
    <3>3. agentEndpointFile # j => life'[agentEndpointFile] = life[agentEndpointFile]
      BY <1>1, <3>1 DEF EndpointHolds, EndpointTypes
    <3> QED BY <1>1, <2>1, <3>2, <3>3 DEF Stopped
  <2> QED BY <1>1, <2>1 DEF EndpointHolds, FileHolds, IsRemoved, Stopped
<1> QED BY <1>2, <1>3, <1>4 DEF EndpointHolds

(* The process dies: a bridge whose file it was removing is one it killed. *)
LEMMA EndpointCrash ==
  ASSUME NEW k, E(k)!EndpointAssumption, EndpointHolds(k), E(k)!Crash
  PROVE  EndpointHolds(k)'
<1>1. /\ removing' = [bridge |-> 0, remove |-> FALSE] /\ mine' = 0
      /\ life' = [j \in 1..k.bridges |->
                    IF \/ j # other /\ life[j] \in {"up", "broken", "draining"}
                       \/ j = removing.bridge
                    THEN "killed" ELSE life[j]]
      /\ pc' \in [k.threads -> {"idle", "look"}]
      /\ UNCHANGED <<agentEndpointInstalled, other, agentEndpointFile, sock, removingToo>>
  BY DEF E!Crash, E!None, E!Bridges
<1>2. EndpointTypes(k)'
  BY <1>1 DEF EndpointHolds, EndpointTypes, Removals, E!EndpointAssumption
<1>3. OneRemoves(k)'
  BY <1>1 DEF EndpointHolds, EndpointTypes, OneRemoves
<1>4. FileHolds'
  BY <1>1 DEF EndpointHolds, EndpointTypes, FileHolds, Stopped, IsRemoved
<1> QED BY <1>2, <1>3, <1>4 DEF EndpointHolds

(* Another Ottid, started and stopped beside this one.                     *)
LEMMA EndpointOther ==
  ASSUME NEW k, E(k)!EndpointAssumption, EndpointHolds(k),
         E(k)!OtherStarts \/ E(k)!OtherStops \/ E(k)!OtherRemoves
  PROVE  EndpointHolds(k)'
<1>1. CASE E(k)!OtherStarts
  <2>1. /\ other = 0 /\ removingToo.bridge = 0
        /\ UNCHANGED <<agentEndpointInstalled, pc, mine, removing, removingToo>>
    BY <1>1, NoneMeans DEF EndpointHolds, E!OtherStarts
  <2>2. PICK j \in 1..k.bridges : E(k)!Opens(j) /\ other' = j
    BY <1>1 DEF E!OtherStarts, E!Bridges
  <2>3. /\ life' = [life EXCEPT ![j] = "up"] /\ life'[j] = "up"
        /\ agentEndpointFile' = j /\ sock' \in 0..k.bridges
    BY <2>2, OpensUp DEF EndpointHolds
  <2>4. EndpointTypes(k)'
    BY <2>1, <2>2, <2>3 DEF EndpointHolds, EndpointTypes, Removals, E!EndpointAssumption
  <2>5. OneRemoves(k)'
    BY <2>1 DEF EndpointHolds, OneRemoves
  <2>6. FileHolds'
    BY <2>3 DEF FileHolds, Stopped
  <2> QED BY <2>4, <2>5, <2>6 DEF EndpointHolds
<1>2. CASE E(k)!OtherStops
  <2>1. /\ other \in 1..k.bridges /\ other' = 0
        /\ removingToo' = E(k)!Removal(other) /\ E(k)!Aborted(other)
        /\ UNCHANGED <<agentEndpointInstalled, pc, mine, agentEndpointFile, sock, removing>>
    BY <1>2 DEF EndpointHolds, EndpointTypes, E!OtherStops
  <2>2. /\ removingToo' \in Removals(k) /\ removingToo'.bridge = other
        /\ agentEndpointFile = other => removingToo'.remove
    BY <2>1, RemovalTakes
  <2>3. EndpointTypes(k)'
    <3>1. life' \in [1..k.bridges -> {"unused", "up", "broken", "draining", "gone", "killed"}]
      BY <2>1, AbortedLife DEF EndpointHolds
    <3>2. removing \in Removals(k) /\ Removals(k)' = Removals(k)
      BY DEF EndpointHolds, EndpointTypes, Removals
    <3>3. 0 \in 0..k.bridges
      BY DEF E!EndpointAssumption
    <3> QED BY <2>1, <2>2, <3>1, <3>2, <3>3 DEF EndpointHolds, EndpointTypes
  <2>4. OneRemoves(k)'
    BY <2>1, <2>2 DEF EndpointHolds, OneRemoves
  <2>5. FileHolds'
    <3>1. CASE agentEndpointFile = other
      BY <2>1, <2>2, <3>1 DEF FileHolds, IsRemoved
    <3>2. CASE agentEndpointFile # other
      <4>1. agentEndpointFile # 0 => life'[agentEndpointFile] = life[agentEndpointFile]
        BY <2>1, <3>2, AbortedLife DEF EndpointHolds, EndpointTypes
      <4>2. agentEndpointFile # 0 /\ Stopped(agentEndpointFile) =>
              removing.bridge = agentEndpointFile /\ removing.remove
        BY <2>1 DEF EndpointHolds, EndpointTypes, OneRemoves, FileHolds, IsRemoved
      <4> QED BY <2>1, <4>1, <4>2 DEF FileHolds, Stopped, IsRemoved
    <3> QED BY <3>1, <3>2
  <2> QED BY <2>3, <2>4, <2>5 DEF EndpointHolds
<1>3. CASE E(k)!OtherRemoves
  <2>1. /\ removingToo.bridge # 0 /\ removingToo' = [bridge |-> 0, remove |-> FALSE]
        /\ agentEndpointFile' = IF removingToo.remove THEN 0 ELSE agentEndpointFile
        /\ UNCHANGED <<agentEndpointInstalled, pc, mine, other, life, sock, removing>>
    BY <1>3, NoneMeans DEF EndpointHolds, E!OtherRemoves, E!None
  <2>2. EndpointTypes(k)'
    BY <2>1 DEF EndpointHolds, EndpointTypes, Removals, E!EndpointAssumption
  <2>3. OneRemoves(k)'
    BY <2>1 DEF EndpointHolds, OneRemoves
  <2>4. FileHolds'
    BY <2>1 DEF EndpointHolds, EndpointTypes, FileHolds, Stopped, IsRemoved
  <2> QED BY <2>2, <2>3, <2>4 DEF EndpointHolds
<1> QED BY <1>1, <1>2, <1>3

(* Every step of the listener's life, and none.                            *)
LEMMA EndpointStep ==
  ASSUME NEW k, E(k)!EndpointAssumption, EndpointHolds(k),
         [E(k)!Next]_(E(k)!vars)
  PROVE  EndpointHolds(k)'
<1>1. CASE UNCHANGED E(k)!vars
  BY <1>1 DEF E!vars, EndpointHolds, EndpointTypes, OneRemoves, FileHolds, Stopped,
     IsRemoved, Removals
<1>2. ASSUME NEW t \in k.threads,
             \/ E(k)!Apply(t) \/ E(k)!Look(t) \/ E(k)!AlreadyUp(t)
             \/ E(k)!StartBridge(t) \/ E(k)!NothingToStop(t)
             \/ E(k)!StopBridge(t) \/ E(k)!RemoveFile(t)
      PROVE  EndpointHolds(k)'
  BY <1>2, EndpointLooks, EndpointStarts, EndpointStops, EndpointRemoves
<1>3. ASSUME NEW j \in 1..k.bridges, E(k)!Drained(j) \/ E(k)!Breaks(j)
      PROVE  EndpointHolds(k)'
  BY <1>3, EndpointEnds
<1> QED BY <1>1, <1>2, <1>3, EndpointCrash, EndpointOther DEF E!Next, E!Bridges

(* On a pipe of this Ottid's own name, with one command at a time, a       *)
(* bridge in the slot is the one the file names, and the command that ends *)
(* has left a bridge exactly when a hook is installed, unless it could not *)
(* be started.                                                             *)
Alone(k) == ~k.unix /\ ~k.others /\ \E t : k.threads = {t}

Done(t) ==
  /\ pc[t] = "start" => agentEndpointInstalled # {}
  /\ pc[t] = "stop" => agentEndpointInstalled = {}
  /\ pc[t] = "remove" => agentEndpointInstalled = {} /\ mine = 0
  /\ pc[t] = "idle" /\ agentEndpointInstalled = {} => mine = 0
  /\ pc[t] = "idle" /\ agentEndpointInstalled # {} => failed \/ mine # 0

AloneHolds(k) ==
  /\ EndpointHolds(k)
  /\ other = 0 /\ removingToo.bridge = 0
  /\ \A t \in k.threads : Done(t)
  /\ mine # 0 => life[mine] \in {"up", "broken"} /\ agentEndpointFile = mine

(* It starts so: no bridge, and a command about to look.                   *)
LEMMA AloneInit ==
  ASSUME NEW k, E(k)!EndpointAssumption, Alone(k), E(k)!Init
  PROVE  AloneHolds(k)
<1>1. EndpointHolds(k)
  BY EndpointInit
<1>2. \A t \in k.threads : pc[t] = "look"
  BY DEF Alone, E!Init
<1> QED BY <1>1, <1>2 DEF AloneHolds, Done, E!Init, E!None

(* A command that only looks, or finds nothing to do.                      *)
LEMMA AloneLooks ==
  ASSUME NEW k, Alone(k), AloneHolds(k), NEW t, k.threads = {t},
         \/ E(k)!Apply(t) \/ E(k)!Look(t) \/ E(k)!AlreadyUp(t)
         \/ E(k)!NothingToStop(t)
  PROVE  Done(t)' /\ UNCHANGED <<mine, other, life, agentEndpointFile, removingToo>>
BY DEF AloneHolds, EndpointHolds, EndpointTypes, Done, E!Apply, E!Look, E!Wanted,
       E!AlreadyUp, E!NothingToStop, E!At

(* A command that starts the bridge, stops it or removes its file.         *)
LEMMA AloneMoves ==
  ASSUME NEW k, E(k)!EndpointAssumption, Alone(k), AloneHolds(k), NEW t, k.threads = {t},
         E(k)!StartBridge(t) \/ E(k)!StopBridge(t) \/ E(k)!RemoveFile(t)
  PROVE  /\ Done(t)' /\ UNCHANGED <<other, removingToo>>
         /\ mine' # 0 => life'[mine'] = "up" /\ agentEndpointFile' = mine'
<1>1. CASE E(k)!StartBridge(t)
  <2>1. /\ pc[t] = "start" /\ pc' = [pc EXCEPT ![t] = "idle"] /\ mine = 0
        /\ UNCHANGED <<agentEndpointInstalled, other, removingToo>>
    BY <1>1 DEF E!StartBridge, E!At
  <2>2. pc'[t] = "idle" /\ agentEndpointInstalled # {}
    BY <2>1 DEF AloneHolds, EndpointHolds, EndpointTypes, Done
  <2>3. CASE failed' = TRUE /\ UNCHANGED mine
    BY <2>1, <2>2, <2>3 DEF Done
  <2>4. CASE \E j \in 1..k.bridges : E(k)!Opens(j) /\ mine' = j
    <3>1. PICK j \in 1..k.bridges : E(k)!Opens(j) /\ mine' = j
      BY <2>4
    <3>2. life'[j] = "up" /\ agentEndpointFile' = j
      BY <3>1, OpensUp DEF AloneHolds, EndpointHolds
    <3>3. mine' # 0
      BY <3>1 DEF E!EndpointAssumption
    <3> QED BY <2>1, <2>2, <3>1, <3>2, <3>3 DEF Done
  <2> QED BY <1>1, <2>3, <2>4 DEF E!StartBridge, E!Bridges
<1>2. CASE E(k)!StopBridge(t)
  <2>1. /\ pc[t] = "stop" /\ pc' = [pc EXCEPT ![t] = "remove"] /\ mine' = 0
        /\ UNCHANGED <<agentEndpointInstalled, other, removingToo>>
    BY <1>2 DEF E!StopBridge, E!At
  <2>2. pc'[t] = "remove" /\ agentEndpointInstalled = {}
    BY <2>1 DEF AloneHolds, EndpointHolds, EndpointTypes, Done
  <2> QED BY <2>1, <2>2 DEF Done
<1>3. CASE E(k)!RemoveFile(t)
  <2>1. /\ pc[t] = "remove" /\ pc' = [pc EXCEPT ![t] = "idle"]
        /\ UNCHANGED <<agentEndpointInstalled, mine, other, removingToo>>
    BY <1>3 DEF E!RemoveFile, E!At
  <2>2. pc'[t] = "idle" /\ agentEndpointInstalled = {} /\ mine = 0
    BY <2>1 DEF AloneHolds, EndpointHolds, EndpointTypes, Done
  <2> QED BY <2>1, <2>2 DEF Done
<1> QED BY <1>1, <1>2, <1>3

(* Every step of a listener alone, and none.                               *)
LEMMA AloneStep ==
  ASSUME NEW k, E(k)!EndpointAssumption, Alone(k), AloneHolds(k),
         [E(k)!Next]_(E(k)!vars)
  PROVE  AloneHolds(k)'
<1>1. EndpointHolds(k)'
  BY EndpointStep DEF AloneHolds
<1>2. PICK t : k.threads = {t}
  BY DEF Alone
<1> USE DEF AloneHolds
<1>3. CASE UNCHANGED E(k)!vars
  BY <1>1, <1>3 DEF E!vars, Done
<1>4. CASE \/ E(k)!Apply(t) \/ E(k)!Look(t) \/ E(k)!AlreadyUp(t)
           \/ E(k)!NothingToStop(t)
  <2>1. Done(t)' /\ UNCHANGED <<mine, other, life, agentEndpointFile, removingToo>>
    BY <1>2, <1>4, AloneLooks
  <2> QED BY <1>1, <1>2, <2>1
<1>5. CASE E(k)!StartBridge(t) \/ E(k)!StopBridge(t) \/ E(k)!RemoveFile(t)
  <2>1. /\ Done(t)' /\ UNCHANGED <<other, removingToo>>
        /\ mine' # 0 => life'[mine'] = "up" /\ agentEndpointFile' = mine'
    BY <1>2, <1>5, AloneMoves
  <2> QED BY <1>1, <1>2, <2>1
<1>6. ASSUME NEW j \in 1..k.bridges, E(k)!Drained(j) \/ E(k)!Breaks(j)
      PROVE  AloneHolds(k)'
  <2>1. /\ \/ life[j] = "draining" /\ life' = [life EXCEPT ![j] = "gone"]
           \/ life[j] = "up" /\ life' = [life EXCEPT ![j] = "broken"]
        /\ UNCHANGED <<agentEndpointInstalled, pc, mine, other, agentEndpointFile, removingToo,
                       failed>>
    BY <1>6 DEF E!Drained, E!Breaks
  <2>2. ASSUME mine # 0  PROVE life'[mine] \in {"up", "broken"}
    <3>1. mine \in 1..k.bridges
      BY <2>2 DEF EndpointHolds, EndpointTypes, E!EndpointAssumption
    <3>2. mine = j => life'[mine] = "broken"
      BY <2>1, <2>2, <3>1 DEF EndpointHolds, EndpointTypes
    <3>3. mine # j => life'[mine] = life[mine]
      BY <2>1, <3>1 DEF EndpointHolds, EndpointTypes
    <3> QED BY <2>2, <3>2, <3>3
  <2> QED BY <1>1, <2>1, <2>2 DEF Done
<1>7. CASE E(k)!Crash
  <2>1. mine' = 0 /\ UNCHANGED <<other, removingToo>> /\ pc'[t] = "look"
    BY <1>2, <1>7 DEF E!Crash
  <2> QED BY <1>1, <1>2, <2>1 DEF Done
<1>8. ~E(k)!OtherStarts /\ ~E(k)!OtherStops /\ ~E(k)!OtherRemoves
  BY NoneMeans DEF Alone, EndpointHolds, E!OtherStarts, E!OtherStops, E!OtherRemoves
<1> QED BY <1>2, <1>3, <1>4, <1>5, <1>6, <1>7, <1>8 DEF E!Next, E!Bridges

(* What the run asks of a listener with others, and of one alone.          *)
LEMMA EndpointMeans ==
  ASSUME NEW k, EndpointHolds(k)
  PROVE  E(k)!BrokerTypeOK /\ E(k)!NoTokenLeftBehind
<1>1. E(k)!BrokerTypeOK
  <2>1. (removing # E(k)!None) <=> \E t \in k.threads : pc[t] = "remove"
    BY NoneMeans DEF EndpointHolds, OneRemoves
  <2> QED BY <2>1 DEF EndpointHolds, EndpointTypes, E!BrokerTypeOK, E!Bridges
<1>2. E(k)!NoTokenLeftBehind
  <2>1. ASSUME E(k)!Settled  PROVE ~IsRemoved(agentEndpointFile)
    <3>1. removing.bridge = 0 /\ removingToo.bridge = 0
      BY <2>1, NoneMeans DEF EndpointHolds, OneRemoves, E!Settled
    <3> QED BY <3>1 DEF EndpointHolds, OneRemoves, IsRemoved
  <2> QED BY <2>1 DEF EndpointHolds, FileHolds, Stopped, E!NoTokenLeftBehind
<1> QED BY <1>1, <1>2

(* Of one alone: it is up and found exactly while a hook is installed.     *)
LEMMA AloneMeans ==
  ASSUME NEW k, Alone(k), AloneHolds(k)
  PROVE  E(k)!ListenerInv
<1>1. PICK t : k.threads = {t}
  BY DEF Alone
<1>2. E(k)!Settled => pc[t] = "idle"
  BY <1>1 DEF E!Settled
<1>3. E(k)!NoListenerWithoutHook
  BY <1>1, <1>2 DEF AloneHolds, Done, E!NoListenerWithoutHook
<1>4. E(k)!ServedWhileInstalled
  BY <1>1, <1>2 DEF Alone, AloneHolds, Done, E!ServedWhileInstalled, E!Reads,
     E!Reaches
<1> QED BY <1>3, <1>4, EndpointMeans DEF AloneHolds, E!ListenerInv

(* A hook and its connection, for any hooks, sizes and limits: where each  *)
(* stands, what is on its way between them, what each side has been told,  *)
(* and how much of the agent's patience the hook's limits leave.           *)
HookPlaces == {"idle", "file", "connecting", "challenge", "asking", "done"}
HookEndings ==
  {"none", "input", "absent", "connect", "unproven", "closed", "timeout", "cancelled", "allow",
   "deny", "ask"}
HookKinds(k) == k.kinds \cup {"permission"}
HookBuilds(k) == k.builds \cup {TRUE}
HookSizes(k) == k.sizes \cup {0}
HookParents(k) == k.parents \cup {"alive", "gone"}
HookStates(k) ==
  [pc : HookPlaces, kind : HookKinds(k), same : HookBuilds(k), size : HookSizes(k),
   left : 0..k.client, age : Nat, token : Nat, parent : HookParents(k), out : HookEndings]

ConnPlaces == {"none", "queued", "hello", "ask", "deciding", "closed"}
HooksLines == {<<>>, <<"hello">>, <<"ask">>}
OttidsLines == {<<>>, <<"challenge">>, <<"allow">>, <<"deny">>, <<"ask">>}
ConnCards == {"none", "open", "allow", "deny", "unanswered", "withdrawn"}
Refusals == {"none", "full", "version", "handshake", "gone", "stopped"}
ConnStates(k) ==
  [pc : ConnPlaces, left : 0..k.server, token : Nat, toServer : HooksLines,
   toHook : OttidsLines, card : ConnCards, refused : Refusals]

(* What is on its way, by where the two ends stand.                        *)
Talk(a, c) ==
  /\ a.pc \in {"idle", "file", "connecting"} => c.pc = "none"
  /\ c.pc = "none" => a.pc \notin {"challenge", "asking"} /\ c.toServer = <<>> /\ c.toHook = <<>>
  /\ c.pc \in {"none", "queued", "hello", "ask"} => c.card = "none"
  /\ c.pc \in {"queued", "hello"} =>
       a.pc # "asking" /\ c.toServer = <<"hello">> /\ c.toHook = <<>>
  /\ c.pc = "ask" =>
       /\ a.pc = "challenge" => c.toServer = <<>> /\ c.toHook = <<"challenge">>
       /\ a.pc = "asking" => c.toServer = <<"ask">> /\ c.toHook = <<>>
       /\ c.toServer # <<"hello">> /\ (c.toServer = <<"ask">> => c.toHook = <<>>)
  /\ c.pc = "deciding" => a.pc # "challenge" /\ c.toServer = <<>> /\ c.toHook = <<>>
  /\ c.pc = "closed" /\ a.pc = "challenge" =>
       c.toHook = <<>> \/ (c.toHook = <<"challenge">> /\ c.toServer = <<>>)
  /\ c.pc = "closed" /\ a.pc = "asking" =>
       \/ c.toHook \in {<<>>, <<"ask">>}
       \/ c.toHook = <<"allow">> /\ c.card = "allow"
       \/ c.toHook = <<"deny">> /\ c.card = "deny"

(* What has been said, and by whom.                                        *)
Said(k, a, c) ==
  /\ a.pc \in {"connecting", "challenge", "asking"} => k.mac + a.size <= k.ask
  /\ a.pc = "asking" \/ c.toServer = <<"ask">> =>
       c.token = a.token /\ k.mac + a.size <= k.ask
  /\ a.out \in {"allow", "deny"} => a.pc = "done" /\ c.pc = "closed" /\ c.card = a.out

(* How long the hook has run, and may still.                               *)
InTime(k, a) ==
  /\ a.pc \in {"idle", "file"} => a.age = 0
  /\ a.pc = "connecting" => a.age + a.left <= k.handshake
  /\ a.pc = "challenge" => a.age + a.left <= 2 * k.handshake
  /\ a.pc = "asking" => a.age + a.left <= 2 * k.handshake + k.client

Pair(k, a, c) ==
  /\ a \in HookStates(k) /\ c \in ConnStates(k)
  /\ Talk(a, c) /\ Said(k, a, c) /\ InTime(k, a)

BridgeHolds(k) ==
  /\ hook \in [k.hooks -> HookStates(k)] /\ conn \in [k.hooks -> ConnStates(k)]
  /\ starts \in Nat /\ up \in 0..starts /\ agentBridgeFile \in 0..starts
  /\ \A h \in k.hooks : Pair(k, hook[h], conn[h])
  /\ Cardinality(B(k)!Taken) <= k.connections

(* The limits, as each end has them.                                       *)
Limits(k) ==
  /\ k.handshake \in Nat /\ k.server \in Nat /\ k.client \in Nat /\ k.timeout \in Nat
  /\ k.handshake <= k.server /\ k.handshake <= k.client
  /\ 2 * k.handshake + k.client < k.timeout

(* They are in the order the proofs need.                                  *)
LEMMA LimitsHold == ASSUME NEW k, B(k)!TimesAssumption PROVE Limits(k)
BY DEF Limits, B!TimesAssumption

(* Counting is the same in the bridge as anywhere.                         *)
LEMMA SameCount ==
  ASSUME NEW k, NEW X
  PROVE  /\ B(k)!IsFiniteSet(X) <=> IsFiniteSet(X)
         /\ B(k)!Cardinality(X) = Cardinality(X)
<1>1. B(k)!IsFiniteSet(X) <=> IsFiniteSet(X)
  BY DEF B!IsFiniteSet, IsFiniteSet
<1>2. B(k)!Cardinality(X) = Cardinality(X)
  BY DEF B!Cardinality, Cardinality
<1> QED BY <1>1, <1>2

(* Lines one at a time.                                                    *)
LEMMA OneLine ==
  /\ \A x : Head(<<x>>) = x /\ Tail(<<x>>) = <<>> /\ Append(<<>>, x) = <<x>> /\ <<x>> # <<>>
  /\ \A x, y : <<x>> = <<y>> => x = y
<1>1. ASSUME NEW x
      PROVE  /\ Head(<<x>>) = x /\ Tail(<<x>>) = <<>>
             /\ Append(<<>>, x) = <<x>> /\ <<x>> # <<>>
  OBVIOUS
<1>2. ASSUME NEW x, NEW y, <<x>> = <<y>>  PROVE x = y
  BY <1>2
<1> QED BY <1>1, <1>2

(* A step of one hook or its connection keeps the rest: no slot is taken   *)
(* by it unless one is free.                                               *)
MovesTo(h, b, d) ==
  /\ (hook' = hook /\ b = hook[h]) \/ hook' = [hook EXCEPT ![h] = b]
  /\ (conn' = conn /\ d = conn[h]) \/ conn' = [conn EXCEPT ![h] = d]
  /\ UNCHANGED <<up, agentBridgeFile, starts>>

(* Such a step keeps the invariant if it keeps it of its own pair.         *)
LEMMA PairMoves ==
  ASSUME NEW k, B(k)!SlotsAssumption, BridgeHolds(k), NEW h \in k.hooks, NEW b, NEW d,
         MovesTo(h, b, d), Pair(k, b, d),
         d.pc \in {"hello", "ask", "deciding"} =>
           \/ conn[h].pc \in {"hello", "ask", "deciding"}
           \/ Cardinality(B(k)!Taken) < k.connections
  PROVE  BridgeHolds(k)'
<1>1. /\ hook' \in [k.hooks -> HookStates(k)] /\ hook'[h] = b
      /\ \A g \in k.hooks : g # h => hook'[g] = hook[g]
  BY DEF BridgeHolds, MovesTo, Pair
<1>2. /\ conn' \in [k.hooks -> ConnStates(k)] /\ conn'[h] = d
      /\ \A g \in k.hooks : g # h => conn'[g] = conn[g]
  BY DEF BridgeHolds, MovesTo, Pair
<1>3. \A g \in k.hooks : Pair(k, hook'[g], conn'[g])
  BY <1>1, <1>2 DEF BridgeHolds
<1>4. Cardinality(B(k)!Taken') <= k.connections
  <2> DEFINE T == B(k)!Taken
             Tn == {g \in k.hooks : conn'[g].pc \in {"hello", "ask", "deciding"}}
  <2>1. T = {g \in k.hooks : conn[g].pc \in {"hello", "ask", "deciding"}} /\ B(k)!Taken' = Tn
    BY DEF B!Taken, B!Serving, B!Serves
  <2>2. IsFiniteSet(T) /\ IsFiniteSet(k.hooks) /\ k.connections \in Nat
    BY <2>1, FS_Subset, SameCount DEF B!SlotsAssumption
  <2>3. Cardinality(T) \in Nat /\ Cardinality(T) <= k.connections
    BY <2>2, FS_CardinalityType DEF BridgeHolds
  <2>4. CASE Tn \subseteq T
    <3>1. Cardinality(Tn) <= Cardinality(T) /\ IsFiniteSet(Tn)
      BY <2>2, <2>4, FS_Subset
    <3>2. Cardinality(Tn) \in Nat
      BY <3>1, FS_CardinalityType
    <3> HIDE DEF T, Tn
    <3> QED BY <2>1, <2>2, <2>3, <3>1, <3>2
  <2>5. CASE ~(Tn \subseteq T)
    <3>1. Tn \subseteq T \cup {h} /\ Cardinality(T) < k.connections
      BY <1>2, <2>1, <2>5
    <3>2. IsFiniteSet(T \cup {h}) /\ Cardinality(T \cup {h}) <= Cardinality(T) + 1
      <4> HIDE DEF T
      <4> QED BY <2>2, <2>3, FS_AddElement
    <3>3. Cardinality(Tn) <= Cardinality(T \cup {h}) /\ IsFiniteSet(Tn)
      BY <3>1, <3>2, FS_Subset
    <3>4. Cardinality(Tn) \in Nat /\ Cardinality(T \cup {h}) \in Nat
      BY <3>2, <3>3, FS_CardinalityType
    <3> HIDE DEF T, Tn
    <3> QED BY <2>1, <2>2, <2>3, <3>1, <3>2, <3>3, <3>4
  <2> QED BY <2>4, <2>5
<1> QED BY <1>1, <1>2, <1>3, <1>4 DEF BridgeHolds, MovesTo

(* A hook that ends without a decision.                                    *)
LEMMA HookEnds ==
  ASSUME NEW k, Limits(k), NEW a, NEW c, Pair(k, a, c), a.pc # "done",
         NEW out \in {"input", "absent", "connect", "closed", "timeout", "cancelled"}
  PROVE  Pair(k, [a EXCEPT !.pc = "done", !.left = 0, !.out = out], c)
<1> DEFINE b == [a EXCEPT !.pc = "done", !.left = 0, !.out = out]
<1>1. /\ b \in HookStates(k) /\ b.pc = "done" /\ b.out = out
      /\ b.token = a.token /\ b.size = a.size
  <2>1. "done" \in HookPlaces /\ 0 \in 0..k.client /\ out \in HookEndings
    BY DEF HookPlaces, HookEndings, Limits
  <2> QED BY <2>1, Zenon DEF Pair, HookStates
<1> HIDE DEF b
<1>2. Talk(b, c) /\ InTime(k, b)
  BY <1>1 DEF Pair, Talk, InTime
<1>3. Said(k, b, c)
  BY <1>1 DEF Pair, Said
<1> QED BY <1>1, <1>2, <1>3 DEF Pair, b

(* The hook's steps that only it takes part in.                            *)
LEMMA BridgeHookEnds ==
  ASSUME NEW k, Limits(k), B(k)!SlotsAssumption, BridgeHolds(k), NEW h \in k.hooks,
         \/ B(k)!Unfit(h) \/ B(k)!ConnectFails(h) \/ B(k)!ReadEnd(h)
         \/ B(k)!HookTimesOut(h) \/ B(k)!Cancelled(h)
         \/ B(k)!ReadFile(h) /\ agentBridgeFile = 0
  PROVE  BridgeHolds(k)'
<1>1. PICK out \in {"input", "absent", "connect", "closed", "timeout", "cancelled"} :
        /\ hook' = [hook EXCEPT ![h] = [hook[h] EXCEPT !.pc = "done", !.left = 0, !.out = out]]
        /\ UNCHANGED <<conn, up, agentBridgeFile, starts>> /\ hook[h].pc # "done"
  BY DEF B!Unfit, B!ConnectFails, B!ReadEnd, B!HookTimesOut, B!Cancelled,
         B!ReadFile, B!Hook, B!Ended, B!HookOnly
<1>2. Pair(k, [hook[h] EXCEPT !.pc = "done", !.left = 0, !.out = out], conn[h])
  BY <1>1, HookEnds DEF BridgeHolds
<1>3. MovesTo(h, [hook[h] EXCEPT !.pc = "done", !.left = 0, !.out = out], conn[h])
  BY <1>1 DEF MovesTo
<1> QED BY <1>2, <1>3, PairMoves

(* A hook that starts, reads the file, or whose agent leaves.              *)
LEMMA BridgeHookStarts ==
  ASSUME NEW k, Limits(k), B(k)!SlotsAssumption, BridgeHolds(k), NEW h \in k.hooks,
         \/ B(k)!Start(h) \/ B(k)!AgentLeaves(h)
         \/ B(k)!ReadFile(h) /\ agentBridgeFile # 0
  PROVE  BridgeHolds(k)'
<1>1. PICK a \in HookStates(k), c \in ConnStates(k) :
        a = hook[h] /\ c = conn[h] /\ Pair(k, a, c)
  BY DEF BridgeHolds, Pair
<1>2. CASE B(k)!Start(h)
  <2>1. PICK kind \in k.kinds, same \in k.builds, size \in k.sizes, parent \in k.parents :
          hook' = [hook EXCEPT ![h] = [hook[h] EXCEPT !.pc = "file", !.kind = kind,
                                       !.same = same, !.size = size, !.parent = parent]]
    BY <1>2, Zenon DEF B!Start, B!Hook
  <2>2. a.pc = "idle" /\ UNCHANGED <<conn, up, agentBridgeFile, starts>>
    BY <1>1, <1>2 DEF B!Start, B!HookOnly
  <2> DEFINE b == [hook[h] EXCEPT !.pc = "file", !.kind = kind, !.same = same, !.size = size,
                                  !.parent = parent]
  <2>3. b = [a EXCEPT !.pc = "file", !.kind = kind, !.same = same, !.size = size,
                      !.parent = parent]
    BY <1>1, Zenon
  <2>4. hook' = [hook EXCEPT ![h] = b]
    BY <2>1, Zenon
  <2> HIDE DEF b
  <2>5. b \in HookStates(k) /\ b.pc = "file" /\ b.age = a.age /\ b.out = a.out
    <3>1. /\ "file" \in HookPlaces /\ kind \in HookKinds(k) /\ same \in HookBuilds(k)
          /\ size \in HookSizes(k) /\ parent \in HookParents(k)
      BY DEF HookPlaces, HookKinds, HookBuilds, HookSizes, HookParents
    <3> DEFINE a1 == [a EXCEPT !.pc = "file"]
               a2 == [a1 EXCEPT !.kind = kind]
               a3 == [a2 EXCEPT !.same = same]
               a4 == [a3 EXCEPT !.size = size]
               a5 == [a4 EXCEPT !.parent = parent]
    <3>2. b = a5
      BY <2>3
    <3>3. a1 \in HookStates(k) /\ a1.pc = "file" /\ a1.age = a.age /\ a1.out = a.out
      BY <3>1 DEF HookStates
    <3> HIDE DEF a1
    <3>4. a2 \in HookStates(k) /\ a2.pc = "file" /\ a2.age = a.age /\ a2.out = a.out
      BY <3>1, <3>3 DEF HookStates
    <3> HIDE DEF a2
    <3>5. a3 \in HookStates(k) /\ a3.pc = "file" /\ a3.age = a.age /\ a3.out = a.out
      BY <3>1, <3>4 DEF HookStates
    <3> HIDE DEF a3
    <3>6. a4 \in HookStates(k) /\ a4.pc = "file" /\ a4.age = a.age /\ a4.out = a.out
      BY <3>1, <3>5 DEF HookStates
    <3> HIDE DEF a4
    <3>7. a5 \in HookStates(k) /\ a5.pc = "file" /\ a5.age = a.age /\ a5.out = a.out
      BY <3>1, <3>6 DEF HookStates
    <3> HIDE DEF a5
    <3> QED BY <3>2, <3>7
  <2>6. MovesTo(h, b, c)
    BY <1>1, <2>2, <2>4 DEF MovesTo
  <2>7. Pair(k, b, c)
    BY <1>1, <2>2, <2>5, OneLine DEF Pair, Talk, Said, InTime
  <2> QED BY <1>1, <2>6, <2>7, PairMoves
<1>3. CASE B(k)!AgentLeaves(h)
  <2> DEFINE b == [a EXCEPT !.parent = "gone"]
  <2>1. /\ b \in HookStates(k) /\ b.pc = a.pc /\ b.out = a.out /\ b.age = a.age
        /\ b.left = a.left /\ b.size = a.size /\ b.token = a.token
    <3>1. "gone" \in HookParents(k)
      BY DEF HookParents
    <3> QED BY <3>1 DEF HookStates
  <2>2. MovesTo(h, b, c)
    BY <1>1, <1>3 DEF MovesTo, B!AgentLeaves, B!Hook, B!HookOnly
  <2> HIDE DEF b
  <2>3. Pair(k, b, c)
    BY <1>1, <2>1 DEF Pair, Talk, Said, InTime
  <2> QED BY <1>1, <2>2, <2>3, PairMoves
<1>4. CASE B(k)!ReadFile(h) /\ agentBridgeFile # 0
  <2> DEFINE b == [a EXCEPT !.pc = "connecting", !.token = agentBridgeFile,
                            !.left = k.handshake]
  <2>1. a.pc = "file" /\ k.mac + a.size <= k.ask /\ agentBridgeFile \in Nat
    BY <1>1, <1>4 DEF BridgeHolds, B!ReadFile, B!Fits
  <2>2. /\ b \in HookStates(k) /\ b.pc = "connecting" /\ b.out = a.out /\ b.age = a.age
        /\ b.left = k.handshake /\ b.size = a.size
    <3>1. "connecting" \in HookPlaces /\ k.handshake \in 0..k.client
      BY DEF HookPlaces, Limits
    <3> QED BY <2>1, <3>1, Zenon DEF HookStates
  <2>3. MovesTo(h, b, c)
    BY <1>1, <1>4 DEF MovesTo, B!ReadFile, B!Hook, B!HookOnly
  <2> HIDE DEF b
  <2>4. Talk(b, c)
    BY <1>1, <2>1, <2>2 DEF Pair, Talk
  <2>5. Said(k, b, c)
    BY <1>1, <2>1, <2>2, OneLine DEF Pair, Talk, Said
  <2>6. InTime(k, b)
    BY <1>1, <2>1, <2>2 DEF Pair, InTime, Limits
  <2>7. Pair(k, b, c)
    BY <2>2, <2>4, <2>5, <2>6 DEF Pair
  <2> QED BY <1>1, <2>3, <2>7, PairMoves
<1> QED BY <1>2, <1>3, <1>4

(* A hook that connects: its hello is on its way.                          *)
LEMMA BridgeConnect ==
  ASSUME NEW k, Limits(k), B(k)!SlotsAssumption, BridgeHolds(k), NEW h \in k.hooks,
         B(k)!Connect(h)
  PROVE  BridgeHolds(k)'
<1>1. PICK a \in HookStates(k), c \in ConnStates(k) :
        a = hook[h] /\ c = conn[h] /\ Pair(k, a, c)
  BY DEF BridgeHolds, Pair
<1> DEFINE b == [a EXCEPT !.pc = "challenge", !.left = k.handshake]
           d == [c EXCEPT !.pc = "queued", !.token = up, !.toServer = <<"hello">>]
<1>2. a.pc = "connecting" /\ MovesTo(h, b, d)
  BY <1>1 DEF MovesTo, B!Connect, B!Hook, B!Conn, B!Link
<1>3. /\ b \in HookStates(k) /\ b.pc = "challenge" /\ b.out = a.out /\ b.age = a.age
      /\ b.left = k.handshake /\ b.size = a.size
  <2>1. "challenge" \in HookPlaces /\ k.handshake \in 0..k.client
    BY DEF HookPlaces, Limits
  <2> QED BY <2>1, Zenon DEF HookStates
<1>4. up \in Nat
  BY DEF BridgeHolds
<1>5. /\ d \in ConnStates(k) /\ d.pc = "queued" /\ d.toServer = <<"hello">>
      /\ d.toHook = c.toHook /\ d.card = c.card
  <2>1. "queued" \in ConnPlaces /\ <<"hello">> \in HooksLines
    BY DEF ConnPlaces, HooksLines
  <2> QED BY <1>4, <2>1, Zenon DEF ConnStates
<1> HIDE DEF b, d
<1>6. Talk(b, d)
  BY <1>1, <1>2, <1>3, <1>5 DEF Pair, Talk
<1>7. Said(k, b, d)
  BY <1>1, <1>2, <1>3, <1>5, OneLine DEF Pair, Said
<1>8. InTime(k, b)
  BY <1>1, <1>2, <1>3 DEF Pair, InTime, Limits, HookStates
<1> QED BY <1>2, <1>3, <1>5, <1>6, <1>7, <1>8, PairMoves DEF Pair

(* The challenge proves the listener's token, or the hook ends; then what  *)
(* it asks is on its way.                                                  *)
LEMMA BridgeChallenge ==
  ASSUME NEW k, Limits(k), B(k)!SlotsAssumption, BridgeHolds(k), NEW h \in k.hooks,
         B(k)!ReadChallenge(h)
  PROVE  BridgeHolds(k)'
<1>1. PICK a \in HookStates(k), c \in ConnStates(k) :
        a = hook[h] /\ c = conn[h] /\ Pair(k, a, c)
  BY DEF BridgeHolds, Pair
<1>2. /\ a.pc = "challenge" /\ c.pc \in {"ask", "closed"} /\ c.toServer = <<>>
      /\ c.toHook = <<"challenge">>
  BY <1>1, OneLine DEF Pair, Talk, ConnStates, ConnPlaces, B!ReadChallenge, B!HookReads
<1>3. Tail(c.toHook) = <<>> /\ Append(c.toServer, "ask") = <<"ask">>
  BY <1>2, OneLine
<1>4. CASE c.token = a.token
  <2> DEFINE wait == B(k)!AskLimit(a.kind)
             b == [a EXCEPT !.pc = "asking", !.left = wait]
             d == [c EXCEPT !.toHook = Tail(@), !.toServer = Append(@, "ask")]
  <2>1. MovesTo(h, b, d)
    BY <1>1, <1>4 DEF MovesTo, B!ReadChallenge, B!Proves, B!Hook, B!Conn, B!Link
  <2>2. wait \in Nat /\ wait <= k.client
    BY DEF B!AskLimit, B!Wait, Limits
  <2>3. /\ b \in HookStates(k) /\ b.pc = "asking" /\ b.out = a.out /\ b.age = a.age
        /\ b.left = wait /\ b.size = a.size /\ b.token = a.token
    <3> HIDE DEF wait
    <3>1. "asking" \in HookPlaces /\ wait \in 0..k.client
      BY <2>2 DEF HookPlaces, Limits
    <3> QED BY <3>1, Zenon DEF HookStates
  <2>4. /\ d \in ConnStates(k) /\ d.pc = c.pc /\ d.toServer = <<"ask">>
        /\ d.toHook = <<>> /\ d.card = c.card /\ d.token = c.token
    <3>1. <<"ask">> \in HooksLines /\ <<>> \in OttidsLines
      BY DEF HooksLines, OttidsLines
    <3> QED BY <1>3, <3>1, Zenon DEF ConnStates
  <2> HIDE DEF wait, b, d
  <2>5. Talk(b, d)
    BY <1>1, <1>2, <2>3, <2>4, OneLine DEF Pair, Talk
  <2>6. Said(k, b, d)
    BY <1>1, <1>2, <1>4, <2>3, <2>4 DEF Pair, Said
  <2>7. InTime(k, b)
    BY <1>1, <1>2, <2>2, <2>3 DEF Pair, InTime, Limits, HookStates
  <2> QED BY <1>1, <2>1, <2>3, <2>4, <2>5, <2>6, <2>7, PairMoves DEF Pair
<1>5. CASE c.token # a.token
  <2> DEFINE b == [a EXCEPT !.pc = "done", !.left = 0, !.out = "unproven"]
             d == [c EXCEPT !.toHook = Tail(@)]
  <2>1. MovesTo(h, b, d)
    BY <1>1, <1>5 DEF MovesTo, B!ReadChallenge, B!Proves, B!Hook, B!Conn, B!Link,
       B!Ended
  <2>2. b \in HookStates(k) /\ b.pc = "done" /\ b.out = "unproven"
    <3>1. "done" \in HookPlaces /\ 0 \in 0..k.client /\ "unproven" \in HookEndings
      BY DEF HookPlaces, HookEndings, Limits
    <3> QED BY <3>1, Zenon DEF HookStates
  <2>3. /\ d \in ConnStates(k) /\ d.pc = c.pc /\ d.toServer = <<>>
        /\ d.toHook = <<>> /\ d.card = c.card
    <3>1. <<>> \in OttidsLines
      BY DEF OttidsLines
    <3> QED BY <1>2, <1>3, <3>1, Zenon DEF ConnStates
  <2> HIDE DEF b, d
  <2>4. Talk(b, d)
    BY <1>1, <1>2, <2>2, <2>3, OneLine DEF Pair, Talk
  <2>5. Said(k, b, d) /\ InTime(k, b)
    BY <2>2, <2>3, OneLine DEF Said, InTime
  <2> QED BY <1>1, <2>1, <2>2, <2>3, <2>4, <2>5, PairMoves DEF Pair
<1> QED BY <1>4, <1>5

(* The answer the hook reads is the user's, or none.                       *)
LEMMA BridgeAnswer ==
  ASSUME NEW k, Limits(k), B(k)!SlotsAssumption, BridgeHolds(k), NEW h \in k.hooks,
         B(k)!ReadAnswer(h)
  PROVE  BridgeHolds(k)'
<1>1. PICK a \in HookStates(k), c \in ConnStates(k) :
        a = hook[h] /\ c = conn[h] /\ Pair(k, a, c)
  BY DEF BridgeHolds, Pair
<1>2. /\ a.pc = "asking" /\ c.pc = "closed"
      /\ \/ c.toHook = <<"ask">>
         \/ c.toHook = <<"allow">> /\ c.card = "allow"
         \/ c.toHook = <<"deny">> /\ c.card = "deny"
  BY <1>1, OneLine DEF Pair, Talk, ConnStates, ConnPlaces, B!ReadAnswer, B!HookReads
<1>3. PICK out \in {"ask", "allow", "deny"} :
        /\ Head(c.toHook) = out /\ Tail(c.toHook) = <<>>
        /\ out \in {"allow", "deny"} => c.card = out
  BY <1>2, OneLine
<1> DEFINE b == [a EXCEPT !.pc = "done", !.left = 0, !.out = out]
           d == [c EXCEPT !.toHook = Tail(@)]
<1>4. MovesTo(h, b, d)
  BY <1>1, <1>3 DEF MovesTo, B!ReadAnswer, B!Hook, B!Conn, B!Link, B!Ended
<1>5. /\ b \in HookStates(k) /\ b.pc = "done" /\ b.out = out
      /\ b.size = a.size /\ b.token = a.token
  <2>1. "done" \in HookPlaces /\ 0 \in 0..k.client /\ out \in HookEndings
    BY DEF HookPlaces, HookEndings, Limits
  <2> QED BY <2>1, Zenon DEF HookStates
<1>6. /\ d \in ConnStates(k) /\ d.pc = "closed" /\ d.toServer = c.toServer
      /\ d.card = c.card /\ d.token = c.token
  <2>1. <<>> \in OttidsLines
    BY DEF OttidsLines
  <2> QED BY <1>2, <1>3, <2>1, Zenon DEF ConnStates
<1> HIDE DEF b, d
<1>7. Talk(b, d) /\ InTime(k, b)
  BY <1>5, <1>6 DEF Talk, InTime
<1>8. Said(k, b, d)
  BY <1>1, <1>3, <1>5, <1>6 DEF Pair, Said
<1> QED BY <1>4, <1>5, <1>6, <1>7, <1>8, PairMoves DEF Pair

(* A connection that is closed, whatever the reason: an open card goes     *)
(* down, and no answer is on its way.                                      *)
LEMMA ConnCloses ==
  ASSUME NEW k, Limits(k), NEW a, NEW c, Pair(k, a, c),
         c.pc \in {"queued", "hello", "ask", "deciding"}, NEW why \in Refusals
  PROVE  Pair(k, a, [c EXCEPT !.pc = "closed", !.left = 0, !.refused = why,
                              !.card = IF @ = "open" THEN "withdrawn" ELSE @])
<1> DEFINE left0 == IF c.card = "open" THEN "withdrawn" ELSE c.card
           d == [c EXCEPT !.pc = "closed", !.left = 0, !.refused = why, !.card = left0]
<1>1. /\ d \in ConnStates(k) /\ d.pc = "closed" /\ d.toServer = c.toServer
      /\ d.toHook = c.toHook /\ d.token = c.token
  <2>1. "closed" \in ConnPlaces /\ 0 \in 0..k.server /\ left0 \in ConnCards
    BY DEF Pair, ConnStates, ConnPlaces, ConnCards, Limits
  <2> HIDE DEF left0
  <2> QED BY <2>1, Zenon DEF Pair, ConnStates
<1> HIDE DEF d
<1>2. Talk(a, d)
  BY <1>1 DEF Pair, Talk
<1>3. Said(k, a, d)
  BY <1>1 DEF Pair, Said
<1> QED BY <1>1, <1>2, <1>3 DEF Pair, d

(* What was asked is of the listener's own token and within its cap.       *)
LEMMA AskIsAdmitted ==
  ASSUME NEW k, BridgeHolds(k), NEW h \in k.hooks, conn[h].pc = "ask",
         B(k)!ServerReads(h)
  PROVE  /\ conn[h].token = hook[h].token /\ B(k)!Admits(h)
         /\ conn[h].toServer = <<"ask">> /\ conn[h].toHook = <<>>
         /\ hook[h].pc \in {"asking", "done"}
<1>1. Pair(k, hook[h], conn[h])
  BY DEF BridgeHolds
<1>2. conn[h].toServer = <<"ask">>
  BY <1>1 DEF Pair, Talk, ConnStates, HooksLines, B!ServerReads
<1>3. hook[h].pc \in {"asking", "done"}
  BY <1>1, <1>2, OneLine DEF Pair, Talk, HookStates, HookPlaces
<1> QED BY <1>1, <1>2, <1>3 DEF Pair, Talk, Said, B!Admits

(* The listener's steps that close a connection.                           *)
LEMMA BridgeCloses ==
  ASSUME NEW k, Limits(k), B(k)!SlotsAssumption, BridgeHolds(k), NEW h \in k.hooks,
         \/ B(k)!Accept(h) /\ ~B(k)!Free
         \/ B(k)!ReadHello(h) /\ ~hook[h].same
         \/ B(k)!ServerGivesUp(h) \/ B(k)!Withdraw(h) \/ B(k)!StopSeen(h)
  PROVE  BridgeHolds(k)'
<1>1. PICK why \in Refusals :
        /\ conn' = [conn EXCEPT ![h] = B(k)!Closed(h, why)]
        /\ UNCHANGED <<hook, up, agentBridgeFile, starts>>
        /\ conn[h].pc \in {"queued", "hello", "ask", "deciding"}
  BY DEF Refusals, B!Accept, B!ReadHello, B!ServerGivesUp, B!Withdraw,
         B!StopSeen, B!Conn, B!ConnOnly, B!Serves
<1> DEFINE d == B(k)!Closed(h, why)
<1>2. Pair(k, hook[h], d)
  BY <1>1, ConnCloses DEF BridgeHolds, B!Closed
<1>3. d.pc = "closed"
  BY DEF BridgeHolds, Pair, ConnStates, B!Closed
<1>4. MovesTo(h, hook[h], d)
  <2> HIDE DEF d
  <2> QED BY <1>1 DEF MovesTo, d
<1> HIDE DEF d
<1> QED BY <1>2, <1>3, <1>4, PairMoves

(* The handshake goes on: the hello is read, and the challenge sent.       *)
LEMMA BridgeHandshake ==
  ASSUME NEW k, Limits(k), B(k)!SlotsAssumption, BridgeHolds(k), NEW h \in k.hooks,
         \/ B(k)!Accept(h) /\ B(k)!Free
         \/ B(k)!ReadHello(h) /\ hook[h].same
  PROVE  BridgeHolds(k)'
<1>1. PICK a \in HookStates(k), c \in ConnStates(k) :
        a = hook[h] /\ c = conn[h] /\ Pair(k, a, c)
  BY DEF BridgeHolds, Pair
<1>2. CASE B(k)!Accept(h) /\ B(k)!Free
  <2> DEFINE d == [c EXCEPT !.pc = "hello", !.left = k.handshake]
  <2>1. c.pc = "queued" /\ MovesTo(h, a, d)
    BY <1>1, <1>2 DEF MovesTo, B!Accept, B!Conn, B!ConnOnly
  <2>2. /\ d \in ConnStates(k) /\ d.pc = "hello" /\ d.toServer = c.toServer
        /\ d.toHook = c.toHook /\ d.card = c.card /\ d.token = c.token
    <3>1. "hello" \in ConnPlaces /\ k.handshake \in 0..k.server
      BY DEF ConnPlaces, Limits
    <3> QED BY <3>1, Zenon DEF ConnStates
  <2>3. Cardinality(B(k)!Taken) < k.connections
    BY <1>2, SameCount DEF B!Free, B!Slots
  <2> HIDE DEF d
  <2>4. Talk(a, d)
    BY <1>1, <2>1, <2>2 DEF Pair, Talk
  <2>5. Said(k, a, d)
    BY <1>1, <2>1, <2>2 DEF Pair, Said
  <2>6. Pair(k, a, d)
    BY <1>1, <2>2, <2>4, <2>5 DEF Pair
  <2> QED BY <2>1, <2>3, <2>6, PairMoves
<1>3. CASE B(k)!ReadHello(h) /\ hook[h].same
  <2> DEFINE d == [c EXCEPT !.pc = "ask", !.left = k.handshake, !.toServer = Tail(@),
                            !.toHook = <<"challenge">>]
  <2>1. c.pc = "hello" /\ MovesTo(h, a, d)
    BY <1>1, <1>3 DEF MovesTo, B!ReadHello, B!Conn, B!ConnOnly
  <2>2. c.toServer = <<"hello">> /\ Tail(c.toServer) = <<>>
    BY <1>1, <2>1, OneLine DEF Pair, Talk
  <2>3. /\ d \in ConnStates(k) /\ d.pc = "ask" /\ d.toServer = <<>>
        /\ d.toHook = <<"challenge">> /\ d.card = c.card
    <3>1. /\ "ask" \in ConnPlaces /\ k.handshake \in 0..k.server /\ <<>> \in HooksLines
          /\ <<"challenge">> \in OttidsLines
      BY DEF ConnPlaces, HooksLines, OttidsLines, Limits
    <3> QED BY <2>2, <3>1, Zenon DEF ConnStates
  <2> HIDE DEF d
  <2>4. Talk(a, d)
    BY <1>1, <2>1, <2>3, OneLine DEF Pair, Talk
  <2>5. Said(k, a, d)
    BY <1>1, <2>1, <2>3, OneLine DEF Pair, Talk, Said
  <2>6. Pair(k, a, d)
    BY <1>1, <2>3, <2>4, <2>5 DEF Pair
  <2>7. conn[h].pc \in {"hello", "ask", "deciding"}
    BY <1>1, <2>1
  <2> QED BY <2>1, <2>6, <2>7, PairMoves
<1> QED BY <1>2, <1>3

(* A reply: "ask", or the user's own decision.                             *)
LEMMA ConnReplies ==
  ASSUME NEW k, Limits(k), NEW a, NEW c, Pair(k, a, c), a.pc # "challenge",
         c.pc \in {"ask", "deciding"}, NEW answer \in {"ask", "allow", "deny"},
         answer # "ask" => c.card = answer
  PROVE  Pair(k, a, [c EXCEPT !.pc = "closed", !.left = 0, !.toHook = <<answer>>,
                              !.card = IF @ = "open" THEN "withdrawn" ELSE @])
<1> DEFINE left0 == IF c.card = "open" THEN "withdrawn" ELSE c.card
           d == [c EXCEPT !.pc = "closed", !.left = 0, !.toHook = <<answer>>, !.card = left0]
<1>1. /\ d \in ConnStates(k) /\ d.pc = "closed" /\ d.toServer = c.toServer
      /\ d.toHook = <<answer>> /\ d.token = c.token /\ d.card = left0
  <2>1. "closed" \in ConnPlaces /\ 0 \in 0..k.server /\ <<answer>> \in OttidsLines
    BY DEF ConnPlaces, OttidsLines, Limits
  <2>2. left0 \in ConnCards
    BY DEF Pair, ConnStates, ConnCards
  <2> HIDE DEF left0
  <2> QED BY <2>1, <2>2, Zenon DEF Pair, ConnStates
<1>2. answer # "ask" => left0 = answer
  OBVIOUS
<1> HIDE DEF d, left0
<1>3. Talk(a, d)
  BY <1>1, <1>2 DEF Pair, Talk
<1>4. Said(k, a, d)
  BY <1>1 DEF Pair, Said
<1> QED BY <1>1, <1>3, <1>4 DEF Pair, d, left0

(* What the listener answers, and when.                                    *)
LEMMA BridgeReplies ==
  ASSUME NEW k, Limits(k), B(k)!SlotsAssumption, BridgeHolds(k), NEW h \in k.hooks,
         NEW answer \in {"ask", "allow", "deny"}, answer # "ask" => conn[h].card = answer,
         conn[h].pc = "deciding" \/ (conn[h].pc = "ask" /\ B(k)!ServerReads(h)),
         B(k)!Conn(h, B(k)!Reply(h, answer)), B(k)!ConnOnly
  PROVE  BridgeHolds(k)'
<1>1. Pair(k, hook[h], conn[h])
  BY DEF BridgeHolds
<1>2. hook[h].pc # "challenge"
  BY <1>1, AskIsAdmitted DEF Pair, Talk
<1> DEFINE d == B(k)!Reply(h, answer)
<1>3. Pair(k, hook[h], d)
  BY <1>1, <1>2, ConnReplies DEF B!Reply
<1>4. d.pc = "closed"
  BY <1>1 DEF Pair, ConnStates, B!Reply
<1> HIDE DEF d
<1>5. MovesTo(h, hook[h], d)
  BY DEF MovesTo, B!Conn, B!ConnOnly, d
<1> QED BY <1>3, <1>4, <1>5, PairMoves

(* The request is read: shown on a card, or answered at once.              *)
LEMMA BridgeAsks ==
  ASSUME NEW k, Limits(k), B(k)!SlotsAssumption, BridgeHolds(k), NEW h \in k.hooks,
         B(k)!ReadAsk(h)
  PROVE  BridgeHolds(k)'
<1>1. /\ conn[h].pc = "ask" /\ B(k)!ServerReads(h) /\ B(k)!ConnOnly
      /\ conn[h].token = hook[h].token /\ B(k)!Admits(h)
      /\ conn[h].toServer = <<"ask">> /\ conn[h].toHook = <<>>
      /\ hook[h].pc \in {"asking", "done"}
  BY AskIsAdmitted DEF B!ReadAsk
<1>2. CASE B(k)!Conn(h, B(k)!Reply(h, "ask"))
  BY <1>1, <1>2, BridgeReplies
<1>3. CASE B(k)!Conn(h, [conn[h] EXCEPT !.pc = "deciding", !.left = k.server,
                                            !.card = "open", !.toServer = Tail(@)])
  <2>1. PICK a \in HookStates(k), c \in ConnStates(k) :
          a = hook[h] /\ c = conn[h] /\ Pair(k, a, c)
    BY DEF BridgeHolds, Pair
  <2> DEFINE d == [c EXCEPT !.pc = "deciding", !.left = k.server, !.card = "open",
                            !.toServer = Tail(@)]
  <2>2. MovesTo(h, a, d)
    BY <1>1, <1>3, <2>1 DEF MovesTo, B!Conn, B!ConnOnly
  <2>3. Tail(c.toServer) = <<>>
    BY <1>1, <2>1, OneLine
  <2>4. /\ d \in ConnStates(k) /\ d.pc = "deciding" /\ d.toServer = <<>>
        /\ d.toHook = c.toHook /\ d.token = c.token
    <3>1. /\ "deciding" \in ConnPlaces /\ k.server \in 0..k.server /\ <<>> \in HooksLines
          /\ "open" \in ConnCards
      BY DEF ConnPlaces, HooksLines, ConnCards, Limits
    <3> QED BY <2>3, <3>1, Zenon DEF ConnStates
  <2> HIDE DEF d
  <2>5. Talk(a, d)
    BY <1>1, <2>1, <2>4 DEF Talk
  <2>6. Said(k, a, d)
    BY <1>1, <2>1, <2>4 DEF Pair, Said
  <2>7. Pair(k, a, d)
    BY <2>1, <2>4, <2>5, <2>6 DEF Pair
  <2> QED BY <1>1, <2>2, <2>7, PairMoves
<1> QED BY <1>1, <1>2, <1>3 DEF B!ReadAsk

(* The user answers the card, and the answer is sent.                      *)
LEMMA BridgeDecides ==
  ASSUME NEW k, Limits(k), B(k)!SlotsAssumption, BridgeHolds(k), NEW h \in k.hooks,
         B(k)!Answer(h) \/ B(k)!SendAnswer(h)
  PROVE  BridgeHolds(k)'
<1>1. CASE B(k)!Answer(h)
  <2>1. PICK a \in HookStates(k), c \in ConnStates(k) :
          a = hook[h] /\ c = conn[h] /\ Pair(k, a, c)
    BY DEF BridgeHolds, Pair
  <2>2. PICK card0 \in {"allow", "deny", "unanswered"} :
          conn' = [conn EXCEPT ![h] = [c EXCEPT !.card = card0]]
    BY <1>1, <2>1 DEF B!Answer, B!Conn
  <2> DEFINE d == [c EXCEPT !.card = card0]
  <2>3. c.pc = "deciding" /\ MovesTo(h, a, d)
    BY <1>1, <2>1, <2>2 DEF MovesTo, B!Answer, B!ConnOnly
  <2>4. /\ d \in ConnStates(k) /\ d.pc = c.pc /\ d.toServer = c.toServer
        /\ d.toHook = c.toHook /\ d.token = c.token
    <3>1. card0 \in ConnCards
      BY DEF ConnCards
    <3> QED BY <3>1, Zenon DEF ConnStates
  <2> HIDE DEF d
  <2>5. Talk(a, d)
    BY <2>1, <2>3, <2>4 DEF Pair, Talk
  <2>6. Said(k, a, d)
    BY <2>1, <2>3, <2>4 DEF Pair, Said
  <2>7. Pair(k, a, d)
    BY <2>1, <2>4, <2>5, <2>6 DEF Pair
  <2>8. conn[h].pc = "deciding"
    BY <2>1, <2>3
  <2> QED BY <2>3, <2>7, <2>8, PairMoves
<1>2. CASE B(k)!SendAnswer(h)
  <2>1. PICK answer : answer = B(k)!HookAnswer(conn[h].card)
    OBVIOUS
  <2>2. answer \in {"ask", "allow", "deny"} /\ (answer # "ask" => conn[h].card = answer)
    BY <2>1 DEF B!HookAnswer
  <2>3. /\ conn[h].pc = "deciding" /\ B(k)!Conn(h, B(k)!Reply(h, answer))
        /\ B(k)!ConnOnly
    BY <1>2, <2>1 DEF B!SendAnswer
  <2> QED BY <2>2, <2>3, BridgeReplies
<1> QED BY <1>1, <1>2

(* Ottid starts, stops or crashes: a new token is one never used before,   *)
(* and a crash closes every connection.                                    *)
LEMMA BridgeOttid ==
  ASSUME NEW k, Limits(k), B(k)!SlotsAssumption, BridgeHolds(k),
         B(k)!BridgeStarts \/ B(k)!BridgeStops \/ B(k)!Crash
  PROVE  BridgeHolds(k)'
<1>1. CASE B(k)!BridgeStarts \/ B(k)!BridgeStops
  <2>1. UNCHANGED <<hook, conn>>
    BY <1>1 DEF B!BridgeStarts, B!BridgeStops
  <2>2. starts' \in Nat /\ up' \in 0..starts' /\ agentBridgeFile' \in 0..starts'
    <3>1. starts \in Nat
      BY DEF BridgeHolds
    <3>2. CASE B(k)!BridgeStarts
      BY <3>1, <3>2 DEF B!BridgeStarts
    <3>3. CASE B(k)!BridgeStops
      BY <3>1, <3>3 DEF B!BridgeStops
    <3> QED BY <1>1, <3>2, <3>3
  <2>3. B(k)!Taken' = B(k)!Taken
    BY <2>1 DEF B!Taken, B!Serving
  <2> QED BY <2>1, <2>2, <2>3 DEF BridgeHolds
<1>2. CASE B(k)!Crash
  <2>1. /\ hook' = hook /\ starts' = starts /\ agentBridgeFile' = agentBridgeFile /\ up' = 0
        /\ conn' = [h \in k.hooks |-> IF conn[h].pc \in {"none", "closed"} THEN conn[h]
                                      ELSE B(k)!Closed(h, "stopped")]
    BY <1>2 DEF B!Crash
  <2>2. ASSUME NEW h \in k.hooks
        PROVE  Pair(k, hook[h], conn'[h]) /\ conn'[h].pc \in {"none", "closed"}
    <3>1. Pair(k, hook[h], conn[h])
      BY DEF BridgeHolds
    <3>2. CASE conn[h].pc \in {"none", "closed"}
      BY <2>1, <3>1, <3>2
    <3>3. CASE conn[h].pc \notin {"none", "closed"}
      <4>1. conn[h].pc \in {"queued", "hello", "ask", "deciding"} /\ "stopped" \in Refusals
        BY <3>1, <3>3 DEF Pair, ConnStates, ConnPlaces, Refusals
      <4>2. Pair(k, hook[h], B(k)!Closed(h, "stopped"))
        BY <3>1, <4>1, ConnCloses DEF B!Closed
      <4>3. B(k)!Closed(h, "stopped").pc = "closed"
        BY <3>1 DEF Pair, ConnStates, B!Closed
      <4> QED BY <2>1, <3>3, <4>2, <4>3
    <3> QED BY <3>2, <3>3
  <2>3. conn' \in [k.hooks -> ConnStates(k)]
    BY <2>1, <2>2 DEF Pair
  <2>4. B(k)!Taken' = {}
    BY <2>2 DEF B!Taken, B!Serving, B!Serves
  <2>5. Cardinality(B(k)!Taken') <= k.connections
    BY <2>4, FS_EmptySet DEF B!SlotsAssumption
  <2>6. starts' \in Nat /\ up' \in 0..starts' /\ agentBridgeFile' \in 0..starts'
    BY <2>1 DEF BridgeHolds
  <2>7. hook' \in [k.hooks -> HookStates(k)] /\ \A h \in k.hooks : Pair(k, hook'[h], conn'[h])
    BY <2>1, <2>2 DEF BridgeHolds
  <2> QED BY <2>3, <2>5, <2>6, <2>7 DEF BridgeHolds
<1> QED BY <1>1, <1>2

(* Time passes for the two ends of one connection.                         *)
LEMMA HookTicks ==
  ASSUME NEW k, Limits(k), NEW a, NEW c, Pair(k, a, c),
         a.pc \in {"connecting", "challenge", "asking"}, a.left # 0
  PROVE  Pair(k, [a EXCEPT !.left = @ - 1, !.age = @ + 1], c)
<1> DEFINE l == a.left - 1
           n == a.age + 1
           b == [a EXCEPT !.left = l, !.age = n]
<1>1. a.left \in 1..k.client /\ a.age \in Nat
  BY DEF Pair, HookStates, Limits
<1>2. /\ b \in HookStates(k) /\ b.pc = a.pc /\ b.out = a.out /\ b.size = a.size
      /\ b.token = a.token /\ b.left = l /\ b.age = n
  <2>1. l \in 0..k.client /\ n \in Nat
    BY <1>1 DEF Limits
  <2> HIDE DEF l, n
  <2> QED BY <2>1, Zenon DEF Pair, HookStates
<1> HIDE DEF b
<1>3. Talk(b, c)
  BY <1>2 DEF Pair, Talk
<1>4. Said(k, b, c)
  BY <1>2 DEF Pair, Said
<1>5. InTime(k, b)
  BY <1>1, <1>2 DEF Pair, InTime, Limits
<1> QED BY <1>2, <1>3, <1>4, <1>5 DEF Pair, b

(* The same of the listener's end.                                         *)
LEMMA ConnTicks ==
  ASSUME NEW k, Limits(k), NEW a, NEW c, Pair(k, a, c), c.left # 0
  PROVE  /\ Pair(k, a, [c EXCEPT !.left = @ - 1])
         /\ [c EXCEPT !.left = @ - 1].pc = c.pc
<1> DEFINE l == c.left - 1
           d == [c EXCEPT !.left = l]
<1>1. /\ d \in ConnStates(k) /\ d.pc = c.pc /\ d.toServer = c.toServer
      /\ d.toHook = c.toHook /\ d.card = c.card /\ d.token = c.token
  <2>0. c.left \in 0..k.server
    BY DEF Pair, ConnStates
  <2>1. l \in 0..k.server
    BY <2>0 DEF Limits
  <2> HIDE DEF l
  <2> QED BY <2>1, Zenon DEF Pair, ConnStates
<1> HIDE DEF d
<1>2. Talk(a, d)
  BY <1>1 DEF Pair, Talk
<1>3. Said(k, a, d)
  BY <1>1 DEF Pair, Said
<1>4. Pair(k, a, d) /\ d.pc = c.pc
  BY <1>1, <1>2, <1>3 DEF Pair
<1> QED BY <1>4 DEF d

(* And for all of them.                                                    *)
LEMMA BridgeTicks ==
  ASSUME NEW k, Limits(k), B(k)!SlotsAssumption, BridgeHolds(k), B(k)!Tick
  PROVE  BridgeHolds(k)'
<1>1. /\ hook' = [h \in k.hooks |-> IF B(k)!Running(h)
                                    THEN [hook[h] EXCEPT !.left = @ - 1, !.age = @ + 1]
                                    ELSE hook[h]]
      /\ conn' = [h \in k.hooks |-> IF B(k)!Serving(h) THEN [conn[h] EXCEPT !.left = @ - 1]
                                    ELSE conn[h]]
      /\ UNCHANGED <<up, agentBridgeFile, starts>>
  BY DEF B!Tick, B!Link
<1>2. ASSUME NEW h \in k.hooks
      PROVE  /\ Pair(k, hook'[h], conn'[h]) /\ conn'[h].pc = conn[h].pc
  <2>1. /\ B(k)!Running(h) <=> hook[h].pc \in {"connecting", "challenge", "asking"}
        /\ B(k)!Running(h) => hook[h].left # 0
        /\ B(k)!Serving(h) => conn[h].left # 0
    BY DEF B!Tick, B!Due, B!Running, B!Waits
  <2>2. Pair(k, hook[h], conn[h])
    BY DEF BridgeHolds
  <2>3. Pair(k, hook'[h], conn[h])
    <3>1. CASE B(k)!Running(h)
      BY <1>1, <2>1, <2>2, <3>1, HookTicks
    <3>2. CASE ~B(k)!Running(h)
      BY <1>1, <2>2, <3>2
    <3> QED BY <3>1, <3>2
  <2>4. CASE B(k)!Serving(h)
    BY <1>1, <2>1, <2>3, <2>4, ConnTicks
  <2>5. CASE ~B(k)!Serving(h)
    BY <1>1, <2>3, <2>5
  <2> QED BY <2>4, <2>5
<1>3. hook' \in [k.hooks -> HookStates(k)] /\ conn' \in [k.hooks -> ConnStates(k)]
  <2>1. \A h \in k.hooks : hook'[h] \in HookStates(k) /\ conn'[h] \in ConnStates(k)
    BY <1>2 DEF Pair
  <2> QED BY <1>1, <2>1
<1>4. B(k)!Taken' = B(k)!Taken
  BY <1>2 DEF B!Taken, B!Serving
<1> QED BY <1>1, <1>2, <1>3, <1>4 DEF BridgeHolds

(* It starts with no connection, and no token.                             *)
LEMMA BridgeInit ==
  ASSUME NEW k, B(k)!TimesAssumption, B(k)!SlotsAssumption, B(k)!Init
  PROVE  BridgeHolds(k)
<1>1. Limits(k)
  BY LimitsHold
<1>2. ASSUME NEW h \in k.hooks  PROVE Pair(k, hook[h], conn[h])
  <2>1. /\ hook[h] = [pc |-> "idle", kind |-> "permission", same |-> TRUE, size |-> 0,
                      left |-> 0, age |-> 0, token |-> 0, parent |-> "alive", out |-> "none"]
        /\ conn[h] = [pc |-> "none", left |-> 0, token |-> 0, toServer |-> <<>>,
                      toHook |-> <<>>, card |-> "none", refused |-> "none"]
    BY DEF B!Init
  <2>2. hook[h] \in HookStates(k)
    <3>1. /\ "idle" \in HookPlaces /\ "permission" \in HookKinds(k) /\ TRUE \in HookBuilds(k)
          /\ 0 \in HookSizes(k) /\ 0 \in 0..k.client /\ 0 \in Nat /\ "alive" \in HookParents(k)
          /\ "none" \in HookEndings
      BY <1>1 DEF HookPlaces, HookKinds, HookBuilds, HookSizes, HookParents, HookEndings, Limits
    <3>2. [pc |-> "idle", kind |-> "permission", same |-> TRUE, size |-> 0, left |-> 0,
           age |-> 0, token |-> 0, parent |-> "alive", out |-> "none"] \in HookStates(k)
      BY <3>1, Zenon DEF HookStates
    <3> QED BY <2>1, <3>2, Zenon
  <2>3. conn[h] \in ConnStates(k)
    <3>1. /\ "none" \in ConnPlaces /\ 0 \in 0..k.server /\ 0 \in Nat /\ <<>> \in HooksLines
          /\ <<>> \in OttidsLines /\ "none" \in ConnCards /\ "none" \in Refusals
      BY <1>1 DEF ConnPlaces, HooksLines, OttidsLines, ConnCards, Refusals, Limits
    <3> QED BY <2>1, <3>1 DEF ConnStates
  <2>4. /\ hook[h].pc = "idle" /\ hook[h].age = 0 /\ hook[h].out = "none"
        /\ conn[h].pc = "none" /\ conn[h].toServer = <<>> /\ conn[h].toHook = <<>>
        /\ conn[h].card = "none"
    BY <2>1
  <2>5. Talk(hook[h], conn[h]) /\ InTime(k, hook[h])
    BY <2>4 DEF Talk, InTime
  <2>6. Said(k, hook[h], conn[h])
    BY <2>4, OneLine DEF Said
  <2> QED BY <2>2, <2>3, <2>5, <2>6 DEF Pair
<1>3. hook \in [k.hooks -> HookStates(k)] /\ conn \in [k.hooks -> ConnStates(k)]
  <2>1. \A h \in k.hooks : hook[h] \in HookStates(k) /\ conn[h] \in ConnStates(k)
    BY <1>2 DEF Pair
  <2> QED BY <2>1 DEF B!Init
<1>4. B(k)!Taken = {}
  <2>1. \A h \in k.hooks : conn[h].pc = "none"
    BY DEF B!Init
  <2> QED BY <2>1 DEF B!Taken, B!Serving, B!Serves
<1>5. Cardinality(B(k)!Taken) <= k.connections
  BY <1>4, FS_EmptySet DEF B!SlotsAssumption
<1>6. starts \in Nat /\ up \in 0..starts /\ agentBridgeFile \in 0..starts
  BY DEF B!Init
<1> QED BY <1>2, <1>3, <1>5, <1>6 DEF BridgeHolds

(* Every step of the hooks, the listener and Ottid, and none.              *)
LEMMA BridgeStep ==
  ASSUME NEW k, B(k)!TimesAssumption, B(k)!SlotsAssumption, BridgeHolds(k),
         [B(k)!Next]_(B(k)!vars)
  PROVE  BridgeHolds(k)'
<1>1. Limits(k)
  BY LimitsHold
<1>2. CASE UNCHANGED B(k)!vars
  <2>1. UNCHANGED <<hook, conn, up, agentBridgeFile, starts>>
    BY <1>2 DEF B!vars
  <2>2. B(k)!Taken' = B(k)!Taken
    BY <2>1 DEF B!Taken, B!Serving
  <2> QED BY <2>1, <2>2 DEF BridgeHolds
<1>3. ASSUME NEW h \in k.hooks, B(k)!Start(h) \/ B(k)!AgentLeaves(h) \/ B(k)!ReadFile(h)
      PROVE  BridgeHolds(k)'
  BY <1>1, <1>3, BridgeHookStarts, BridgeHookEnds
<1>4. ASSUME NEW h \in k.hooks,
             \/ B(k)!Unfit(h) \/ B(k)!ConnectFails(h) \/ B(k)!ReadEnd(h)
             \/ B(k)!HookTimesOut(h) \/ B(k)!Cancelled(h)
      PROVE  BridgeHolds(k)'
  BY <1>1, <1>4, BridgeHookEnds
<1>5. ASSUME NEW h \in k.hooks,
             B(k)!Connect(h) \/ B(k)!ReadChallenge(h) \/ B(k)!ReadAnswer(h)
      PROVE  BridgeHolds(k)'
  BY <1>1, <1>5, BridgeConnect, BridgeChallenge, BridgeAnswer
<1>6. ASSUME NEW h \in k.hooks,
             B(k)!Accept(h) \/ B(k)!ReadHello(h)
      PROVE  BridgeHolds(k)'
  BY <1>1, <1>6, BridgeHandshake, BridgeCloses
<1>7. ASSUME NEW h \in k.hooks,
             \/ B(k)!ServerGivesUp(h) \/ B(k)!Withdraw(h) \/ B(k)!StopSeen(h)
      PROVE  BridgeHolds(k)'
  BY <1>1, <1>7, BridgeCloses
<1>8. ASSUME NEW h \in k.hooks,
             B(k)!ReadAsk(h) \/ B(k)!Answer(h) \/ B(k)!SendAnswer(h)
      PROVE  BridgeHolds(k)'
  BY <1>1, <1>8, BridgeAsks, BridgeDecides
<1>9. CASE B(k)!BridgeStarts \/ B(k)!BridgeStops \/ B(k)!Crash
  BY <1>1, <1>9, BridgeOttid
<1>10. CASE B(k)!Tick
  BY <1>1, <1>10, BridgeTicks
<1> QED BY <1>2, <1>3, <1>4, <1>5, <1>6, <1>7, <1>8, <1>9, <1>10
        DEF B!Next, B!HookStep, B!ServerStep

(* What the run asks of the bridge.                                        *)
LEMMA BridgeMeans ==
  ASSUME NEW k, B(k)!TimesAssumption, BridgeHolds(k)
  PROVE  B(k)!BridgeInv
<1>1. \A h \in k.hooks : Pair(k, hook[h], conn[h])
  BY DEF BridgeHolds
<1>2. Limits(k)
  BY LimitsHold
<1>3. B(k)!BridgeTypeOK
  <2>1. ASSUME NEW h \in k.hooks
        PROVE  /\ hook[h].pc \in {"idle", "file", "done"} \cup {"connecting", "challenge", "asking"}
               /\ conn[h].pc \in {"none", "queued", "closed"} \cup {"hello", "ask", "deciding"}
               /\ hook[h].left \in 0..k.client /\ conn[h].left \in 0..k.server
               /\ conn[h].card \in {"none", "open", "allow", "deny", "unanswered", "withdrawn"}
    BY <1>1 DEF Pair, HookStates, HookPlaces, ConnStates, ConnPlaces, ConnCards
  <2>2. {up, agentBridgeFile} \subseteq 0..starts
    BY DEF BridgeHolds
  <2>3. B(k)!Cardinality(B(k)!Taken) <= k.connections
    BY SameCount DEF BridgeHolds
  <2> QED BY <2>1, <2>2, <2>3 DEF B!BridgeTypeOK, B!Waits, B!Serves
<1>4. B(k)!DecisionIsTheUsers
  BY <1>1 DEF Pair, Said, B!DecisionIsTheUsers
<1>5. B(k)!SaidOnlyToItsOttid
  <2> SUFFICES ASSUME NEW h \in k.hooks,
                      \/ hook[h].pc = "asking"
                      \/ \E i \in 1..Len(conn[h].toServer) : conn[h].toServer[i] = "ask"
               PROVE  conn[h].token = hook[h].token
    BY DEF B!SaidOnlyToItsOttid
  <2>1. Pair(k, hook[h], conn[h])
    BY <1>1
  <2>2. CASE hook[h].pc = "asking"
    BY <2>1, <2>2 DEF Pair, Said
  <2>3. CASE \E i \in 1..Len(conn[h].toServer) : conn[h].toServer[i] = "ask"
    <3>1. conn[h].toServer # <<>> /\ conn[h].toServer # <<"hello">>
      BY <2>3
    <3>2. conn[h].toServer = <<"ask">>
      BY <2>1, <3>1 DEF Pair, ConnStates, HooksLines
    <3> QED BY <2>1, <3>2 DEF Pair, Said
  <2> QED BY <2>2, <2>3
<1>6. B(k)!SentIsAdmitted
  BY <1>1 DEF Pair, ConnStates, Refusals, B!SentIsAdmitted
<1>7. B(k)!GivesUpFirst
  <2> SUFFICES ASSUME NEW h \in k.hooks, hook[h].pc \in {"connecting", "challenge", "asking"}
               PROVE  hook[h].age < k.timeout
    BY DEF B!GivesUpFirst, B!Running, B!Waits
  <2>1. hook[h].age \in Nat /\ hook[h].left \in 0..k.client /\ InTime(k, hook[h])
    BY <1>1 DEF Pair, HookStates
  <2> QED BY <1>2, <2>1 DEF InTime, Limits
<1> QED BY <1>3, <1>4, <1>5, <1>6, <1>7 DEF B!BridgeInv

(* A connection is refused for want of a slot by Accept alone.             *)
LEMMA RefusedAs ==
  ASSUME NEW k, BridgeHolds(k), NEW g \in k.hooks,
         \/ B(k)!Start(g) \/ B(k)!AgentLeaves(g) \/ B(k)!Answer(g)
         \/ B(k)!HookStep(g)
         \/ B(k)!ReadHello(g) \/ B(k)!ReadAsk(g) \/ B(k)!ServerGivesUp(g)
         \/ B(k)!SendAnswer(g) \/ B(k)!Withdraw(g) \/ B(k)!StopSeen(g)
         \/ B(k)!Accept(g) /\ B(k)!Free
  PROVE  \A h \in k.hooks : conn'[h].refused = "full" => conn[h].refused = "full"
<1> DEFINE Keeps(d) == d.refused = "full" => conn[g].refused = "full"
<1>1. conn \in [k.hooks -> ConnStates(k)] /\ conn[g] \in ConnStates(k)
  BY DEF BridgeHolds
<1>2. ASSUME NEW why, why # "full"  PROVE Keeps(B(k)!Closed(g, why))
  BY <1>1, <1>2 DEF B!Closed, ConnStates
<1>3. ASSUME NEW answer  PROVE Keeps(B(k)!Reply(g, answer))
  BY <1>1 DEF B!Reply, ConnStates
<1>4. UNCHANGED conn \/ \E d : Keeps(d) /\ conn' = [conn EXCEPT ![g] = d]
  <2>1. CASE B(k)!Start(g) \/ B(k)!AgentLeaves(g)
    BY <2>1 DEF B!Start, B!AgentLeaves, B!HookOnly
  <2>2. CASE B(k)!HookStep(g)
    <3>1. CASE B(k)!Connect(g)
      BY <1>1, <3>1 DEF B!Connect, B!Conn, ConnStates
    <3>2. CASE B(k)!ReadChallenge(g)
      BY <1>1, <3>2 DEF B!ReadChallenge, B!Conn, ConnStates
    <3>3. CASE B(k)!ReadAnswer(g)
      BY <1>1, <3>3 DEF B!ReadAnswer, B!Conn, ConnStates
    <3>4. CASE \/ B(k)!Unfit(g) \/ B(k)!ReadFile(g) \/ B(k)!ConnectFails(g)
               \/ B(k)!ReadEnd(g) \/ B(k)!HookTimesOut(g) \/ B(k)!Cancelled(g)
      BY <3>4 DEF B!Unfit, B!ReadFile, B!ConnectFails, B!ReadEnd,
                  B!HookTimesOut, B!Cancelled, B!HookOnly
    <3> QED BY <2>2, <3>1, <3>2, <3>3, <3>4 DEF B!HookStep
  <2>3. CASE B(k)!Answer(g)
    BY <1>1, <2>3 DEF B!Answer, B!Conn, ConnStates
  <2>4. CASE B(k)!ReadHello(g)
    <3>1. CASE hook[g].same
      BY <1>1, <2>4, <3>1 DEF B!ReadHello, B!Conn, ConnStates
    <3>2. CASE ~hook[g].same
      <4> HIDE DEF Keeps
      <4> QED BY <1>2, <2>4, <3>2 DEF B!ReadHello, B!Conn
    <3> QED BY <3>1, <3>2
  <2>5. CASE B(k)!ReadAsk(g)
    <3>1. CASE B(k)!Conn(g, B(k)!Closed(g, "size"))
      BY <1>2, <3>1, Zenon DEF B!Conn
    <3>2. CASE B(k)!Conn(g, B(k)!Closed(g, "token"))
      BY <1>2, <3>2, Zenon DEF B!Conn
    <3>3. CASE B(k)!Conn(g, B(k)!Reply(g, "ask"))
      BY <1>3, <3>3, Zenon DEF B!Conn
    <3>4. CASE B(k)!Conn(g, [conn[g] EXCEPT !.pc = "deciding", !.left = k.server,
                                                !.card = "open", !.toServer = Tail(@)])
      BY <1>1, <3>4 DEF B!Conn, ConnStates
    <3> HIDE DEF Keeps
    <3> QED BY <2>5, <3>1, <3>2, <3>3, <3>4, Zenon DEF B!ReadAsk
  <2>6. CASE B(k)!SendAnswer(g)
    BY <1>3, <2>6, Zenon DEF B!SendAnswer, B!Conn
  <2>7. CASE B(k)!ServerGivesUp(g)
    BY <1>2, <2>7 DEF B!ServerGivesUp, B!Conn
  <2>8. CASE B(k)!Withdraw(g)
    BY <1>2, <2>8 DEF B!Withdraw, B!Conn
  <2>9. CASE B(k)!StopSeen(g)
    BY <1>2, <2>9 DEF B!StopSeen, B!Conn
  <2>10. CASE B(k)!Accept(g) /\ B(k)!Free
    BY <1>1, <2>10 DEF B!Accept, B!Conn, ConnStates
  <2> QED BY <2>1, <2>2, <2>3, <2>4, <2>5, <2>6, <2>7, <2>8, <2>9, <2>10
<1> QED BY <1>1, <1>4

(* A hook is turned away where every slot serves a connection.             *)
LEMMA TurnedAway ==
  ASSUME NEW k, B(k)!TimesAssumption, B(k)!SlotsAssumption, BridgeHolds(k),
         [B(k)!Next]_(B(k)!vars)
  PROVE  B(k)!TurnedAwayOnlyAtCap
<1> SUFFICES ASSUME NEW h \in k.hooks, conn'[h].refused = "full", conn[h].refused # "full"
             PROVE  B(k)!Cardinality(B(k)!Taken) = k.connections
  BY DEF B!TurnedAwayOnlyAtCap
<1>1. conn[h] \in ConnStates(k)
  BY DEF BridgeHolds
<1>2. ~B(k)!Free
  <2>1. B(k)!Next
    BY DEF B!vars
  <2>2. ~(B(k)!BridgeStarts \/ B(k)!BridgeStops)
    BY DEF B!BridgeStarts, B!BridgeStops
  <2>3. ~B(k)!Crash
    BY <1>1 DEF B!Crash, B!Closed, ConnStates
  <2>4. ~B(k)!Tick
    BY <1>1 DEF B!Tick, ConnStates
  <2>5. PICK g \in k.hooks : \/ B(k)!Start(g) \/ B(k)!AgentLeaves(g)
                             \/ B(k)!Answer(g) \/ B(k)!HookStep(g)
                             \/ B(k)!ServerStep(g)
    BY <2>1, <2>2, <2>3, <2>4 DEF B!Next
  <2> QED BY <2>5, RefusedAs DEF B!ServerStep
<1>3. IsFiniteSet(B(k)!Taken)
  BY FS_Subset, SameCount DEF B!SlotsAssumption, B!Taken
<1>4. /\ Cardinality(B(k)!Taken) \in Nat /\ k.connections \in Nat
      /\ Cardinality(B(k)!Taken) <= k.connections
  BY <1>3, FS_CardinalityType DEF B!SlotsAssumption, BridgeHolds
<1>5. ~(Cardinality(B(k)!Taken) < k.connections)
  BY <1>2, SameCount DEF B!Free, B!Slots
<1>6. Cardinality(B(k)!Taken) = k.connections
  BY <1>4, <1>5
<1> QED BY <1>6, SameCount

(* The agents' parts take their own steps while they run.                  *)
LEMMA AgentsStep ==
  ASSUME [Next]_vars
  PROVE  /\ part' = part
         /\ part = "bridge" => [B(Asks)!Next]_(B(Asks)!vars)
         /\ part = "cap" => [B(Crowd)!Next]_(B(Crowd)!vars)
         /\ part = "listener" => [E(Pipe)!Next]_(E(Pipe)!vars)
         /\ part = "others" => [E(Socket)!Next]_(E(Socket)!vars)
<1>1. CASE Next
  BY <1>1 DEF Next
<1>2. CASE UNCHANGED vars
  BY <1>2 DEF vars, agentBridgeVars, agentEndpointVars, B!vars, E!vars
<1> QED BY <1>1, <1>2

-----------------------------------------------------------------------------
(* A hook prints a decision only if its user made it, tells what the agent *)
(* asks only to the Ottid whose file it read, is never refused once it     *)
(* asks, and gives up before its agent does; and no more connections are   *)
(* served than there are slots: for any hooks, sizes, slots and limits     *)
(* that are in the order of mod.rs.                                        *)
THEOREM BridgeKeepsItsWord ==
  ASSUME NEW CONSTANT k, B(k)!TimesAssumption, B(k)!SlotsAssumption
  PROVE  B(k)!Spec => []B(k)!BridgeInv
<1>1. B(k)!Init => BridgeHolds(k)
  BY BridgeInit
<1>2. BridgeHolds(k) /\ [B(k)!Next]_(B(k)!vars) => BridgeHolds(k)'
  BY BridgeStep
<1>3. BridgeHolds(k) => B(k)!BridgeInv
  BY BridgeMeans
<1> QED BY <1>1, <1>2, <1>3, PTL DEF B!Spec

(* Once the Hub's commands have settled, a listener on a pipe runs exactly *)
(* while a hook is installed, and the file leads to it: for any agents and *)
(* any number of bridges, whenever Ottid dies.                             *)
THEOREM ListenerWhileInstalled ==
  ASSUME NEW CONSTANT k, E(k)!EndpointAssumption, Alone(k)
  PROVE  E(k)!Spec => []E(k)!ListenerInv
<1>1. E(k)!Init => AloneHolds(k)
  BY AloneInit
<1>2. AloneHolds(k) /\ [E(k)!Next]_(E(k)!vars) => AloneHolds(k)'
  BY AloneStep
<1>3. AloneHolds(k) => E(k)!ListenerInv
  BY AloneMeans
<1> QED BY <1>1, <1>2, <1>3, PTL DEF E!Spec

(* No token outlives its listener, on a pipe or a socket, whichever        *)
(* commands run at once and with another Ottid beside this one.            *)
THEOREM TokensGoWithTheirListener ==
  ASSUME NEW CONSTANT k, E(k)!EndpointAssumption
  PROVE  E(k)!Spec => [](E(k)!BrokerTypeOK /\ E(k)!NoTokenLeftBehind)
<1>1. E(k)!Init => EndpointHolds(k)
  BY EndpointInit
<1>2. EndpointHolds(k) /\ [E(k)!Next]_(E(k)!vars) => EndpointHolds(k)'
  BY EndpointStep
<1>3. EndpointHolds(k) => E(k)!BrokerTypeOK /\ E(k)!NoTokenLeftBehind
  BY EndpointMeans
<1> QED BY <1>1, <1>2, <1>3, PTL DEF E!Spec

(* The parts with the agents' bridge, each while it runs.                  *)
AgentsHold ==
  /\ part = "bridge" => BridgeHolds(Asks)
  /\ part = "cap" => BridgeHolds(Crowd)
  /\ part = "listener" => AloneHolds(Pipe)
  /\ part = "others" => EndpointHolds(Socket)

(* And they hold throughout.                                               *)
LEMMA AgentsInvariant ==
  Spec => []AgentsHold
<1>1. /\ B(Asks)!TimesAssumption /\ B(Asks)!SlotsAssumption
      /\ B(Crowd)!TimesAssumption /\ B(Crowd)!SlotsAssumption
      /\ E(Pipe)!EndpointAssumption /\ E(Socket)!EndpointAssumption
  BY DesktopAssumption DEF DesktopAssumption
<1>2. Alone(Pipe)
  BY DEF Alone, Pipe
<1>3. Init => AgentsHold
  <2> SUFFICES ASSUME Init PROVE AgentsHold
    OBVIOUS
  <2>1. /\ part = "cap" => B(Crowd)!Init
        /\ part = "bridge" => B(Asks)!Init
        /\ part = "others" => E(Socket)!Init
        /\ part = "listener" => E(Pipe)!Init
    BY DEF Init
  <2> QED BY <1>1, <1>2, <2>1, BridgeInit, AloneInit, EndpointInit DEF AgentsHold
<1>4. AgentsHold /\ [Next]_vars => AgentsHold'
  <2> SUFFICES ASSUME AgentsHold, [Next]_vars PROVE AgentsHold'
    OBVIOUS
  <2>1. part = "bridge" => BridgeHolds(Asks)'
    BY <1>1, AgentsStep, BridgeStep DEF AgentsHold
  <2>2. part = "cap" => BridgeHolds(Crowd)'
    BY <1>1, AgentsStep, BridgeStep DEF AgentsHold
  <2>3. part = "listener" => AloneHolds(Pipe)'
    BY <1>1, <1>2, AgentsStep, AloneStep DEF AgentsHold
  <2>4. part = "others" => EndpointHolds(Socket)'
    BY <1>1, AgentsStep, EndpointStep DEF AgentsHold
  <2> QED BY <2>1, <2>2, <2>3, <2>4, AgentsStep DEF AgentsHold
<1> QED BY <1>3, <1>4, PTL DEF Spec

(* The bridge's and the listener's invariants, in these parts.             *)
THEOREM AgentsAreAnsweredAsTheirUsersSay ==
  Spec => []BridgeInv
<1>1. Spec => []AgentsHold
  BY AgentsInvariant
<1>2. AgentsHold => BridgeInv
  <2>1. /\ B(Asks)!TimesAssumption /\ B(Crowd)!TimesAssumption
        /\ Alone(Pipe)
    BY DesktopAssumption DEF DesktopAssumption, Alone, Pipe
  <2> QED BY <2>1, BridgeMeans, AloneMeans, EndpointMeans DEF AgentsHold, BridgeInv
<1> QED BY <1>1, <1>2, PTL

(* However the connections before it ended, a hook is turned away only     *)
(* while every slot serves a connection.                                   *)
THEOREM OnlyTheCapTurnsAway ==
  Spec => [][part = "cap" => B(Crowd)!TurnedAwayOnlyAtCap]_vars
<1>1. Spec => []AgentsHold
  BY AgentsInvariant
<1>2. AgentsHold /\ [Next]_vars
        => (part = "cap" => B(Crowd)!TurnedAwayOnlyAtCap)
  <2>1. B(Crowd)!TimesAssumption /\ B(Crowd)!SlotsAssumption
    BY DesktopAssumption DEF DesktopAssumption
  <2> QED BY <2>1, AgentsStep, TurnedAway DEF AgentsHold
<1> QED BY <1>1, <1>2, PTL DEF Spec
=============================================================================
