---------------------------- MODULE ApprovalQueue ---------------------------
(***************************************************************************)
(* The approval queue (packages/shared-rust/src/approval.rs): the pending  *)
(* requests, oldest first, and the rules by which one leaves.              *)
(*                                                                         *)
(* An entry's shown_at is kept as its age in ticks, up to Timeout: nothing *)
(* in the code tells ages past Timeout apart. Entries carry no request     *)
(* text and no reply channel; the modules that extend this one say who is  *)
(* waiting for which id.                                                   *)
(***************************************************************************)
EXTENDS Integers, Sequences, SequencesExt

CONSTANTS
  ArmDelay,     \* ARM_DELAY
  Timeout,      \* TIMEOUT
  MaxRequests   \* bound: requests pushed in a behaviour

ASSUME DelayAssumption == ArmDelay \in Nat /\ Timeout \in Nat /\ ArmDelay < Timeout
ASSUME BoundAssumption == MaxRequests \in Nat

VARIABLES
  entries,      \* Queue::entries
  nextId,       \* Queue::next_id
  fate          \* history: fate[id] is what became of request id

queueVars == <<entries, nextId, fate>>

NotShown == -1
Id == 1 .. MaxRequests
Entry == [id : Id, shown : {NotShown} \cup 0 .. Timeout, armed : BOOLEAN]
Fate == {"pending", "allow", "deny", "lapsed", "withdrawn"}

IsPending(id) == \E i \in DOMAIN entries : entries[i].id = id
IsShown(id) == entries # <<>> /\ entries[1].id = id
ShownId == IF entries = <<>> THEN 0 ELSE entries[1].id

-----------------------------------------------------------------------------
(* Operations                                                              *)

QueueInit == entries = <<>> /\ nextId = 1 /\ fate = <<>>

Mut_PushSameId ==
  /\ nextId <= MaxRequests
  /\ entries' = Append(entries,
                       [id |-> nextId,
                        shown |-> IF entries = <<>> THEN 0 ELSE NotShown,
                        armed |-> FALSE])
  /\ fate' = Append(fate, "pending")
  /\ UNCHANGED nextId

(* Queue::push: the request is shown at once if nothing else is pending.   *)
Push ==
  /\ nextId <= MaxRequests
  /\ entries' = Append(entries,
                       [id |-> nextId,
                        shown |-> IF entries = <<>> THEN 0 ELSE NotShown,
                        armed |-> FALSE])
  /\ nextId' = nextId + 1
  /\ fate' = Append(fate, "pending")

(* Queue::arm: only the request on screen can be armed.                    *)
Arm(id) ==
  /\ IsShown(id)
  /\ entries' = [entries EXCEPT ![1].armed = TRUE]
  /\ UNCHANGED <<nextId, fate>>

Mut_CanAllowUnarmed(id) == IsShown(id) /\ entries[1].shown >= ArmDelay

(* Queue::can_allow.                                                       *)
CanAllow(id) ==
  /\ IsShown(id)
  /\ entries[1].armed
  /\ entries[1].shown >= ArmDelay

Mut_ShowFrontNever(queue) == queue

(* The tail of Queue::take: an unshown front is shown now.                 *)
ShowFront(queue) ==
  IF queue # <<>> /\ queue[1].shown = NotShown
  THEN [queue EXCEPT ![1].shown = 0]
  ELSE queue

(* Queue::take, with the fate its caller gives the entry.                  *)
Take(i, how) ==
  /\ entries' = ShowFront(RemoveAt(entries, i))
  /\ fate' = [fate EXCEPT ![entries[i].id] = how]
  /\ UNCHANGED nextId

(* Queue::answer: Deny for any pending request, Allow under can_allow.     *)
Answer(id, decision) ==
  /\ decision = "allow" => CanAllow(id)
  /\ \E i \in DOMAIN entries : entries[i].id = id /\ Take(i, decision)

(* Queue::deadline has passed for the request on screen.                   *)
IsDue == entries # <<>> /\ entries[1].shown >= Timeout

(* Queue::expire: the request on screen leaves once its time is up. What   *)
(* its asker hears is Reply::lapse's business.                             *)
Expire == IsDue /\ Take(1, "lapsed")

(* Queue::withdraw: the asker went away.                                   *)
Withdraw(id) == \E i \in DOMAIN entries : entries[i].id = id /\ Take(i, "withdrawn")

(* The clock every operation reads as `now`.                               *)
Age(shown) == IF shown \in 0 .. Timeout - 1 THEN shown + 1 ELSE shown

Tick ==
  /\ entries # <<>>
  /\ entries' = [i \in DOMAIN entries |->
                   [entries[i] EXCEPT !.shown = Age(entries[i].shown)]]
  /\ UNCHANGED <<nextId, fate>>

QueueNext ==
  \/ Push
  \/ \E id \in Id : Arm(id)
  \/ \E id \in Id, decision \in {"allow", "deny"} : Answer(id, decision)
  \/ Expire
  \/ \E id \in Id : Withdraw(id)
  \/ Tick

QueueSpec == QueueInit /\ [][QueueNext]_queueVars

(* The broker's timer lapses a due request and time passes.                *)
QueueFairSpec == QueueSpec /\ WF_queueVars(Tick) /\ WF_queueVars(Expire)

-----------------------------------------------------------------------------
(* Properties                                                              *)

(* Types.                                                                  *)
QueueTypeOK ==
  /\ entries \in Seq(Entry)
  /\ nextId \in 1 .. MaxRequests + 1
  /\ fate \in Seq(Fate)
  /\ Len(fate) = nextId - 1

(* The comment on Entry::shown_at: "Always set for the front entry, never  *)
(* for the others." If a removal failed to show the new front, that        *)
(* request would have no deadline and nobody could allow it; if one behind *)
(* the front were shown, its clock would run before the user sees it.      *)
OnlyFrontShown ==
  \A i \in DOMAIN entries : (entries[i].shown # NotShown) <=> (i = 1)

(* Arming is for the request on screen: none behind it is ever armed, so a *)
(* request that comes to the front still has to be read.                   *)
OnlyFrontArmed == \A i \in DOMAIN entries : entries[i].armed => i = 1

(* Oldest first, each id once, and every id handed out is either in the    *)
(* queue or settled.                                                       *)
OldestFirst ==
  /\ \A i, j \in DOMAIN entries : i < j => entries[i].id < entries[j].id
  /\ \A i \in DOMAIN entries : entries[i].id < nextId
  /\ \A id \in DOMAIN fate : IsPending(id) <=> fate[id] = "pending"

QueueInv == OnlyFrontShown /\ OnlyFrontArmed /\ OldestFirst

(* The queue implements the contract: the request on screen is the oldest  *)
(* pending one, its clock and its arming start afresh when it gets there,  *)
(* Allow and the timeout reach no other request, and no request is settled *)
(* twice.                                                                  *)
Contract ==
  INSTANCE ApprovalContract WITH
    clock <- IF entries = <<>> THEN 0 ELSE entries[1].shown,
    seen <- IF entries = <<>> THEN FALSE ELSE entries[1].armed

ImplementsContract == Contract!Spec

(* Every request leaves the queue: nobody waits for ever behind others,    *)
(* because each one that reaches the front lapses.                         *)
EveryRequestSettles == \A id \in Id : IsPending(id) ~> ~IsPending(id)
=============================================================================
