-------------------------- MODULE ApprovalContract --------------------------
(***************************************************************************)
(* What the approval queue promises, without a queue: every request is     *)
(* settled once, the oldest pending one is on screen, its clock starts     *)
(* when it becomes the oldest, Allow is taken only for it and only once it *)
(* was seen and has been up for ArmDelay, and a request that lapses was on *)
(* screen for Timeout (the rules at the head of the shared crate's         *)
(* approval.rs).                                                           *)
(***************************************************************************)
EXTENDS Naturals, Sequences, FiniteSetsExt

CONSTANTS
  ArmDelay,     \* ticks a request is up before Allow can be taken
  Timeout       \* ticks a request is up before it lapses

VARIABLES
  fate,         \* fate[id]: what became of request id
  clock,        \* ticks the oldest pending request has been the oldest
  seen          \* its card reported the whole text in view

vars == <<fate, clock, seen>>

Pending == {id \in DOMAIN fate : fate[id] = "pending"}

IsOldest(id) == id \in Pending /\ \A other \in Pending : id <= other

Init == fate = <<>> /\ clock = 0 /\ seen = FALSE

Ask ==
  /\ fate' = Append(fate, "pending")
  /\ UNCHANGED <<clock, seen>>

See ==
  /\ Pending # {}
  /\ seen' = TRUE
  /\ UNCHANGED <<fate, clock>>

(* Settling the oldest request puts the next one up, with a fresh clock.   *)
Settle(id, how) ==
  /\ id \in Pending
  /\ how = "allow" => IsOldest(id) /\ seen /\ clock >= ArmDelay
  /\ how = "lapsed" => IsOldest(id) /\ clock >= Timeout
  /\ fate' = [fate EXCEPT ![id] = how]
  /\ IF IsOldest(id)
     THEN clock' = 0 /\ seen' = FALSE
     ELSE UNCHANGED <<clock, seen>>

Tick ==
  /\ Pending # {}
  /\ clock < Timeout
  /\ clock' = clock + 1
  /\ UNCHANGED <<fate, seen>>

Next ==
  \/ Ask
  \/ See
  \/ \E id \in DOMAIN fate, how \in {"allow", "deny", "lapsed", "withdrawn"} :
       Settle(id, how)
  \/ Tick

Spec == Init /\ [][Next]_vars
=============================================================================
