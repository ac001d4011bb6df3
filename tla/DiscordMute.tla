---------------------------- MODULE DiscordMute ----------------------------
(***************************************************************************)
(* The Discord suppression lease (packages/shared-rust/src/discord_mute.rs *)
(* and the commands in apps/desktop/src-tauri/src/discord_mute.rs): a flag *)
(* that keeps leases apart, a helper process that holds F24 down, and the  *)
(* key itself, which every process of the machine shares.                  *)
(***************************************************************************)
EXTENDS Naturals, FiniteSets

CONSTANTS Takers, Setups,   \* threads that take a lease; threads of discord_setup_key
          MaxLeases         \* bound: acquisitions begun

VARIABLES
  pc,       \* where each taker stands in Lease::acquire and Drop
  helper,   \* its child: "none", "starting", "holding", "gone"
  active,   \* ACTIVE
  down,     \* F24 is pressed
  setup,    \* each setup thread: "idle" or past its check
  alive,    \* the parent process runs
  begun

vars == <<pc, helper, active, down, setup, alive, begun>>

Init ==
  /\ pc = [t \in Takers |-> "idle"] /\ helper = [t \in Takers |-> "none"]
  /\ active = FALSE /\ down = FALSE /\ setup = [s \in Setups |-> "idle"]
  /\ alive = TRUE /\ begun = 0

Go(t, from, to) == alive /\ pc[t] = from /\ pc' = [pc EXCEPT ![t] = to]
Mut_Child(t, from, to) == helper[t] \in from /\ helper' = [helper EXCEPT ![t] = pc[t]]
Child(t, from, to) == helper[t] \in from /\ helper' = [helper EXCEPT ![t] = to]

Swap(t) ==
  /\ Go(t, "idle", "spawning") /\ begun < MaxLeases /\ begun' = begun + 1
  /\ ~active /\ active' = TRUE /\ UNCHANGED <<helper, down, setup, alive>>

SpawnFails(t) ==
  Go(t, "spawning", "failed") /\ UNCHANGED <<helper, active, down, setup, alive, begun>>

SpawnChild(t) ==
  /\ Go(t, "spawning", "waiting") /\ helper' = [helper EXCEPT ![t] = "starting"]
  /\ UNCHANGED <<active, down, setup, alive, begun>>

(* helper_main: the hold presses the key, and releases it when the press   *)
(* reported an error.                                                      *)
HelperPress(t) ==
  /\ Child(t, {"starting"}, "holding") /\ down' = TRUE
  /\ UNCHANGED <<pc, active, setup, alive, begun>>

HelperFails(t) ==
  /\ Child(t, {"starting"}, "gone") /\ down' = FALSE
  /\ UNCHANGED <<pc, active, setup, alive, begun>>

(* The pipe closed, or the 600 s cap passed.                               *)
Mut_HelperReleases(t) ==
  /\ pc[t] = "dropping" /\ Child(t, {"holding"}, "gone") /\ down' = FALSE
  /\ UNCHANGED <<pc, active, setup, alive, begun>>
HelperReleases(t) ==
  /\ Child(t, {"holding"}, "gone") /\ down' = FALSE
  /\ UNCHANGED <<pc, active, setup, alive, begun>>

(* "ready" was read in time and the child still runs.                      *)
Ready(t) ==
  /\ helper[t] = "holding" /\ Go(t, "waiting", "held")
  /\ UNCHANGED <<helper, active, down, setup, alive, begun>>

(* Three seconds passed, or the child went: the lease built so far drops.  *)
NotReady(t) ==
  Go(t, "waiting", "dropping failed") /\ UNCHANGED <<helper, active, down, setup, alive, begun>>

Release(t) ==
  Go(t, "held", "dropping") /\ UNCHANGED <<helper, active, down, setup, alive, begun>>

(* Lease::drop after the child went by itself or was killed: a fallback    *)
(* key-up, then the flag.                                                  *)
Mut_Fallback == UNCHANGED down
Fallback == down' = FALSE

Mut_Reap(t) == helper' = [helper EXCEPT ![t] = IF @ = "gone" THEN "none" ELSE @]
Reap(t) == helper' = [helper EXCEPT ![t] = "none"]

Drop(t, from, to) ==
  /\ Go(t, from, to) /\ Reap(t)
  /\ Fallback /\ active' = FALSE /\ UNCHANGED <<setup, alive, begun>>

(* acquire clears the flag of a spawn that failed, dropped or not.         *)
ClearAfterError(t) ==
  Go(t, "failed", "idle") /\ active' = FALSE /\ UNCHANGED <<helper, down, setup, alive, begun>>

(* setup_key: a check of the flag, then a click of the key.                *)
SetupCheck(s) ==
  /\ alive /\ setup[s] = "idle" /\ ~active /\ setup' = [setup EXCEPT ![s] = "click"]
  /\ UNCHANGED <<pc, helper, active, down, alive, begun>>

SetupClick(s) ==
  /\ alive /\ setup[s] = "click" /\ setup' = [setup EXCEPT ![s] = "idle"] /\ down' = FALSE
  /\ UNCHANGED <<pc, helper, active, alive, begun>>

Crash == alive /\ alive' = FALSE /\ UNCHANGED <<pc, helper, active, down, setup, begun>>

Helper(t) == HelperPress(t) \/ HelperFails(t) \/ HelperReleases(t)
Dropping(t) == Drop(t, "dropping", "idle") \/ Drop(t, "dropping failed", "failed")

Next ==
  \/ Crash
  \/ \E t \in Takers : \/ Swap(t) \/ SpawnFails(t) \/ SpawnChild(t) \/ Ready(t)
                       \/ NotReady(t) \/ Release(t) \/ Dropping(t)
                       \/ ClearAfterError(t) \/ Helper(t)
  \/ \E s \in Setups : SetupCheck(s) \/ SetupClick(s)

(* A helper is a process of its own whose every wait is bounded; a drop    *)
(* polls its child for one second.  Nothing makes a take end.              *)
Fairness == \A t \in Takers : WF_vars(Helper(t)) /\ WF_vars(Dropping(t))
Spec == Init /\ [][Next]_vars /\ Fairness

-----------------------------------------------------------------------------
(* Types: each taker and helper stands at one of its steps.                *)
DiscordTypeOK ==
  /\ pc \in [Takers -> {"idle", "spawning", "waiting", "held", "failed", "dropping",
                        "dropping failed"}]
  /\ helper \in [Takers -> {"none", "starting", "holding", "gone"}]
  /\ {active, down, alive} \subseteq BOOLEAN /\ setup \in [Setups -> {"idle", "click"}]

(* Nobody but a helper that holds it keeps the key down: it is up whenever *)
(* no helper is left holding it, whichever way the helpers went.           *)
KeyUpWhenUnheld == down => \E t \in Takers : helper[t] = "holding"

(* A press of the key is always undone, though the parent dies, a spawn    *)
(* fails half way or a take never ends: Discord is not left muted.         *)
KeyComesUp == down ~> ~down

(* A lease that dropped leaves no helper behind that could press later.    *)
NoHelperLeftBehind == \A t \in Takers : pc[t] \in {"idle", "failed"} => helper[t] = "none"

(* The key is down only while a helper holds it, and no helper outlives    *)
(* its lease, however the two fail.                                        *)
DiscordInv ==
  /\ DiscordTypeOK
  /\ KeyUpWhenUnheld
  /\ NoHelperLeftBehind
=============================================================================
