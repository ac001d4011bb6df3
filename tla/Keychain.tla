------------------------------ MODULE Keychain -----------------------------
(***************************************************************************)
(* One API key in the system's keychain.  Before the product was renamed   *)
(* it was stored under another service: a read that misses moves it over,  *)
(* a save and a removal drop the old copy.  Each call of the keychain is a *)
(* step: calls may fail, the app may die in between, and the Hub's         *)
(* commands and the providers' reads run side by side.                     *)
(***************************************************************************)
EXTENDS Naturals

CONSTANTS Keys, Threads,
          Exclusive,       \* a save and a removal run alone
          MaxFaults, MaxWrites,  \* bounds: failed calls and crashes; saves and removals
          None, Error

KeychainAssumption == None \notin Keys /\ Error \notin Keys \cup {None}

VARIABLES key, old,   \* the entries of this service and of the old one
          env,        \* OTTID_<STAGE>_<PROVIDER>_KEY
          carry,      \* carry_over_enabled
          call,       \* what each thread is at
          faults, writes,
          promised,   \* history: what the user was told is stored, or Error if unsure
          stale       \* history: a call failed or the app died since the old copy was there

vars == <<key, old, env, carry, call, faults, writes, promised, stale>>

Idle == [op |-> "none", at |-> "none", secret |-> None, result |-> None]

Init ==
  /\ key = None /\ old \in Keys \cup {None}
  /\ env \in {None} \cup Keys /\ carry \in BOOLEAN
  /\ call = [t \in Threads |-> Idle]
  /\ faults = 0 /\ writes = 0 /\ stale = FALSE
  /\ promised = IF carry THEN old ELSE None

Fails == faults < MaxFaults /\ faults' = faults + 1 /\ stale' = TRUE
Works == UNCHANGED <<faults, stale>>

At(t, where) == call[t].at = where
Goes(t, where) == call' = [call EXCEPT ![t].at = where]
Returns(t, result) == call' = [call EXCEPT ![t] = [Idle EXCEPT !.op = call[t].op, !.result = result]]

(* What the user knows of a save or a removal when it returns.             *)
Promises(t, result) ==
  promised' = CASE call[t].op = "store"  -> IF result = Error THEN Error ELSE call[t].secret
                [] call[t].op = "delete" -> IF result = Error THEN Error ELSE None
                [] OTHER -> promised

Begin(t, op, secret, where) ==
  /\ At(t, "none")
  /\ call' = [call EXCEPT ![t] = [op |-> op, at |-> where, secret |-> secret, result |-> None]]
  /\ UNCHANGED <<key, old, env, carry, faults, stale>>

Writing == \E t \in Threads : call[t].op \in {"store", "delete"} /\ call[t].at # "none"
Alone == \A t \in Threads : At(t, "none")

BeginRead(t) ==
  /\ ~(Exclusive /\ Writing) /\ Begin(t, "read", None, "get")
  /\ UNCHANGED <<writes, promised>>

Mut_BeginWrite(t) ==
  /\ writes < MaxWrites /\ writes' = writes + 1 /\ ~Writing /\ (Exclusive => Alone)
  /\ \/ \E secret \in Keys : Begin(t, "store", secret, "set")
     \/ Begin(t, "delete", None, "delete")
  /\ promised' = Error

BeginWrite(t) ==
  /\ writes < MaxWrites /\ writes' = writes + 1 /\ ~Writing /\ (Exclusive => Alone)
  /\ \/ \E secret \in Keys : Begin(t, "store", secret, "set")
     \/ Begin(t, "delete", None, IF carry THEN "forget" ELSE "delete")
  /\ promised' = Error

Mut_Get(t) ==
  /\ At(t, "get") /\ Works
  /\ IF env # None THEN Returns(t, env)
     ELSE IF key # None THEN Returns(t, key) ELSE Goes(t, "legacy")
  /\ UNCHANGED <<key, old, env, carry, writes, promised>>

(* read_key: the environment first, then the entry, then the old one.      *)
Get(t) ==
  /\ At(t, "get")
  /\ \/ /\ Works
        /\ IF env # None THEN Returns(t, env)
           ELSE IF key # None THEN Returns(t, key)
           ELSE IF carry THEN Goes(t, "legacy") ELSE Returns(t, None)
     \/ env = None /\ Fails /\ Returns(t, Error)
  /\ UNCHANGED <<key, old, env, carry, writes, promised>>

(* adopt_legacy_key: the old entry's secret is stored as a new one.        *)
Legacy(t) ==
  /\ At(t, "legacy")
  /\ \/ /\ Works
        /\ IF old = None THEN Returns(t, None)
           ELSE call' = [call EXCEPT ![t].at = "set", ![t].secret = old]
     \/ Fails /\ Returns(t, Error)
  /\ UNCHANGED <<key, old, env, carry, writes, promised>>

Mut_Set(t) ==
  /\ At(t, "set")
  /\ \/ Works /\ key' = call[t].secret /\ Goes(t, "forget") /\ UNCHANGED promised
     \/ Fails /\ key' = key /\ Goes(t, "forget") /\ UNCHANGED promised
  /\ UNCHANGED <<old, env, carry, writes>>

Mut_SetOff(t) ==
  /\ At(t, "set") /\ Works /\ key' = call[t].secret /\ Goes(t, "forget")
  /\ UNCHANGED <<old, env, carry, writes, promised>>

(* store_key: the old copy is dropped once the new one is there.           *)
Set(t) ==
  /\ At(t, "set")
  /\ \/ /\ Works /\ key' = call[t].secret
        /\ IF carry THEN Goes(t, "forget") /\ UNCHANGED promised
           ELSE Returns(t, call[t].secret) /\ Promises(t, call[t].secret)
     \/ Fails /\ key' = key /\ Returns(t, Error) /\ Promises(t, Error)
  /\ UNCHANGED <<old, env, carry, writes>>

Mut_Forget(t) ==
  /\ At(t, "forget") /\ Works /\ old' = old
  /\ IF call[t].op = "delete" THEN Goes(t, "delete") /\ UNCHANGED promised
     ELSE Returns(t, call[t].secret) /\ Promises(t, call[t].secret)
  /\ UNCHANGED <<key, env, carry, writes>>

(* forget_legacy_key: best effort; a removal goes on to the entry itself.  *)
Forget(t) ==
  /\ At(t, "forget")
  /\ \/ Works /\ old' = None
     \/ Fails /\ old' = old
  /\ IF call[t].op = "delete" THEN Goes(t, "delete") /\ UNCHANGED promised
     ELSE Returns(t, call[t].secret) /\ Promises(t, call[t].secret)
  /\ UNCHANGED <<key, env, carry, writes>>

Delete(t) ==
  /\ At(t, "delete")
  /\ \/ Works /\ key' = None /\ Returns(t, None) /\ Promises(t, None)
     \/ Fails /\ key' = key /\ Returns(t, Error) /\ Promises(t, Error)
  /\ UNCHANGED <<old, env, carry, writes>>

(* The app dies between two calls of the keychain.                         *)
Crash ==
  /\ ~Alone /\ Fails
  /\ call' = [t \in Threads |-> Idle]
  /\ UNCHANGED <<key, old, env, carry, writes, promised>>

Steps(t) == Get(t) \/ Legacy(t) \/ Set(t) \/ Forget(t) \/ Delete(t)

Next == \/ \E t \in Threads : BeginRead(t) \/ BeginWrite(t) \/ Steps(t)
        \/ Crash

Spec == Init /\ [][Next]_vars

(* ------------------------------ properties ----------------------------- *)
(* Whatever fails and wherever the app dies, a key the user has and did    *)
(* not replace or remove is in one of the entries.                         *)
KeyIsKept ==
  promised \in Keys =>
    /\ promised \in {key, IF carry THEN old ELSE None}
    /\ key \in {None, promised}

(* A read that succeeds returns what the user was told is stored, or what  *)
(* the environment has.                                                    *)
ReadIsStored ==
  \A t \in Threads :
    call[t].op = "read" /\ call[t].at # "none" /\ promised # Error
      /\ call'[t].op = "read" /\ call'[t].at = "none"
    => call'[t].result \in {promised, Error} \cup (IF env = None THEN {} ELSE {env})

(* If nothing failed, no copy of a secret stays behind under the old name  *)
(* once the calls are done.                                                *)
NoStaleCopy == Alone /\ carry /\ ~stale => key = None \/ old = None

(* With the carry-over off the old entry is neither moved nor dropped.     *)
OldStays == ~carry => old' = old

(* A key that was removed stays removed.                                   *)
RemovedStaysRemoved == promised = None => key = None

(* Moving a key loses neither it nor a newer one, leaves no copy that a    *)
(* removal does not reach, and brings no removed key back.                 *)
KeychainInv ==
  /\ KeyIsKept
  /\ NoStaleCopy
  /\ RemovedStaysRemoved
=============================================================================
