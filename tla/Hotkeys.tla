------------------------------ MODULE Hotkeys ------------------------------
(***************************************************************************)
(* The global hotkeys of the overlay's page.  A refresh takes back the     *)
(* page's chords and, once all have been answered, registers the current   *)
(* ones; a chord that fails to register falls back to its default.  The    *)
(* Hub rebinds chords, other applications hold some, the approval card     *)
(* registers its own, and a page that is mounted again finds the chords    *)
(* of the last one.  The plugin handles calls in the order they were made. *)
(***************************************************************************)
EXTENDS Naturals, Sequences

CONSTANTS Chords, Debug, CardChord,
          Dictation, Command,  \* what the user can bind
          Default,             \* [{Dictation, Command} -> Chords]
          Choices,             \* chords the user binds
          Overlapping,         \* a chord is rebound before the last one is in force
          MaxRebinds, MaxMounts  \* bounds

Slots == {Dictation, Command}

(* validate_accelerator refuses the card's chord; Choices are the chords   *)
(* besides the defaults.                                                   *)
HotkeysAssumption ==
  /\ Dictation # Command /\ Default \in [Slots -> Chords]
  /\ Default[Dictation] # Default[Command] /\ Debug \notin {Default[s] : s \in Slots}
  /\ Choices \subseteq Chords \ {Default[s] : s \in Slots}
  /\ Debug \in Chords
  /\ CardChord \in Chords \ (Choices \cup {Debug} \cup {Default[s] : s \in Slots})
  /\ Slots \cap {"debug", "dead", "free", "foreign", "card"} = {}

Other(s) == IF s = Dictation THEN Command ELSE Dictation

VARIABLES setting,     \* the store: [Slots -> Chords]
          events,      \* settings:changed, on their way to the page
          loading,     \* the page was mounted and has not read the settings
          want,        \* dictationShortcut, commandShortcut
          registered,  \* chords this page registered
          calls,       \* calls to the plugin that are not answered
          holder,      \* who has each chord
          clash,       \* history: slots whose chord was not free since it was bound
          rebinds, mounts

vars == <<setting, events, loading, want, registered, calls, holder, clash, rebinds, mounts>>

PageHolders == Slots \cup {"debug", "dead"}
Holders == PageHolders \cup {"free", "foreign", "card"}

Quiet == ~loading /\ events = <<>> /\ calls = <<>>

(* What a chord bound to `s` would have to share.                          *)
Contended(s, set) ==
  {c \in Chords : holder[c] = "foreign"} \cup {Debug, set[Other(s)], Default[Other(s)]}

Init ==
  /\ setting \in [Slots -> Choices \cup {Default[s] : s \in Slots}]
  /\ \E foreign \in SUBSET Choices :
       holder = [c \in Chords |-> IF c \in foreign THEN "foreign" ELSE "free"]
  /\ clash = {s \in Slots : setting[s] \in Contended(s, setting)}
  /\ events = <<>> /\ loading = TRUE /\ want = Default
  /\ registered = {} /\ calls = <<>>
  /\ rebinds = 0 /\ mounts = 0

(* ------------------------------- the page ------------------------------ *)
TakeBack(chords) == [op |-> "unregister", chords |-> chords]
Add(slot, chord, falls) == [op |-> "register", slot |-> slot, chord |-> chord, falls |-> falls]

Mut_ToTakeBack(wanted) == {Debug} \cup {wanted[s] : s \in Slots} \cup {Default[s] : s \in Slots}
Mut_NoDefaults(wanted) == registered \cup {Debug} \cup {wanted[s] : s \in Slots}
ToTakeBack(wanted) ==
  registered \cup {Debug} \cup {wanted[s] : s \in Slots} \cup {Default[s] : s \in Slots}

Mut_Refresh(wanted) ==
  /\ calls' = Append(calls, TakeBack(Chords))
  /\ registered' = {}
Refresh(wanted) ==
  /\ calls' = Append(calls, TakeBack(ToTakeBack(wanted)))
  /\ registered' = {}

LoadSettings ==
  /\ loading /\ loading' = FALSE
  /\ want' = setting
  /\ Refresh(setting)
  /\ UNCHANGED <<setting, events, holder, clash, rebinds, mounts>>

(* The key alone is reloaded.                                              *)
HearRebound ==
  /\ ~loading /\ events # <<>> /\ events' = Tail(events)
  /\ want' = [want EXCEPT ![Head(events)] = setting[Head(events)]]
  /\ Refresh(want')
  /\ UNCHANGED <<setting, loading, holder, clash, rebinds, mounts>>

(* The last chord is taken back: registerShortcuts.                        *)
Unregistered ==
  LET call == Head(calls) IN
  /\ calls # <<>> /\ call.op = "unregister"
  /\ holder' = [c \in Chords |->
       IF c \in call.chords /\ holder[c] \in PageHolders \cup {"card"} THEN "free" ELSE holder[c]]
  /\ calls' = Tail(calls) \o <<Add("debug", Debug, FALSE),
                               Add(Dictation, want[Dictation], TRUE),
                               Add(Command, want[Command], TRUE)>>
  /\ UNCHANGED <<setting, events, loading, want, registered, clash, rebinds, mounts>>

Mut_Registered ==
  LET call == Head(calls) IN
  /\ calls # <<>> /\ call.op = "register" /\ holder[call.chord] = "free"
  /\ holder' = [holder EXCEPT ![call.chord] = call.slot]
  /\ calls' = Tail(calls)
  /\ UNCHANGED <<setting, events, loading, want, registered, clash, rebinds, mounts>>
Registered ==
  LET call == Head(calls) IN
  /\ calls # <<>> /\ call.op = "register" /\ holder[call.chord] = "free"
  /\ holder' = [holder EXCEPT ![call.chord] = call.slot]
  /\ registered' = registered \cup {call.chord}
  /\ calls' = Tail(calls)
  /\ UNCHANGED <<setting, events, loading, want, clash, rebinds, mounts>>

(* The fallback looks at what is wanted now, not at the chord that failed. *)
Mut_FallsBack(call) == FALSE
FallsBack(call) == call.falls /\ want[call.slot] # Default[call.slot]

RegisterFails ==
  LET call == Head(calls) IN
  /\ calls # <<>> /\ call.op = "register" /\ holder[call.chord] # "free"
  /\ IF FallsBack(call)
     THEN /\ want' = [want EXCEPT ![call.slot] = Default[call.slot]]
          /\ calls' = Append(Tail(calls), Add(call.slot, Default[call.slot], FALSE))
     ELSE calls' = Tail(calls) /\ UNCHANGED want
  /\ UNCHANGED <<setting, events, loading, registered, holder, clash, rebinds, mounts>>

(* A new page on the old chords, whose handlers are gone with the old one. *)
MountAgain ==
  /\ Quiet /\ mounts < MaxMounts /\ mounts' = mounts + 1
  /\ holder' = [c \in Chords |-> IF holder[c] \in PageHolders THEN "dead" ELSE holder[c]]
  /\ loading' = TRUE /\ registered' = {} /\ want' = Default
  /\ UNCHANGED <<setting, events, calls, clash, rebinds>>

(* --------------------------- around the page --------------------------- *)
(* saveHotkey, saveCommandHotkey: any chord that validates, the other      *)
(* slot's too.                                                             *)
Rebind(s, c) ==
  /\ rebinds < MaxRebinds /\ rebinds' = rebinds + 1
  /\ Overlapping \/ Quiet
  /\ c # setting[s]
  /\ setting' = [setting EXCEPT ![s] = c]
  /\ events' = Append(events, s)
  /\ clash' = (IF c \in Contended(s, setting) THEN clash \cup {s} ELSE clash \ {s})
              \cup (IF c = setting[Other(s)] THEN {Other(s)} ELSE {})
  /\ UNCHANGED <<loading, want, registered, calls, holder, mounts>>

CardShows ==
  /\ holder[CardChord] = "free" /\ holder' = [holder EXCEPT ![CardChord] = "card"]
  /\ UNCHANGED <<setting, events, loading, want, registered, calls, clash, rebinds, mounts>>

CardCloses ==
  /\ holder[CardChord] = "card" /\ holder' = [holder EXCEPT ![CardChord] = "free"]
  /\ UNCHANGED <<setting, events, loading, want, registered, calls, clash, rebinds, mounts>>

Next ==
  \/ LoadSettings \/ HearRebound \/ Unregistered \/ Registered \/ RegisterFails
  \/ MountAgain
  \/ \E s \in Slots, c \in Choices \cup {Default[t] : t \in Slots} : Rebind(s, c)
  \/ CardShows \/ CardCloses

Spec == Init /\ [][Next]_vars

(* ------------------------------ properties ----------------------------- *)
Of(s) == {c \in Chords : holder[c] = s}

(* The page's own list is true of the plugin's, but for calls under way:   *)
(* each chord on it is held by the page.                                   *)
HotkeysTypeOK ==
  /\ setting \in [Slots -> Chords] /\ want \in [Slots -> Chords]
  /\ holder \in [Chords -> Holders] /\ clash \subseteq Slots
  /\ Quiet => registered = {c \in Chords : holder[c] \in Slots \cup {"debug"}}

(* +page.svelte:465-466: a rebound chord is registered again "so the new   *)
(* chord takes effect at once".  When nothing is under way, a chord that   *)
(* was free ever since it was bound starts what it is bound to, and it     *)
(* alone does.                                                             *)
RebindStands == Quiet => \A s \in Slots \ clash : Of(s) = {setting[s]}

(* No chord is left to a page that is gone, where pressing it does         *)
(* nothing and keeps it from every other application.                      *)
NoDeadChord == Quiet => Of("dead") = {}

(* The card's chords are the broker's: no step of the page takes them.     *)
CardKeepsItsChord ==
  CardCloses \/ (holder[CardChord] = "card" => holder'[CardChord] = "card")

(* A chord that is taken is no reason to have none: unless the user gave   *)
(* the other slot dictation's default, something starts dictation.         *)
DictationFallsBack ==
  Quiet /\ setting[Command] # Default[Dictation] => Of(Dictation) # {}

(* Once the calls are answered, the chords are those of the last setting,  *)
(* none fires nothing, and dictation has one that can be had.              *)
HotkeysInv ==
  /\ HotkeysTypeOK
  /\ RebindStands
  /\ NoDeadChord
  /\ DictationFallsBack
=============================================================================
