---------------------------- MODULE HookSettings ----------------------------
(***************************************************************************)
(* Ottid's hooks in an agent's user settings file: what an install and an  *)
(* uninstall make of the file (agent_bridge/claude_settings.rs,            *)
(* codex_settings.rs, activity.rs), and the Hub's preview and apply        *)
(* against the user and the agent, who edit the same file, failed writes   *)
(* and crashes.  A file is its hooks, per event a sequence of matcher      *)
(* groups of handlers, and everything else in it; the text that is carried *)
(* through byte for byte is that everything else.                          *)
(***************************************************************************)
EXTENDS Naturals, Sequences, FiniteSets

CONSTANTS
  Events,        \* the events Ottid installs, in order
  UserFiles,     \* files as the user leaves them
  Missing,       \* no file
  Calls,         \* concurrent apply calls
  RaceEdits,     \* the file may be edited while an apply is under way
  MaxEdits       \* bound: edits by the user

SettingsAssumption == RaceEdits \in BOOLEAN /\ MaxEdits \in Nat

VARIABLES
  file,      \* the settings file, or Missing
  staging,   \* the temporary file is there
  backups,   \* contents of the backups
  preview,   \* what the Hub showed: the action and the file it was planned on
  call,      \* each apply
  users,     \* the file as its user last wrote it
  edits

vars == <<file, staging, backups, preview, call, users, edits>>

-----------------------------------------------------------------------------
(* The editor.  A handler is "new" (this build's entry), "old" (Ottid's,   *)
(* from another folder or build) or "user"; a file of any other shape is   *)
(* refused.                                                                *)
IsOurs(h) == h \in {"new", "old"}
HasOurs(group) == \E i \in 1..Len(group) : IsOurs(group[i])
Entry == <<"new">>

(* without_ours: a group that still runs handlers of the user's stays.     *)
Mut_Strip(group) == <<>>
Strip(group) == SelectSeq(group, LAMBDA h : ~IsOurs(h))
WithoutOurs(groups) ==
  LET kept == SelectSeq(groups, LAMBDA g : ~HasOurs(g) \/ Strip(g) # <<>>)
  IN  [i \in 1..Len(kept) |-> Strip(kept[i])]

Mut_There(groups) == SelectSeq(groups, HasOurs) # <<>>
There(groups) == SelectSeq(groups, HasOurs) = <<Entry>>
PlanInstallEvent(groups) ==
  IF There(groups) THEN groups ELSE Append(WithoutOurs(groups), Entry)
PlanUninstallEvent(groups) ==
  IF \E i \in 1..Len(groups) : HasOurs(groups[i]) THEN WithoutOurs(groups) ELSE groups

(* An empty or missing file is an empty object.                            *)
Parse(f) == IF f = Missing THEN [good |-> TRUE, hooks |-> [e \in Events |-> <<>>], rest |-> 0]
            ELSE f

(* plan_hooks: every event, one after the other, on the text so far.       *)
Assemble(f, hooks) == [Parse(f) EXCEPT !.hooks = hooks]
Plan(action, f) ==
  IF action = "install" THEN Assemble(f, [e \in Events |-> PlanInstallEvent(Parse(f).hooks[e])])
  ELSE IF f = Missing THEN Missing
       ELSE Assemble(f, [e \in Events |-> PlanUninstallEvent(Parse(f).hooks[e])])

(* find: Ottid's handlers in the file.                                     *)
Find(f) == {e \in Events : \E i \in 1..Len(Parse(f).hooks[e]) : HasOurs(Parse(f).hooks[e][i])}

-----------------------------------------------------------------------------
Idle == [pc |-> "idle", action |-> "", on |-> Missing, plan |-> Missing]

Init ==
  /\ file \in UserFiles \cup {Missing} /\ users = file /\ edits = 0
  /\ staging = FALSE /\ backups = {} /\ preview = [action |-> "none", on |-> Missing]
  /\ call = [c \in Calls |-> Idle]

Busy == \E c \in Calls : call[c].pc # "idle"

UserEdits ==
  /\ edits < MaxEdits /\ (RaceEdits \/ ~Busy)
  /\ \E f \in UserFiles : file' = f /\ users' = f
  /\ edits' = edits + 1 /\ UNCHANGED <<staging, backups, preview, call>>

(* A plan that cannot be made is shown as an error, and nothing to apply.  *)
Preview ==
  /\ Parse(file).good
  /\ \E action \in {"install", "uninstall"} : preview' = [action |-> action, on |-> file]
  /\ UNCHANGED <<file, staging, backups, call, users, edits>>

At(c, pc) == call[c].pc = pc
Goto(c, pc) == call' = [call EXCEPT ![c].pc = pc]
Return(c) == call' = [call EXCEPT ![c] = Idle]

(* The file is read once, its fingerprint compared and the plan made.      *)
Mut_Unchanged(f) == TRUE
Unchanged(f) == f = preview.on

Apply(c) ==
  /\ At(c, "idle") /\ preview.action # "none" /\ Parse(file).good /\ Unchanged(file)
  /\ Plan(preview.action, file) # file
  /\ call' = [call EXCEPT ![c] = [pc |-> IF file = Missing THEN "stage" ELSE "back up",
                                  action |-> preview.action, on |-> preview.on,
                                  plan |-> Plan(preview.action, file)]]
  /\ UNCHANGED <<file, staging, backups, preview, users, edits>>

(* A copy of the file as it is by then, under a name nothing has.          *)
Mut_Copy == backups
Copy == backups \cup {file}
BackUp(c) ==
  /\ At(c, "back up") /\ Goto(c, "stage") /\ backups' = Copy
  /\ UNCHANGED <<file, staging, preview, users, edits>>

(* The staging file is created new: one that is there fails the call.      *)
Mut_Stage(c) ==
  /\ At(c, "stage") /\ ~staging /\ Goto(c, "rename")
  /\ UNCHANGED <<file, staging, backups, preview, users, edits>>
Stage(c) ==
  /\ At(c, "stage") /\ ~staging /\ Goto(c, "rename") /\ staging' = TRUE
  /\ UNCHANGED <<file, backups, preview, users, edits>>

Rename(c) ==
  /\ At(c, "rename") /\ file' = call[c].plan /\ staging' = FALSE /\ Return(c)
  /\ UNCHANGED <<backups, preview, users, edits>>

(* Any step may fail.  A file that was created but whose permissions could *)
(* not be set stays behind; one that could not be written or renamed goes. *)
Mut_Left(c) == file' = call[c].plan
Left(c) == UNCHANGED file
Fails(c) ==
  /\ call[c].pc \in {"back up", "stage", "rename"} /\ Return(c) /\ Left(c)
  /\ staging' \in IF At(c, "stage") THEN {staging, TRUE}
                  ELSE {IF At(c, "rename") THEN FALSE ELSE staging}
  /\ UNCHANGED <<backups, preview, users, edits>>

(* The staging name holds the process id: the next process has its own.    *)
Crash ==
  /\ Busy \/ staging
  /\ call' = [c \in Calls |-> Idle] /\ staging' = FALSE
  /\ preview' = [action |-> "none", on |-> Missing] /\ UNCHANGED <<file, backups, users, edits>>

Next ==
  \/ UserEdits \/ Preview \/ Crash
  \/ \E c \in Calls : Apply(c) \/ BackUp(c) \/ Stage(c) \/ Rename(c) \/ Fails(c)
Spec == Init /\ [][Next]_vars

-----------------------------------------------------------------------------
(* Types: each call stands at a step of apply, and one is about to rename  *)
(* only while the temporary file is there.                                 *)
SettingsTypeOK ==
  /\ staging \in BOOLEAN /\ preview.action \in {"none", "install", "uninstall"}
  /\ \A c \in Calls : call[c].pc \in {"idle", "back up", "stage", "rename"}
  /\ Cardinality({c \in Calls : At(c, "rename")}) <= IF staging THEN 1 ELSE 0

(* "Nothing else in the file changes" (claude_settings.rs:14): over any    *)
(* installs and uninstalls, failed or not, the user's own groups stand in  *)
(* every event in their order, and the rest of the file as it was.         *)
UserHooksKept ==
  /\ Parse(file).rest = Parse(users).rest
  /\ \A e \in Events :
       SelectSeq(WithoutOurs(Parse(file).hooks[e]), LAMBDA g : g # <<>>)
       = SelectSeq([i \in 1..Len(Parse(users).hooks[e]) |->
                      SelectSeq(Parse(users).hooks[e][i], LAMBDA h : h = "user")],
                   LAMBDA g : g # <<>>)

Count(f, e) ==
  LET groups == Parse(f).hooks[e]
  IN  Cardinality({p \in (1..Len(groups)) \X (1..2) :
                     p[2] <= Len(groups[p[1]]) /\ groups[p[1]][p[2]] # "user"})

(* Whatever was in the file, a plan settles it: an install leaves exactly  *)
(* one handler of Ottid's in every event, an uninstall none, and planning  *)
(* again finds nothing to change.                                          *)
PlansSettle ==
  Parse(file).good =>
    /\ Plan("install", Plan("install", file)) = Plan("install", file)
    /\ \A e \in Events : Count(Plan("install", file), e) = 1
    /\ Find(Plan("uninstall", file)) = {} /\ \A e \in Events : Count(Plan("uninstall", file), e) = 0

(* "The file is backed up next to itself first, and written in one rename" *)
(* (claude_settings.rs:18): what a change replaces is in a backup.         *)
NothingLost ==
  [][\A c \in Calls : Rename(c) /\ file # Missing => file \in backups]_vars

(* "applies it only when the user confirms, and only if the file is still  *)
(* what was previewed" (claude_settings.rs:17).                            *)
AsPreviewed ==
  [][\A c \in Calls : Rename(c) =>
       file = call[c].on /\ file' = Plan(call[c].action, call[c].on)]_vars

(* A change that did not go through left the file alone, at any step.      *)
OnlyRenameChanges ==
  [][file' # file => (\E c \in Calls : At(c, "rename") /\ file' = call[c].plan /\ staging)
                     \/ edits' # edits]_vars

(* The user's hooks stay as they are, and a plan leaves nothing for the    *)
(* next one to do.                                                         *)
HookSettingsInv ==
  /\ SettingsTypeOK
  /\ UserHooksKept
  /\ PlansSettle
=============================================================================
