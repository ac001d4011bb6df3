---- MODULE RecipeRun ----
(* One run of a recipe: the validator, the three ways a run starts (a       *)
(* spoken command through the intent cascade, the Hub's Run button, the     *)
(* command line), and the executor that walks the host's steps, fills in    *)
(* variables, asks before a shell command, waits for windows and for focus, *)
(* and stops at the first error.                                            *)
EXTENDS Naturals, Sequences, FiniteSets, SequencesExt

CONSTANTS
  Recipes,    \* installed recipes, in the order they are collected
  Said,       \* transcripts, as sequences of words
  Given,      \* argument maps the Hub's form or the command line may pass
  Values,     \* what a clipboard or a shell may yield
  Host,       \* the operating system this build runs on
  Elements,   \* what may have the keyboard focus
  NoFocus,    \* nothing has it
  Limit,      \* polls a wait lasts at most
  None        \* no recipe, no list of steps, no variable, no result yet

OSes == {"windows", "macos", "linux"}

(* A list of steps, or none; only what yields a value binds a variable, and *)
(* only a shell step may be a dry run (schema.rs Step).                     *)
IsStepList(list) ==
  list # None =>
    /\ list \in Seq(ToSet(list))
    /\ \A i \in DOMAIN list :
         /\ list[i].binds # None => list[i].kind \in {"clipboard_get_into", "run_shell"}
         /\ list[i].dry => list[i].kind = "run_shell"

Outcomes == {"ok", "planner", "no_steps", "unknown_interpolation", "failed", "denied",
             "timeout", "not_implemented"}

RunAssumption ==
  /\ Limit \in Nat /\ NoFocus \notin Elements /\ Host \in OSes /\ None \notin Outcomes
  /\ Recipes \in Seq(ToSet(Recipes))
  /\ \A i \in DOMAIN Recipes : \A os \in OSes : IsStepList(Recipes[i].steps[os])

VARIABLES at, who, recipe, bound, done, result, did, asked, poll, before, focus, orphan
vars == <<at, who, recipe, bound, done, result, did, asked, poll, before, focus, orphan>>

----
(* Recipes. A step has a kind, the names its text interpolates, names only  *)
(* the validator looks at, and a variable it may bind.                      *)

Step(kind, uses) == [kind |-> kind, uses |-> uses, aside |-> {}, binds |-> None, dry |-> FALSE]
Binding(kind, uses, var) == [Step(kind, uses) EXCEPT !.binds = var]
TextKinds == {"type_unicode", "clipboard_set", "run_shell", "open_url", "open_app",
              "focus_window", "wait_for_window", "click_label"}
Names(step) == IF step.kind \in TextKinds THEN step.uses \cup step.aside ELSE {}
Lists(r) == {r.steps[os] : os \in {o \in OSes : r.steps[o] # None}}
StepsOf(r) == UNION {ToSet(l) : l \in Lists(r)}
Keys(r) == ToSet(r.params)
Empty == "" \* what is between the braces of {{ }}
Used(r) == (UNION {Names(s) : s \in StepsOf(r)}) \ {Empty}
Locals(r) == {s.binds : s \in StepsOf(r)} \ {None}
RunsShell(r) == \E s \in StepsOf(r) : s.kind = "run_shell"

KeyIssues(r) ==
  {"duplicate" : i \in {j \in DOMAIN r.params : \E k \in 1..(j - 1) : r.params[k] = r.params[j]}}
    \cup {"unused" : k \in Keys(r) \ Used(r)}
Mut_NameIssues(r) == {}
NameIssues(r) == {"unknown" : n \in Used(r) \ (Keys(r) \cup Locals(r))}
ListIssues(r) ==
  {"empty list" : l \in {m \in Lists(r) : m = <<>>}}
    \cup {"no steps" : x \in {r} \cap {q \in {r} : \A l \in Lists(q) : l = <<>>}}
PermissionIssues(r) == IF RunsShell(r) /\ ~r.shell THEN {"shell.run"} ELSE {}
FormIssues(r) == IF r.wellFormed THEN {} ELSE {"version or id"}
Issues(r) ==
  FormIssues(r) \cup KeyIssues(r) \cup NameIssues(r) \cup ListIssues(r) \cup PermissionIssues(r)
Valid(r) == Issues(r) = {}

----
(* The intent cascade. A phrase is a sequence of words and slots; a match   *)
(* gives every slot at least one word, the earlier slots as few as can be.  *)

IsSlot(item) == item.slot
Slots(phrase) == {phrase[i].name : i \in {j \in DOMAIN phrase : IsSlot(phrase[j])}}
Distinct(phrase) ==
  \A i, j \in DOMAIN phrase : IsSlot(phrase[i]) /\ IsSlot(phrase[j]) /\ i # j
    => phrase[i].name # phrase[j].name
Cuts(phrase, words) ==
  {c \in [0..Len(phrase) -> 0..Len(words)] :
     /\ c[0] = 0 /\ c[Len(phrase)] = Len(words)
     /\ \A i \in DOMAIN phrase :
          IF IsSlot(phrase[i]) THEN c[i] > c[i - 1]
          ELSE c[i] = c[i - 1] + 1 /\ words[c[i]] = phrase[i].name}
Sooner(c, d) == \E i \in DOMAIN c : c[i] < d[i] /\ \A j \in 0..(i - 1) : c[j] = d[j]
Cut(phrase, words) ==
  CHOOSE c \in Cuts(phrase, words) : \A d \in Cuts(phrase, words) : d = c \/ Sooner(c, d)
Fits(phrase, words) == Distinct(phrase) /\ Cuts(phrase, words) # {}
Args(phrase, words) ==
  [n \in Slots(phrase) |->
     LET i == CHOOSE j \in DOMAIN phrase : IsSlot(phrase[j]) /\ phrase[j].name = n
         c == Cut(phrase, words)
     IN  SubSeq(words, c[i - 1] + 1, c[i])]
Hits(words) ==
  {h \in (DOMAIN Recipes) \X (1..2) :
     LET intents == Recipes[h[1]].intents
     IN  h[2] \in DOMAIN intents /\ Fits(intents[h[2]], words)}
FirstHit(words) ==
  CHOOSE h \in Hits(words) :
    \A g \in Hits(words) : h[1] < g[1] \/ (h[1] = g[1] /\ h[2] <= g[2])

----
(* Starting *)

Init ==
  /\ at = "idle" /\ who = None /\ recipe = None /\ result = None
  /\ bound = <<>> /\ done = 0 /\ did = <<>> /\ asked = <<>>
  /\ poll = 0 /\ before = NoFocus /\ focus \in Elements \cup {NoFocus} /\ orphan = FALSE

Steps == recipe.steps[Host]
NoRun == recipe = None \/ Steps = None
Begin(by, r, args) ==
  /\ who' = by /\ recipe' = r /\ bound' = args
  /\ IF r.steps[Host] = None
     THEN at' = "over" /\ result' = "no_steps"
     ELSE at' = "step" /\ UNCHANGED result
  /\ UNCHANGED <<done, did, asked, poll, before, focus, orphan>>

\* A spoken command: a match runs the recipe, a miss goes to the planner.
Command(words) ==
  /\ at = "idle"
  /\ IF Hits(words) = {}
     THEN /\ at' = "over" /\ who' = "planner" /\ result' = "planner"
          /\ UNCHANGED <<recipe, bound, done, did, asked, poll, before, focus, orphan>>
     ELSE LET h == FirstHit(words)
          IN  Begin("command", Recipes[h[1]], Args(Recipes[h[1]].intents[h[2]], words))
HubRun(i, args) == at = "idle" /\ Begin("hub", Recipes[i], args)
CliRun(i, args, allowShell) ==
  at = "idle" /\ Begin(IF allowShell THEN "cli_shell" ELSE "cli", Recipes[i], args)

----
(* Executing *)

Here == Steps[done + 1]
Stepping(kinds) == at = "step" /\ done < Len(Steps) /\ Here.kind \in kinds
Unbound == Here.uses \ DOMAIN bound
Text == [n \in Here.uses |-> bound[n]]
Act(text) == [kind |-> Here.kind, text |-> text]

Bind(var, value) == IF var = None THEN bound ELSE [n \in DOMAIN bound \cup {var} |->
                                                     IF n = var THEN value ELSE bound[n]]
\* A step that succeeded; one that failed ends the run with its error.
Complete(acts, names) ==
  /\ done' = done + 1 /\ did' = did \o acts /\ bound' = names
  /\ at' = "step" /\ poll' = 0
Mut_Fail(error) == at' = "step" /\ done' = done + 1 /\ UNCHANGED <<result, did, bound, poll>>
Mut_FailOver(error) ==
  /\ at' = "over" /\ result' = IF who = "command" THEN "planner" ELSE error
  /\ UNCHANGED <<did, done, bound, poll>>
Fail(error) ==
  at' = "over" /\ result' = error /\ UNCHANGED <<did, done, bound, poll>>

\* A name without a value ends the run before anything is done.
Unresolved ==
  /\ Stepping(TextKinds \ {"click_label"}) /\ Unbound # {}
  /\ Fail("unknown_interpolation")
  /\ UNCHANGED <<who, recipe, asked, before, focus, orphan>>

\* Keys, text, clipboard, focus, url, app, screenshot, sleep: done or failed.
Simple == {"key_chord", "type_unicode", "focus_window", "wait_ms", "screenshot_to_clipboard",
           "clipboard_set", "open_url", "open_app"}
DoSimple(ok) ==
  /\ Stepping(Simple)
  /\ Here.kind \in TextKinds => Unbound = {}
  /\ Here.kind = "wait_ms" => ok
  /\ IF ok THEN Complete(<<Act(Text)>>, bound) /\ UNCHANGED result ELSE Fail("failed")
  /\ UNCHANGED <<who, recipe, asked, before, focus, orphan>>
ClipboardGet(value, ok) ==
  /\ Stepping({"clipboard_get_into"})
  /\ IF ok THEN Complete(<<Act(<<>>)>>, Bind(Here.binds, value)) /\ UNCHANGED result
     ELSE Fail("failed")
  /\ UNCHANGED <<who, recipe, asked, before, focus, orphan>>
ClickLabel ==
  /\ Stepping({"click_label"})
  /\ Fail("not_implemented")
  /\ UNCHANGED <<who, recipe, asked, before, focus, orphan>>

\* A dry run of a shell step asks nothing and runs nothing.
DryRun ==
  /\ Stepping({"run_shell"}) /\ Unbound = {} /\ Here.dry
  /\ Complete(<<>>, Bind(Here.binds, <<"(dry-run)">>))
  /\ UNCHANGED <<who, recipe, result, asked, before, focus, orphan>>
Mut_NeedsAnswer == FALSE
NeedsAnswer == who # "cli_shell"
Ask ==
  /\ Stepping({"run_shell"}) /\ Unbound = {} /\ ~Here.dry
  /\ at' = IF NeedsAnswer THEN "asking" ELSE "shell"
  /\ asked' = Append(asked, [text |-> Text, allowed |-> ~NeedsAnswer])
  /\ UNCHANGED <<who, recipe, bound, done, result, did, poll, before, focus, orphan>>
\* The card's answer, its own deny after 30 s included; the command line
\* without --allow-shell denies at once.
Answer(allow) ==
  /\ at = "asking"
  /\ who = "cli" => ~allow
  /\ IF allow
     THEN /\ at' = "shell" /\ asked' = [asked EXCEPT ![Len(asked)].allowed = TRUE]
          /\ UNCHANGED <<result, did, done, bound, poll>>
     ELSE Fail("denied") /\ UNCHANGED asked
  /\ UNCHANGED <<who, recipe, before, focus, orphan>>
\* The command ends well, fails or never started, or outlives its limit: then
\* nobody kills it.
Shell(how, value) ==
  /\ at = "shell"
  /\ CASE how = "ok" -> /\ Complete(<<Act(asked[Len(asked)].text)>>, Bind(Here.binds, value))
                        /\ UNCHANGED <<result, orphan>>
       [] how = "failed" -> Fail("failed") /\ UNCHANGED orphan
       [] how = "timeout" -> Fail("timeout") /\ orphan' = TRUE
  /\ UNCHANGED <<who, recipe, asked, before, focus>>

Mut_Expired == poll > Limit
Expired == poll >= Limit
\* wait_for_window focuses a matching window as soon as there is one.
WaitForWindow(how) ==
  /\ Stepping({"wait_for_window"}) /\ Unbound = {}
  /\ CASE how = "found" -> Complete(<<Act(Text)>>, bound) /\ UNCHANGED result
       [] how = "error" -> Fail("failed")
       [] how = "absent" ->
            IF Expired THEN Fail("timeout")
            ELSE poll' = poll + 1 /\ UNCHANGED <<at, result, did, done, bound>>
  /\ UNCHANGED <<who, recipe, asked, before, focus, orphan>>

\* wait_for_focus_change remembers the element that has the focus first; a
\* poll that fails reads as no focus at all.
SnapshotFocus(ok) ==
  /\ Stepping({"wait_for_focus_change"})
  /\ IF ok THEN at' = "focus" /\ before' = focus /\ UNCHANGED <<result, did, done, bound, poll>>
     ELSE Fail("failed") /\ UNCHANGED before
  /\ UNCHANGED <<who, recipe, asked, focus, orphan>>
Read(ok) == IF ok THEN focus ELSE NoFocus
PollFocus(ok) ==
  /\ at = "focus"
  /\ IF Read(ok) # before THEN Complete(<<Act(<<>>)>>, bound) /\ UNCHANGED result
     ELSE IF Expired THEN Fail("timeout")
     ELSE poll' = poll + 1 /\ UNCHANGED <<at, result, did, done, bound>>
  /\ UNCHANGED <<who, recipe, asked, before, focus, orphan>>
FocusMoves(e) ==
  /\ at = "focus" /\ focus # e /\ focus' = e
  /\ UNCHANGED <<at, who, recipe, bound, done, result, did, asked, poll, before, orphan>>

Mut_Finish ==
  /\ at = "step" /\ done > Len(Steps)
  /\ at' = "over" /\ result' = "ok"
  /\ UNCHANGED <<who, recipe, bound, done, did, asked, poll, before, focus, orphan>>
Finish ==
  /\ at = "step" /\ done = Len(Steps)
  /\ at' = "over" /\ result' = "ok"
  /\ UNCHANGED <<who, recipe, bound, done, did, asked, poll, before, focus, orphan>>

Execute ==
  \/ Unresolved \/ ClickLabel \/ DryRun \/ Ask \/ Finish
  \/ \E ok \in BOOLEAN : DoSimple(ok) \/ SnapshotFocus(ok) \/ PollFocus(ok) \/ Answer(ok)
  \/ \E v \in Values, ok \in BOOLEAN : ClipboardGet(v, ok)
  \/ \E v \in Values, how \in {"ok", "failed", "timeout"} : Shell(how, v)
  \/ \E how \in {"found", "error", "absent"} : WaitForWindow(how)
Next ==
  \/ \E w \in Said : Command(w)
  \/ \E i \in DOMAIN Recipes, a \in Given : HubRun(i, a) \/ \E s \in BOOLEAN : CliRun(i, a, s)
  \/ Execute
  \/ \E e \in Elements \cup {NoFocus} : FocusMoves(e)

Spec == Init /\ [][Next]_vars /\ WF_vars(Execute)

----
(* A run stands at a stage, has a result exactly when it is over, and has   *)
(* not done more steps than the recipe has.                                 *)
RunTypeOK ==
  /\ at \in {"idle", "step", "asking", "shell", "focus", "over"} /\ result \in Outcomes \cup {None}
  /\ (at = "over") = (result # None)
  /\ ~NoRun => done \in 0..Len(Steps)
  /\ poll \in 0..Limit

Visible == {i \in 1..done : ~Steps[i].dry}
DoneAt(pos) ==
  /\ Visible \subseteq {pos[i] : i \in DOMAIN did}
  /\ \A i, j \in DOMAIN did : i < j => pos[i] < pos[j]
  /\ \A i \in DOMAIN did : did[i].kind = Steps[pos[i]].kind

(* What was done is the recipe's own host steps, in order, each with the    *)
(* kind it names; dry runs leave no trace. Nothing follows a step that      *)
(* failed, and a run that reports success did every step.                   *)
DidThePrefix ==
  ~NoRun => /\ \E pos \in [DOMAIN did -> Visible] : DoneAt(pos)
            /\ result = "ok" => done = Len(Steps)

Allowed(text) == \E i \in DOMAIN asked : asked[i].text = text /\ asked[i].allowed

(* A shell command ran, or may be running, only when its exact text was     *)
(* allowed, and a dry run never does; the command line allows none without  *)
(* its flag, and nothing is done after a denial.                            *)
ShellsWereAllowed ==
  /\ \A i \in DOMAIN did : did[i].kind = "run_shell" => Allowed(did[i].text)
  /\ at = "shell" \/ orphan => asked[Len(asked)].allowed
  /\ who = "cli" => at # "shell" /\ ~orphan
  /\ \A i \in DOMAIN asked : ~asked[i].allowed => i = Len(asked) /\ at \in {"asking", "over"}

BoundBefore(r) ==
  \A i \in DOMAIN r.steps[Host] :
    /\ Empty \notin Names(r.steps[Host][i])
    /\ Names(r.steps[Host][i]) \cap (Locals(r) \ Keys(r)) \subseteq
         {r.steps[Host][j].binds : j \in 1..(i - 1)}

(* A recipe the validator accepts, with a value for every parameter, its    *)
(* own variables bound before they are used on this host and no empty       *)
(* braces, never stops half way for a name without a value.                 *)
ValidNeverUnbound ==
  result = "unknown_interpolation" /\ Valid(recipe) /\ BoundBefore(recipe)
    => ~(Keys(recipe) \subseteq DOMAIN bound)

(* The planner is asked only when nothing of a recipe was done: a match     *)
(* that fails on the way is reported, never planned a second time.          *)
PlannerOnlyOnMiss == result = "planner" => did = <<>> /\ asked = <<>> /\ recipe = None

(* A run that was started ends: every wait has its limit.                   *)
RunEnds == (at # "idle") ~> (at = "over")

(* A run does a prefix of its recipe and nothing else, runs what was       *)
(* allowed as it was shown, never meets an unbound name in a valid recipe, *)
(* and is not tried again by the planner.                                  *)
RunInv ==
  /\ RunTypeOK
  /\ DidThePrefix
  /\ ShellsWereAllowed
  /\ ValidNeverUnbound
  /\ PlannerOnlyOnMiss
====
