---------------------------- MODULE AgentActivity ----------------------------
(***************************************************************************)
(* The sessions the creature shows working (agent_bridge/activity.rs): a   *)
(* notification is a hook process of its own, so those of one session      *)
(* arrive in any order or not at all; the tracker keeps a bounded list in  *)
(* order of update, and forgets by age.  Time goes in units of the short   *)
(* limit.                                                                  *)
(***************************************************************************)
EXTENDS Naturals, Sequences, FiniteSets

CONSTANTS
  Sessions,            \* an agent and a session of it
  Kinds,               \* the events a run sends
  Cap,                 \* entries kept (64)
  Long,                \* units before a working session is forgotten (600 s against 4 s)
  MaxEvents, MaxTitles \* bounds: notifications sent; lines of the title index

VARIABLES
  flight,    \* notifications on their way, with the title each read
  index,     \* Codex's title index: lines of a session and a title
  entries,   \* the tracker's list
  nextId,
  shown,     \* the sessions and the summary last shown
  sent

vars == <<flight, index, entries, nextId, shown, sent>>

Running == {"working", "tool"}
NoTitle == "none"

Init ==
  /\ flight = {} /\ index = <<>> /\ entries = <<>> /\ nextId = 0 /\ sent = 0
  /\ shown = [sessions |-> <<>>, count |-> 0, state |-> "none", id |-> 0]

(* codex_title: the last whole line of the session with a label that can   *)
(* be shown.                                                               *)
Mut_Lines(s) == {i \in 1..Len(index) : index[i].title # "bad"}
Lines(s) == {i \in 1..Len(index) : index[i].session = s /\ index[i].title # "bad"}
CodexTitle(s) ==
  IF Lines(s) = {} THEN NoTitle
  ELSE index[CHOOSE i \in Lines(s) : \A j \in Lines(s) : j <= i].title

WriteTitle ==
  /\ Len(index) < MaxTitles
  /\ \E s \in Sessions, title \in {"title", "bad"} :
       index' = Append(index, [session |-> s, title |-> title])
  /\ UNCHANGED <<flight, entries, nextId, shown, sent>>

(* Activity::parse in the hook, then the bridge.                           *)
Send ==
  /\ sent < MaxEvents /\ sent' = sent + 1
  /\ \E s \in Sessions, e \in Kinds :
       flight' = flight \cup {[session |-> s, event |-> e, title |-> CodexTitle(s), n |-> sent]}
  /\ UNCHANGED <<index, entries, nextId, shown>>

(* No Ottid, no slot, no time: a notification is dropped.                  *)
Lose ==
  /\ \E m \in flight : flight' = flight \ {m}
  /\ UNCHANGED <<index, entries, nextId, shown, sent>>

-----------------------------------------------------------------------------
State(event) ==
  CASE event = "PreToolUse" -> "tool" [] event = "Stop" -> "done"
    [] event = "Interrupt" -> "stopped" [] event = "StopFailure" -> "error" [] OTHER -> "working"

(* expire                                                                  *)
Mut_Lasts(state) == Long
Lasts(state) == IF state \in Running THEN Long ELSE 1
Mut_Fresh(list) == SelectSeq(list, LAMBDA e : e.age <= Lasts(e.state))
Fresh(list) == SelectSeq(list, LAMBDA e : e.age < Lasts(e.state))

Of(list, s) == {list[i] : i \in {j \in 1..Len(list) : list[j].session = s}}
Without(list, s) == SelectSeq(list, LAMBDA e : e.session # s)

(* Tracker::update                                                         *)
Mut_Title(m, previous) == m.title
Title(m, previous) ==
  IF m.title = NoTitle /\ previous # {} THEN (CHOOSE e \in previous : TRUE).title ELSE m.title
Mut_Id(previous) == IF previous # {} THEN (CHOOSE e \in previous : TRUE).id ELSE Len(entries) + 1
Id(previous) == IF previous # {} THEN (CHOOSE e \in previous : TRUE).id ELSE nextId + 1
Entry(m) ==
  LET previous == Of(entries, m.session)
  IN  [session |-> m.session, id |-> Id(previous), state |-> State(m.event), age |-> 0,
       title |-> Title(m, previous)]
Mut_All(list) == list
Mut_Trim(list) == IF Len(list) > Cap THEN <<Head(list)>> \o Tail(Tail(list)) ELSE list
Trim(list) == IF Len(list) > Cap THEN Tail(list) ELSE list

Keep(list, s) == Without(list, s)
Updated(m) ==
  IF m.event = "SessionEnd" THEN Keep(entries, m.session)
  ELSE Trim(Append(Keep(entries, m.session), Entry(m)))

(* sessions and summary, on the list once expired.                         *)
ById(list) ==
  LET rank(i) == Cardinality({j \in 1..Len(list) : list[j].id <= list[i].id})
  IN  [k \in 1..Len(list) |-> list[CHOOSE i \in 1..Len(list) : rank(i) = k]]
Active(list) == {i \in 1..Len(list) : list[i].state \in Running}
Mut_Speaks(list) == Len(list)
Speaks(list) ==
  IF Active(list) = {} THEN Len(list)
  ELSE CHOOSE i \in Active(list) : \A j \in Active(list) : j <= i
Shown(list) ==
  IF list = <<>> THEN [sessions |-> <<>>, count |-> 0, state |-> "none", id |-> 0]
  ELSE [sessions |-> ById(list), state |-> list[Speaks(list)].state, id |-> list[Speaks(list)].id,
        count |-> IF Active(list) = {} THEN 1 ELSE Cardinality(Active(list))]

(* asker: the update, then the sessions are read and shown.                *)
Deliver ==
  /\ \E m \in flight :
       /\ flight' = flight \ {m} /\ entries' = Fresh(Updated(m))
       /\ nextId' = IF Of(entries, m.session) = {} /\ m.event # "SessionEnd" THEN nextId + 1
                    ELSE nextId
  /\ shown' = Shown(entries') /\ UNCHANGED <<index, sent>>

Look ==
  /\ entries' = Fresh(entries) /\ shown' = Shown(entries')
  /\ UNCHANGED <<flight, index, nextId, sent>>

Tick ==
  /\ entries' = [i \in 1..Len(entries) |->
                   [entries[i] EXCEPT !.age = IF @ < Long THEN @ + 1 ELSE @]]
  /\ UNCHANGED <<flight, index, nextId, shown, sent>>

Next == WriteTitle \/ Send \/ Lose \/ Deliver \/ Look \/ Tick
(* The overlay's page reads the sessions on a timer of its own.            *)
Fairness == WF_vars(Look) /\ WF_vars(Tick)
Spec == Init /\ [][Next]_vars /\ Fairness

-----------------------------------------------------------------------------
(* Types: the list holds at most Cap sessions, each once, none older than  *)
(* the longest wait.                                                       *)
ActivityTypeOK ==
  /\ Len(entries) <= Cap /\ \A i \in 1..Len(entries) : entries[i].age \in 0..Long
  /\ \A m \in flight : m.event \in Kinds /\ m.title \in {NoTitle, "title"}
  /\ \A i, j \in 1..Len(entries) : i # j => entries[i].session # entries[j].session

(* An id names one session for as long as Ottid runs: a session keeps its  *)
(* own while it is listed, and a new one's was never another's, whatever   *)
(* was ended, expired or pushed out in between.                            *)
IdsNameSessions ==
  [][/\ \A s \in Sessions : \A e \in Of(entries, s), f \in Of(entries', s) : e.id = f.id
     /\ \A s \in Sessions : \A f \in Of(entries', s) : Of(entries, s) = {} => f.id > nextId]_vars

(* "An index rename or partial append simply leaves the previous display   *)
(* label" (activity.rs:26): a listed session does not lose its title.      *)
TitleKept ==
  [][\A s \in Sessions : \A e \in Of(entries, s), f \in Of(entries', s) :
       e.title # NoTitle => f.title = e.title]_vars

(* A session shows a title only if the index names it one.                 *)
TitleIsItsOwn ==
  \A s \in Sessions : \A e \in Of(entries, s) :
    e.title # NoTitle => \E i \in 1..Len(index) : index[i] = [session |-> s, title |-> e.title]

(* The summary and the list are two computations over one state: the one   *)
(* says an agent is working exactly when the other lists one, and counts   *)
(* the same.                                                               *)
SummaryAgrees ==
  LET working == {i \in 1..Len(shown.sessions) : shown.sessions[i].state \in Running}
  IN  /\ (shown.state \in Running) = (working # {})
      /\ working # {} => shown.count = Cardinality(working)
                         /\ \E i \in working : shown.sessions[i].id = shown.id

(* At the cap the session that makes room is the one longest without news. *)
PushesOutTheStalest ==
  [][\A s \in Sessions :
       /\ Of(entries, s) # {} /\ Of(entries', s) = {} /\ Len(entries) = Cap
       /\ \E t \in Sessions : Of(entries, t) = {} /\ Of(entries', t) # {}
       => \/ entries[1].session = s
          \/ \E e \in Of(entries, s) : e.age >= Lasts(e.state)]_vars

(* A session whose last notification was lost, or that ended out of order, *)
(* is not shown for ever; a finished one goes with the short limit, long   *)
(* before a silent one that works.                                         *)
FinishedGoesFirst ==
  \A i \in 1..Len(shown.sessions) :
    shown.sessions[i].age > 0 => shown.sessions[i].state \in Running

(* A session nobody reports on any more does not keep the creature busy    *)
(* for ever.                                                               *)
Forgotten == shown.count > 0 ~> (shown.count = 0 \/ flight # {})

(* A session has its own title, the summary is of the list, and a finished *)
(* session goes before a silent one.                                       *)
ActivityInv ==
  /\ ActivityTypeOK
  /\ TitleIsItsOwn
  /\ SummaryAgrees
  /\ FinishedGoesFirst
=============================================================================
