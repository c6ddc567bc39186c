------------------------------ MODULE Planner -------------------------------
(***************************************************************************)
(* Tasks, settings and reminders of the workspace (workspace/store.py).    *)
(* A request reads, decides and commits; others commit in between.  The    *)
(* client of a lost answer repeats its request with the same key, and an   *)
(* external adapter delivers every notification key once.                  *)
(***************************************************************************)
EXTENDS Naturals, Sequences, FiniteSets

CONSTANTS
  Clients,
  RequestKeys,      \* idempotency keys, and None
  Wishes,           \* what a new task may hold: [status, remind, due, notify]
  Changes,          \* what an update may set: records with some of those fields
  SettingChanges,   \* and a change of the settings
  MaxTasks, MaxTaskVersion, MaxClock, MaxSettings,
  None

VARIABLES
  tasks,        \* the tasks by their numbers
  commands,     \* by key: what was asked and the task that answered
  settings,     \* the stored preference, or None
  trail,        \* the audit events of every task: what was before and after
  settingsTrail,
  clock,
  delivered,    \* the notification keys that the adapter has delivered
  told,         \* tasks whose present reminder was delivered since it was set
  asked         \* by client: the request it is in

plannerVars == <<tasks, commands, settings, trail, settingsTrail, clock, delivered, told, asked>>

DefaultSettings == [enabled |-> FALSE, reminders |-> TRUE, digest |-> FALSE]

\* TaskInput; a reminder is an instant and its spelling, in one of the time zones.
TaskValues == [status : {"open", "done", "archived"}, remind : (Nat \X Nat) \cup {None},
               due : Nat \cup {None}, notify : BOOLEAN]

Instant(remind) == IF remind = None THEN None ELSE remind[1]

Idle == [op |-> "idle"]
Answer(c, a) == asked' = [asked EXCEPT ![c] = a]

-----------------------------------------------------------------------------
(* create_task                                                             *)

\* A known key is answered with its task, or refused if another task was asked for.
BeginCreate(c, key, wish) ==
  /\ asked[c] = Idle
  /\ key \notin DOMAIN commands
  /\ Answer(c, [op |-> "create", key |-> key, wish |-> wish])
  /\ UNCHANGED <<tasks, commands, settings, trail, settingsTrail, clock, delivered, told>>

\* Faulty: a repeated key makes another task.
NeverTaken(key) == FALSE

Taken(key) == key # None /\ key \in DOMAIN commands

\* The task, its event and the command are one commit, which a taken key undoes.
CommitCreate(c) ==
  /\ asked[c].op = "create"
  /\ LET key == asked[c].key
         id == Len(tasks) + 1
         wish == asked[c].wish
         done == wish.status = "done"
     IN  IF Taken(key)
           THEN UNCHANGED <<tasks, commands, trail>>
           ELSE /\ id <= MaxTasks
                /\ tasks' = Append(tasks, [values |-> wish, version |-> 1, key |-> key, done |-> done])
                /\ trail' = Append(trail, <<>>)
                /\ commands' = [k \in DOMAIN commands \cup ({key} \ {None}) |->
                                  IF k = key THEN [task |-> id, wish |-> wish] ELSE commands[k]]
  /\ Answer(c, Idle)
  /\ UNCHANGED <<settings, settingsTrail, clock, delivered, told>>

-----------------------------------------------------------------------------
(* update_task                                                             *)

\* Faulty: a change is taken as it is spelt.
ValidatedAsSpelt(old, change) ==
  [f \in DOMAIN old |-> IF f \in DOMAIN change THEN change[f] ELSE old[f]]

\* A change keeps the spelling of a reminder whose instant it keeps.
Validated(old, change) ==
  LET merged == [f \in DOMAIN old |-> IF f \in DOMAIN change THEN change[f] ELSE old[f]]
  IN  IF /\ old.remind # None /\ merged.remind # None
         /\ Instant(old.remind) = Instant(merged.remind)
      THEN [merged EXCEPT !.remind = old.remind] ELSE merged

\* Who names a version that is no longer the task's is refused at once.
BeginUpdate(c, t, change) ==
  /\ asked[c] = Idle
  /\ Answer(c, [op |-> "update", task |-> t, read |-> tasks[t].version,
                before |-> tasks[t].values, after |-> Validated(tasks[t].values, change)])
  /\ UNCHANGED <<tasks, commands, settings, trail, settingsTrail, clock, delivered, told>>

\* Faulty: the write does not ask for the version.
AnyVersion(c) == TRUE

\* The write asks for the version that was read; who finds another is refused.
SameVersion(c) == tasks[asked[c].task].version = asked[c].read

CommitUpdate(c) ==
  /\ asked[c].op = "update"
  /\ LET t == asked[c].task
         after == asked[c].after
         sameAlarm == /\ Instant(asked[c].before.remind) = Instant(after.remind)
                      /\ asked[c].before.due = after.due
     IN  IF ~SameVersion(c) THEN UNCHANGED <<tasks, trail, told>>
         ELSE /\ asked[c].read < MaxTaskVersion
              /\ tasks' = [tasks EXCEPT ![t].values = after, ![t].version = asked[c].read + 1,
                                        ![t].done = after.status = "done"]
              /\ trail' = [trail EXCEPT ![t] = Append(@, <<asked[c].before, after>>)]
              /\ told' = IF sameAlarm THEN told ELSE told \ {t}
  /\ Answer(c, Idle)
  /\ UNCHANGED <<commands, settings, settingsTrail, clock, delivered>>

-----------------------------------------------------------------------------
(* set_settings: read, merged and written whole                            *)

CurrentSettings == IF settings = None THEN DefaultSettings ELSE settings

BeginSettings(c, change) ==
  /\ asked[c] = Idle
  /\ Len(settingsTrail) < MaxSettings
  /\ Answer(c, [op |-> "settings", first |-> settings = None, before |-> CurrentSettings,
                after |-> [f \in DOMAIN DefaultSettings |->
                             IF f \in DOMAIN change THEN change[f] ELSE CurrentSettings[f]]])
  /\ UNCHANGED <<tasks, commands, settings, trail, settingsTrail, clock, delivered, told>>

\* Two first writers insert the same row, and one of them is refused.
CommitSettings(c) ==
  /\ asked[c].op = "settings"
  /\ IF asked[c].first /\ settings # None THEN UNCHANGED <<settings, settingsTrail>>
     ELSE /\ settings' = asked[c].after
          /\ settingsTrail' = Append(settingsTrail, <<asked[c].before, asked[c].after>>)
  /\ Answer(c, Idle)
  /\ UNCHANGED <<tasks, commands, trail, clock, delivered, told>>

-----------------------------------------------------------------------------
(* notifications                                                           *)

\* The key under which a task is announced now, if it is: its reminder as it is spelt, or
\* its day when it has no reminder.
EventKey(t) ==
  LET v == tasks[t].values
  IN  CASE v.status # "open" \/ ~v.notify -> None
        [] v.status = "open" /\ v.notify /\ v.remind # None ->
             IF v.remind[1] <= clock THEN <<t, "remind", v.remind>> ELSE None
        [] OTHER -> IF v.due # None /\ v.due <= clock THEN <<t, "due", v.due>> ELSE None

Pending ==
  IF ~CurrentSettings.enabled THEN {}
  ELSE (IF CurrentSettings.reminders THEN {EventKey(t) : t \in DOMAIN tasks} \ {None} ELSE {})
       \cup (IF /\ CurrentSettings.digest
                /\ \E t \in DOMAIN tasks : tasks[t].values.status = "open"
             THEN {<<0, "digest", clock>>} ELSE {})

Deliver ==
  /\ Pending \ delivered # {}
  /\ delivered' = delivered \cup Pending
  /\ told' = told \cup {t \in DOMAIN tasks : EventKey(t) \in Pending}
  /\ UNCHANGED <<tasks, commands, settings, trail, settingsTrail, clock, asked>>

Tick ==
  /\ clock < MaxClock
  /\ clock' = clock + 1
  /\ UNCHANGED <<tasks, commands, settings, trail, settingsTrail, delivered, told, asked>>

-----------------------------------------------------------------------------
Init ==
  /\ tasks = <<>> /\ trail = <<>>
  /\ commands = [k \in {} |-> {}]
  /\ settings = None /\ settingsTrail = <<>>
  /\ clock = 0 /\ delivered = {} /\ told = {}
  /\ asked = [c \in Clients |-> Idle]

Next ==
  \/ \E c \in Clients :
       \/ \E key \in RequestKeys, wish \in Wishes : BeginCreate(c, key, wish)
       \/ CommitCreate(c)
       \/ \E t \in DOMAIN tasks, change \in Changes : BeginUpdate(c, t, change)
       \/ CommitUpdate(c)
       \/ \E change \in SettingChanges : BeginSettings(c, change)
       \/ CommitSettings(c)
  \/ Deliver
  \/ Tick

Spec == Init /\ [][Next]_plannerVars

\* Types and bounds.
TypeOK ==
  /\ Len(tasks) <= MaxTasks /\ Len(trail) = Len(tasks)
  /\ \A t \in DOMAIN tasks : tasks[t].version \in 1..MaxTaskVersion /\ tasks[t].values \in TaskValues
  /\ DOMAIN commands \subseteq RequestKeys \ {None}
  /\ clock \in 0..MaxClock
  /\ told \subseteq DOMAIN tasks

\* However often a request is repeated, and by however many at once, its key has made one
\* task, which is the one that its answer names. (workspace/store.py: create_task)
OncePerKey ==
  /\ \A t \in DOMAIN tasks : tasks[t].key # None =>
       tasks[t].key \in DOMAIN commands /\ commands[tasks[t].key].task = t
  /\ \A k \in DOMAIN commands : tasks[commands[k].task].key = k

\* The history of a task has no gap and no fork: every change starts from what the one
\* before it left, and the last has left what the task holds.
\* (workspace/store.py: update_task)
HistoryChains ==
  \A t \in DOMAIN trail :
    /\ tasks[t].version = Len(trail[t]) + 1
    /\ tasks[t].done = (tasks[t].values.status = "done")
    /\ \A i \in 2..Len(trail[t]) : trail[t][i][1] = trail[t][i - 1][2]
    /\ trail[t] # <<>> => trail[t][Len(trail[t])][2] = tasks[t].values

\* A reminder that was delivered is not announced under another key while it stands,
\* whatever else is edited and however its instant is spelt. (workspace/store.py: notifications)
RemindedOnce == \A t \in told : EventKey(t) \in delivered \cup {None}
=============================================================================
