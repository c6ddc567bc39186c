------------------------- MODULE CaptureOutboxProofs -------------------------
(***************************************************************************)
(* Proofs about the capture outbox, for any captures, backends and bounds. *)
(***************************************************************************)
EXTENDS CaptureOutbox, TLAPS

------------------------------------------------------------------------------
(* Types.  That the ensure and settle operations find the task that waits   *)
(* for them is not a typing fact: at most one of each is queued.            *)

Awaited ==
  \A n \in 1..Len(alarmWork) : alarmWork[n] \in {"ensure", "settle"} =>
    /\ task.pc = IF alarmWork[n] = "ensure" THEN "arming" ELSE "settling"
    /\ \A k \in 1..Len(alarmWork) : alarmWork[k] = alarmWork[n] => k = n

Delivering == drain.pc \in {"listing", "next", "checked", "waiting", "acked"}

DrainTyped ==
  /\ Delivering => drain.destination \in Destinations
  /\ drain.pc \in {"checked", "waiting", "acked"} => drain.item \in Items

\* The head of the alarm queue is surveyed, and only if it is no ensure operation.
Surveyed == pending # "unread" => alarmWork # <<>> /\ Head(alarmWork) # "ensure"

\* A stopped worker leaves nothing in memory.
Asleep ==
  ~alive => /\ task = NoTask /\ drain = NoDrain /\ ~discarding
            /\ alarmWork = <<>> /\ pending = "unread"

TypeInv == TypeOK /\ Awaited /\ Surveyed /\ DrainTyped /\ Asleep

------------------------------------------------------------------------------
(* The strengthening of RetryArmed. *)

\* Captures that wait have an alarm no running decision will clear, or work under way
\* that will decide about the alarm after reading the queue.
RetryKept ==
  alive => \/ queue = {}
           \/ Paused
           \/ drain.pc # "none"
           \/ alarm /\ pending # "none"
           \/ \E n \in 1..Len(alarmWork) : n # 1 \/ pending # "none"

------------------------------------------------------------------------------
(* The strengthening of PauseStops. *)

PauseInv == Paused => /\ late <= 1
                      /\ drain.pc = "checked" => late = 0

------------------------------------------------------------------------------
(* The strengthening of KeepsPromise. *)

Received(i) == i[1] \in backend[i[2]]

\* Whatever the queue, the drain and the network hold was accepted, the drain holds it
\* for its own destination, and it drops only what was received.
Conveyed ==
  /\ queue \subseteq accepted
  /\ wire \subseteq accepted
  /\ \A i \in drain.rest : i \in accepted /\ i[2] = drain.destination
  /\ drain.pc \in {"checked", "waiting", "acked"} =>
       drain.item \in accepted /\ drain.item[2] = drain.destination
  /\ drain.pc = "acked" => Received(drain.item)
  /\ drain.pc = "opening" => drain.rest = {}

------------------------------------------------------------------------------
(* Which actions write the memory of the service worker. *)

DrainActor ==
  \/ FlushTask \/ Clear \/ DrainStep
  \/ \E i \in Items : Deliver(i) \/ Refuse(i)
  \/ Timeout \/ FireAlarm \/ OwnerStep \/ Kill
  \/ \E restart, kept \in BOOLEAN : Wake(restart, kept)

TaskActor ==
  \/ \E c \in Captures : Observe(c)
  \/ TaskStep \/ AlarmStep \/ Close
  \/ FireAlarm \/ Kill
  \/ \E restart, kept \in BOOLEAN : Wake(restart, kept)

\* The other actions leave the drain, or the task and the alarm queue, alone.
LEMMA Writers ==
  ASSUME [Next]_vars
  PROVE  /\ UNCHANGED drain \/ DrainActor
         /\ UNCHANGED <<task, alarmWork, pending>> \/ TaskActor
  BY DEF Next, vars, DrainActor, TaskActor, TaskStep, DrainStep, AlarmStep, OwnerStep, Observe,
     Store, Reject, FlushTask, BeginDiscard, Clear, Open, ListItems, SkipDeleted, Check, Send,
     Deliver, Refuse, Timeout, Remove, Close, Survey, Schedule, Ensure, FireAlarm, SetPaused,
     SaveSettings, AcceptConsent, AskDiscard, Change, Kill, Wake, browser, network, history, bounds

------------------------------------------------------------------------------
(* Type correctness, part by part. *)

\* The initial state satisfies the strengthened type invariant.
LEMMA InitType == Init => TypeInv
<1> SUFFICES ASSUME Init PROVE TypeInv
  OBVIOUS
<1> USE DEF Init
<1>1. settings \in Settings
  BY DEF Settings
<1>2. created \in [Items -> Nat] /\ backend \in [Destinations -> SUBSET Captures]
  OBVIOUS
<1>3. task \in TaskRow /\ drain \in DrainRow
  BY DEF TaskRow, DrainRow, NoTask, NoDrain
<1>4. alarmWork \in Seq(AlarmOps) /\ Awaited /\ Surveyed
  BY DEF Awaited, Surveyed
<1>5. DrainTyped /\ Asleep
  BY DEF DrainTyped, Delivering, Asleep, NoDrain
<1>. QED
  BY <1>1, <1>2, <1>3, <1>4, <1>5 DEF TypeInv, TypeOK, NoTask

\* A drain that starts, or goes on, is a drain.
LEMMA FlushedType ==
  ASSUME TypeInv
  PROVE  /\ Flushed \in DrainRow
         /\ Flushed.rest = drain.rest \/ Flushed.rest = {}
         /\ Flushed = drain \/ Flushed = [NoDrain EXCEPT !.pc = "opening"]
  BY OutboxAssumption DEF TypeInv, TypeOK, Flushed, NoDrain, DrainRow

\* The drain stays well formed: with a destination while it delivers, with an item
\* while it delivers one.
LEMMA DrainType ==
  ASSUME TypeInv, [Next]_vars
  PROVE  drain' \in DrainRow /\ DrainTyped'
<1> USE DEF DrainTyped, Delivering, DrainRow
<1>. DEFINE Good == drain' \in DrainRow /\ DrainTyped'
<1>1. drain \in DrainRow /\ settings.destination \in Destinations /\ DrainTyped
      /\ queue \in SUBSET Items
  BY DEF TypeInv, TypeOK, Settings
<1>2. NoDrain \in DrainRow /\ Flushed \in DrainRow
      /\ (drain' = NoDrain \/ drain' = Flushed => DrainTyped')
  BY <1>1, FlushedType DEF NoDrain
<1>3. CASE UNCHANGED drain
  BY <1>1, <1>3
<1>4. CASE FlushTask \/ Clear \/ FireAlarm
  BY <1>2, <1>4 DEF FlushTask, Clear, FireAlarm
<1>5. CASE OwnerStep
  BY <1>1, <1>2, <1>5 DEF OwnerStep, SetPaused, SaveSettings, AcceptConsent, AskDiscard
<1>6. CASE Kill \/ \E restart, kept \in BOOLEAN : Wake(restart, kept)
  BY <1>1, <1>2, <1>6 DEF Kill, Wake
<1>7. CASE Open
  BY <1>1, <1>7 DEF Open
<1>8. CASE ListItems
  <2>1. List \in SUBSET Items
    BY <1>1 DEF List
  <2>. QED
    BY <1>1, <1>8, <2>1 DEF ListItems
<1>9. CASE SkipDeleted
  <2>1. PICK i \in drain.rest : drain' = [drain EXCEPT !.rest = @ \ {i}]
    BY <1>9 DEF SkipDeleted
  <2>2. drain.rest \ {i} \in SUBSET Items
    BY <1>1
  <2>. QED
    BY <1>1, <1>9, <2>1, <2>2 DEF SkipDeleted
<1>10. CASE Check
  <2>1. PICK i \in drain.rest : drain' = Checked(i)
    BY <1>10 DEF Check
  <2>2. drain.rest \ {i} \in SUBSET Items /\ i \in Items
    BY <1>1
  <2>. QED
    BY <1>1, <1>10, <2>1, <2>2 DEF Check, Checked
<1>11. CASE Send
  BY <1>1, <1>11 DEF Send
<1>12. CASE Remove
  BY <1>1, <1>12 DEF Remove
<1>13. CASE Close
  BY <1>2, <1>13 DEF Close
<1>14. CASE Timeout
  BY <1>1, <1>14 DEF Timeout, Refused
<1>15. CASE \E i \in Items : Deliver(i) \/ Refuse(i)
  BY <1>1, <1>15 DEF Deliver, Refuse, Refused, AwaitsReply
<1>. QED
  BY <1>3, <1>4, <1>5, <1>6, <1>7, <1>8, <1>9, <1>10, <1>11, <1>12, <1>13, <1>14, <1>15,
     Writers DEF DrainActor, DrainStep

TaskTyped ==
  /\ task \in TaskRow
  /\ task.pc \in {"storing", "arming", "flushing"} => task.item \in Items
  /\ alarmWork \in Seq(AlarmOps)
  /\ pending \in {"unread", "some", "none"}
  /\ Awaited
  /\ Surveyed

\* What is left of a queue of alarm operations, and the queue of a worker that starts.
LEMMA AlarmQueues ==
  /\ <<>> \in Seq(AlarmOps) /\ Len(<<>>) = 0
  /\ <<"startup">> \in Seq(AlarmOps) /\ Len(<<"startup">>) = 1 /\ <<"startup">>[1] = "startup"
  /\ \A q \in Seq(AlarmOps) : q # <<>> =>
       /\ Head(q) = q[1] /\ Len(q) \in Nat \ {0}
       /\ Tail(q) \in Seq(AlarmOps) /\ Len(Tail(q)) = Len(q) - 1
       /\ \A n \in 1..Len(Tail(q)) : Tail(q)[n] = q[n + 1]
  BY DEF AlarmOps

\* What follows the head of the alarm queue still has the task that waits for it, and is
\* not what the head is.
LEMMA TailAwaited ==
  ASSUME alarmWork \in Seq(AlarmOps), alarmWork # <<>>, Awaited
  PROVE  \A n \in 1..Len(Tail(alarmWork)) : Tail(alarmWork)[n] \in {"ensure", "settle"} =>
           /\ task.pc = IF Tail(alarmWork)[n] = "ensure" THEN "arming" ELSE "settling"
           /\ Tail(alarmWork)[n] # alarmWork[1]
           /\ \A k \in 1..Len(Tail(alarmWork)) : Tail(alarmWork)[k] = Tail(alarmWork)[n] => k = n
<1>. DEFINE rest == Tail(alarmWork)
<1>1. /\ Len(alarmWork) \in Nat \ {0} /\ Len(rest) = Len(alarmWork) - 1
      /\ \A n \in 1..Len(rest) : rest[n] = alarmWork[n + 1]
  BY AlarmQueues
<1>. HIDE DEF rest
<1>. SUFFICES ASSUME NEW n \in 1..Len(rest), rest[n] \in {"ensure", "settle"}
              PROVE  /\ task.pc = IF rest[n] = "ensure" THEN "arming" ELSE "settling"
                     /\ rest[n] # alarmWork[1]
                     /\ \A k \in 1..Len(rest) : rest[k] = rest[n] => k = n
  BY DEF rest
<1>2. n + 1 \in 1..Len(alarmWork) /\ 1 \in 1..Len(alarmWork) /\ n + 1 # 1
      /\ rest[n] = alarmWork[n + 1]
  BY <1>1
<1>3. \A k \in 1..Len(rest) : k + 1 \in 1..Len(alarmWork) /\ rest[k] = alarmWork[k + 1]
  BY <1>1
<1>4. \A k \in 1..Len(rest) : k + 1 = n + 1 => k = n
  BY <1>1
<1>. QED
  BY <1>2, <1>3, <1>4 DEF Awaited

\* The task and the alarm queue stay well formed: an ensure operation is queued by the
\* task it will wake, which waits for it.
LEMMA TaskType ==
  ASSUME TypeInv, [Next]_vars
  PROVE  TaskTyped'
<1> USE DEF TaskTyped, TaskRow, Awaited, Surveyed, NoTask, AlarmOps
<1>1. TaskTyped /\ settings.destination \in Destinations
  BY DEF TypeInv, TypeOK, Settings
<1>2. CASE UNCHANGED <<task, alarmWork, pending>>
  BY <1>1, <1>2
<1>3. CASE \E c \in Captures : Observe(c)
  BY <1>1, <1>3 DEF Observe, Items
<1>4. CASE Store
  BY <1>1, <1>4 DEF Store
<1>5. CASE Reject \/ FlushTask \/ Clear
  BY <1>1, <1>5 DEF Reject, FlushTask, Clear
<1>6. CASE BeginDiscard
  BY <1>1, <1>6 DEF BeginDiscard
<1>7. CASE Close
  BY <1>1, <1>7 DEF Close, Finish
<1>8. CASE Survey
  BY <1>1, <1>8 DEF Survey
<1>9. CASE Schedule
  <2>1. alarmWork \in Seq(AlarmOps) /\ alarmWork # <<>> /\ alarmWork[1] = Head(alarmWork)
        /\ alarmWork' = Tail(alarmWork) /\ pending' = "unread"
    BY <1>1, <1>9, AlarmQueues DEF Schedule
  <2>2. CASE alarmWork[1] # "settle"
    <3>1. UNCHANGED task
      BY <1>9, <2>1, <2>2 DEF Schedule
    <3>. QED
      BY <1>1, <2>1, <3>1, TailAwaited, AlarmQueues
  <2>3. CASE alarmWork[1] = "settle"
    <3>1. task.pc = "settling" /\ task' = [task EXCEPT !.pc = "clearing"]
      BY <1>1, <1>9, <2>1, <2>3, AlarmQueues DEF Schedule
    <3>2. \A n \in 1..Len(alarmWork') : alarmWork'[n] \notin {"ensure", "settle"}
      BY <1>1, <2>1, <2>3, <3>1, TailAwaited
    <3>. QED
      BY <1>1, <2>1, <3>1, <3>2, AlarmQueues
  <2>. QED
    BY <2>2, <2>3
<1>10. CASE Ensure
  <2>1. alarmWork \in Seq(AlarmOps) /\ alarmWork # <<>> /\ alarmWork[1] = "ensure"
        /\ alarmWork' = Tail(alarmWork) /\ task' = [task EXCEPT !.pc = "flushing"]
        /\ UNCHANGED pending
    BY <1>1, <1>10, AlarmQueues DEF Ensure
  <2>2. task.pc = "arming"
    BY <1>1, <2>1, AlarmQueues
  <2>3. \A n \in 1..Len(alarmWork') : alarmWork'[n] \notin {"ensure", "settle"}
    BY <1>1, <2>1, <2>2, TailAwaited
  <2>4. pending = "unread"
    BY <1>1, <2>1, AlarmQueues
  <2>. QED
    BY <1>1, <2>1, <2>2, <2>3, <2>4, AlarmQueues
<1>11. CASE alarmWork' = <<"startup">> /\ UNCHANGED <<task, pending>> /\ ~alive
  <2>1. alarmWork' \in Seq(AlarmOps) /\ \A n \in 1..Len(alarmWork') : alarmWork'[n] = "startup"
    BY <1>11, AlarmQueues
  <2>2. pending = "unread"
    BY <1>11 DEF TypeInv, Asleep
  <2>. QED
    BY <1>1, <1>11, <2>1, <2>2
<1>12. CASE Kill
  BY <1>1, <1>12, AlarmQueues DEF Kill, WorkAfterStop
<1>13. CASE FireAlarm
  <2>1. task' = task /\ pending' = pending
    BY <1>13 DEF FireAlarm
  <2>2. CASE alive
    <3>1. alarmWork' = alarmWork
      BY <1>13, <2>2, Zenon DEF FireAlarm
    <3>. QED
      BY <1>1, <2>1, <3>1
  <2>3. CASE ~alive
    BY <1>11, <1>13, <2>1, <2>3 DEF FireAlarm
  <2>. QED
    BY <2>2, <2>3
<1>14. CASE \E restart, kept \in BOOLEAN : Wake(restart, kept)
  BY <1>11, <1>14 DEF Wake
<1>. QED
  BY <1>2, <1>3, <1>4, <1>5, <1>6, <1>7, <1>8, <1>9, <1>10, <1>12, <1>13, <1>14, Writers
     DEF TaskActor, TaskStep, AlarmStep

\* A worker that is stopped, or starts, has an empty memory.
LEMMA AsleepStep ==
  ASSUME TypeInv, [Next]_vars
  PROVE  Asleep'
<1> SUFFICES ASSUME ~alive' PROVE task' = NoTask /\ drain' = NoDrain /\ ~discarding'
                                 /\ alarmWork' = <<>> /\ pending' = "unread"
  BY DEF Asleep
<1> USE DEF NoTask, NoDrain
<1>1. CASE Kill
  BY <1>1 DEF Kill, WorkAfterStop
<1>2. CASE ~alive
  <2>1. task.pc = "idle" /\ drain.pc = "none" /\ alarmWork = <<>> /\ pending = "unread"
        /\ task = NoTask /\ drain = NoDrain /\ ~discarding
    BY <1>2 DEF TypeInv, Asleep
  <2>2. ~(Store \/ Reject \/ FlushTask \/ BeginDiscard \/ Clear \/ DrainStep \/ AlarmStep \/ Timeout)
    BY <2>1 DEF Store, Reject, FlushTask, BeginDiscard, Clear, DrainStep, Open, ListItems,
       SkipDeleted, Check,
       Send, Remove, Close, Done, AlarmStep, Survey, Schedule, Ensure, Timeout
  <2>3. ~(OwnerStep \/ Kill \/ FireAlarm \/ \E c \in Captures : Observe(c))
    BY <1>2 DEF OwnerStep, SetPaused, SaveSettings, AcceptConsent, AskDiscard, Change, Kill,
       FireAlarm, Observe
  <2>4. ~\E restart, kept \in BOOLEAN : Wake(restart, kept)
    BY DEF Wake
  <2>. QED
    BY <2>1, <2>2, <2>3, <2>4 DEF Next, TaskStep, Deliver, Refuse, AwaitsReply, vars
<1>3. CASE alive /\ ~Kill
  BY <1>3 DEF Next, vars, TaskStep, DrainStep, AlarmStep, OwnerStep, Observe, Store, Reject,
     FlushTask, BeginDiscard, Clear, Open, ListItems, SkipDeleted, Check, Send, Deliver, Refuse,
     Timeout, Remove, Close, Survey, Schedule, Ensure, FireAlarm, SetPaused, SaveSettings,
     AcceptConsent, AskDiscard, Change, Wake
<1>. QED
  BY <1>1, <1>2, <1>3

------------------------------------------------------------------------------
(* The rest of the state. *)

durable == <<settings, queue, created, wire, backend, accepted, discarded, late, stores,
             changes, failures, kills>>

DurableTyped ==
  /\ settings \in Settings
  /\ queue \in SUBSET Items
  /\ created \in [Items -> Nat]
  /\ wire \in SUBSET Items
  /\ backend \in [Destinations -> SUBSET Captures]
  /\ accepted \in SUBSET Items /\ discarded \in SUBSET Items
  /\ late \in Nat /\ stores \in Nat /\ changes \in Nat /\ failures \in Nat /\ kills \in Nat

DurableActor ==
  \/ Store \/ Clear \/ Send \/ Remove \/ Timeout \/ OwnerStep \/ Kill
  \/ \E i \in Items : Deliver(i) \/ Refuse(i)

\* The other actions leave the browser's storage, the network and the counters alone.
LEMMA DurableWriters ==
  ASSUME [Next]_vars
  PROVE  UNCHANGED durable \/ DurableActor
  BY DEF Next, vars, durable, DurableActor, TaskStep, DrainStep, AlarmStep, OwnerStep, Observe,
     Reject, FlushTask, BeginDiscard, Open, ListItems, SkipDeleted, Check, Close, Survey,
     Schedule, Ensure, FireAlarm, Wake, browser, network, history, bounds

\* What outlives the service worker, and the history, stay well formed.
LEMMA DurableType ==
  ASSUME TypeInv, [Next]_vars
  PROVE  DurableTyped'
<1> USE DEF DurableTyped
<1>1. DurableTyped /\ (task.pc = "storing" => task.item \in Items)
      /\ (drain.pc = "checked" => drain.item \in Items /\ drain.destination \in Destinations)
  BY DEF TypeInv, TypeOK, DrainTyped, Delivering
<1>2. CASE UNCHANGED durable
  BY <1>1, <1>2 DEF durable
<1>3. CASE Store
  <2>1. task.item \in Items
    BY <1>1, <1>3 DEF Store
  <2>2. queue' \in SUBSET Items /\ created' \in [Items -> Nat] /\ stores' \in Nat
    <3>1. CASE task.item \in queue
      BY <1>1, <1>3, <3>1 DEF Store, Put
    <3>2. CASE task.item \notin queue
      <4>1. stores \in Nat /\ stores + 1 \in Nat
        BY <1>1
      <4>. QED
        BY <1>1, <1>3, <2>1, <3>2, <4>1 DEF Store, Put
    <3>. QED
      BY <3>1, <3>2
  <2>. QED
    BY <1>1, <1>3, <2>1, <2>2 DEF Store, network
<1>4. CASE Clear
  BY <1>1, <1>4 DEF Clear, network, bounds
<1>5. CASE Send
  <2>1. wire' \in SUBSET Items
    BY <1>1, <1>5 DEF Send, Items
  <2>2. late' \in Nat
    BY <1>1, <1>5 DEF Send
  <2>. QED
    BY <1>1, <1>5, <2>1, <2>2 DEF Send, browser, bounds
<1>6. CASE Remove
  BY <1>1, <1>6 DEF Remove, network, history, bounds
<1>7. CASE Timeout
  BY <1>1, <1>7 DEF Timeout, browser, network, history
<1>8. CASE OwnerStep
  <2>1. settings' \in Settings
    BY <1>1, <1>8 DEF OwnerStep, SetPaused, SaveSettings, AcceptConsent, AskDiscard, Settings,
       Paused
  <2>2. Change
    BY <1>8 DEF OwnerStep, SetPaused, SaveSettings, AcceptConsent, AskDiscard
  <2>3. late' = 0 \/ UNCHANGED late
    BY <2>2, Zenon DEF Change
  <2>. QED
    BY <1>1, <2>1, <2>2, <2>3 DEF Change, network
<1>9. CASE Kill
  BY <1>1, <1>9 DEF Kill, browser, network, history
<1>10. ASSUME NEW i \in Items, Deliver(i)
       PROVE  DurableTyped'
  <2>1. backend' \in [Destinations -> SUBSET Captures] /\ wire' \in SUBSET Items
    BY <1>1, <1>10 DEF Deliver, Items
  <2>. QED
    BY <1>1, <1>10, <2>1 DEF Deliver, browser, history, bounds
<1>11. ASSUME NEW i \in Items, Refuse(i)
       PROVE  DurableTyped'
  BY <1>1, <1>11 DEF Refuse, browser, history
<1>. QED
  BY <1>2, <1>3, <1>4, <1>5, <1>6, <1>7, <1>8, <1>9, <1>10, <1>11, DurableWriters
     DEF DurableActor

\* The flags of the browser and of the worker stay truth values.
LEMMA FlagType ==
  ASSUME TypeInv, [Next]_vars
  PROVE  alarm' \in BOOLEAN /\ alive' \in BOOLEAN /\ discarding' \in BOOLEAN
<1>1. alarm \in BOOLEAN /\ alive \in BOOLEAN /\ discarding \in BOOLEAN
  BY DEF TypeInv, TypeOK
<1>. QED
  BY <1>1 DEF Next, vars, TaskStep, DrainStep, AlarmStep, OwnerStep, Observe, Store, Reject,
     FlushTask, BeginDiscard, Clear, Open, ListItems, SkipDeleted, Check, Send, Deliver, Refuse,
     Timeout, Remove, Close, Survey, Schedule, Ensure, FireAlarm, SetPaused, SaveSettings,
     AcceptConsent, AskDiscard, Change, Kill, Wake, browser

\* Every step preserves the strengthened type invariant.
LEMMA StepType ==
  ASSUME TypeInv, [Next]_vars
  PROVE  TypeInv'
  BY DrainType, TaskType, DurableType, FlagType, AsleepStep
     DEF TypeInv, TypeOK, TaskTyped, AlarmOps, DurableTyped

\* The strengthened type invariant holds throughout.
LEMMA TypeInvariant == Spec => []TypeInv
  BY InitType, StepType, PTL DEF Spec

\* The outbox is well typed: in particular the alarm operation that resumes handleCapture
\* finds the very task that asked for it, whatever stops and starts of the worker.
THEOREM OutboxTypeCorrect == Spec => []TypeOK
  BY TypeInvariant, PTL DEF TypeInv

------------------------------------------------------------------------------
(* Pausing. *)

\* Only Check reaches a delivery whose settings have been read.
LEMMA CheckedBy ==
  ASSUME TypeInv, [Next]_vars, drain'.pc = "checked"
  PROVE  UNCHANGED drain \/ Check
<1>1. drain \in DrainRow
  BY DEF TypeInv, TypeOK
<1>2. drain' # NoDrain /\ (drain' = Flushed => UNCHANGED drain)
  BY FlushedType DEF NoDrain
<1>3. ASSUME NEW i \in Items, Deliver(i) \/ Refuse(i)
      PROVE  UNCHANGED drain
  BY <1>1, <1>3 DEF Deliver, Refuse, Refused, AwaitsReply, DrainRow
<1>4. CASE DrainStep \/ Timeout
  <2>1. CASE SkipDeleted
    BY <1>1, <2>1 DEF SkipDeleted, DrainRow
  <2>. QED
    BY <1>1, <1>2, <1>4, <2>1 DEF DrainStep, Open, ListItems, Send, Remove, Close, Timeout,
       Refused, DrainRow
<1>5. CASE \E restart, kept \in BOOLEAN : Wake(restart, kept)
  BY <1>2, <1>5 DEF Wake
<1>. QED
  BY <1>2, <1>3, <1>4, <1>5, Writers DEF DrainActor, FlushTask, Clear, FireAlarm, OwnerStep,
     SetPaused, SaveSettings, AcceptConsent, AskDiscard, Kill

\* A step counts a delivery against the pause only once.
LEMMA PauseStep ==
  ASSUME TypeInv, PauseInv, [Next]_vars
  PROVE  PauseInv'
<1> USE DEF PauseInv, Paused
<1>1. drain \in DrainRow /\ late \in Nat
      /\ settings \in Settings
  BY DEF TypeInv, TypeOK
<1>2. CASE Send
  BY <1>1, <1>2 DEF Send, DrainRow, browser
<1>3. CASE Check
  <2>1. PICK i \in drain.rest : drain' = Checked(i)
    BY <1>3 DEF Check
  <2>2. UNCHANGED <<settings, late>>
    BY <1>3 DEF Check, browser, history
  <2>3. Paused => drain'.pc # "checked"
    BY <1>1, <2>1 DEF Checked, DrainRow
  <2>. QED
    BY <2>2, <2>3
<1>4. CASE OwnerStep
  <2>1. late' = 0 \/ (UNCHANGED late /\ Paused)
    BY <1>4, Zenon DEF OwnerStep, SetPaused, SaveSettings, AcceptConsent, AskDiscard, Change
  <2>2. drain'.pc = "checked" => UNCHANGED drain
    BY <1>4, FlushedType DEF OwnerStep, SetPaused, SaveSettings, AcceptConsent, AskDiscard, NoDrain
  <2>. QED
    BY <2>1, <2>2
<1>5. CASE ~(Send \/ Check \/ OwnerStep)
  <2>1. UNCHANGED <<settings, late>>
    BY <1>5 DEF Next, vars, TaskStep, DrainStep, AlarmStep, Observe, Store, Reject, FlushTask,
       BeginDiscard, Clear, Open, ListItems, SkipDeleted, Deliver, Refuse, Timeout, Remove, Close,
       Survey, Schedule, Ensure, FireAlarm, Kill, Wake, browser, network, history, bounds
  <2>. QED
    BY <1>5, <2>1, CheckedBy
<1>. QED
  BY <1>2, <1>3, <1>4, <1>5

\* However the drain, the owner and the stops of the worker interleave, at most one
\* delivery is sent after the owner paused.
THEOREM PauseCorrect == Spec => []PauseStops
<1>1. Init => PauseInv
  BY DEF Init, PauseInv, NoDrain
<1>2. PauseInv => PauseStops
  BY DEF PauseInv, PauseStops
<1>. QED
  BY <1>1, <1>2, PauseStep, TypeInvariant, PTL DEF Spec

------------------------------------------------------------------------------
(* The retry. *)

\* Appending to the alarm queue leaves an operation that has read nothing yet.
LEMMA AppendUnread ==
  ASSUME TypeInv, NEW op \in AlarmOps, alarmWork' = Append(alarmWork, op), UNCHANGED pending
  PROVE  \E n \in 1..Len(alarmWork') : n # 1 \/ pending' # "none"
<1>1. alarmWork \in Seq(AlarmOps) /\ (pending # "unread" => alarmWork # <<>>)
  BY DEF TypeInv, TypeOK, Surveyed, AlarmOps
<1>2. Len(alarmWork') = Len(alarmWork) + 1 /\ Len(alarmWork) \in Nat
  BY <1>1
<1>3. Len(alarmWork) + 1 \in 1..Len(alarmWork')
  BY <1>2
<1>4. CASE alarmWork = <<>>
  BY <1>1, <1>3, <1>4
<1>5. CASE alarmWork # <<>>
  <2>1. Len(alarmWork) + 1 # 1
    BY <1>1, <1>5, AlarmQueues
  <2>. QED
    BY <1>3, <2>1
<1>. QED
  BY <1>4, <1>5

\* A step that empties the drain queues its alarm work, and so on: the retry of waiting
\* captures is never left to nobody.
LEMMA RetryStep ==
  ASSUME TypeInv, RetryKept, [Next]_vars
  PROVE  RetryKept'
<1> USE DEF RetryKept, Paused
<1>1. alarmWork \in Seq(AlarmOps) /\ pending \in {"unread", "some", "none"}
      /\ alarm \in BOOLEAN /\ alive \in BOOLEAN /\ drain \in DrainRow
      /\ (pending # "unread" => alarmWork # <<>>)
  BY DEF TypeInv, TypeOK, Surveyed, AlarmOps
<1>2. CASE UNCHANGED <<alive, queue, settings, alarm, pending, alarmWork>>
           /\ (drain'.pc = "none" => drain.pc = "none")
  BY <1>2
<1>3. CASE Store
  BY <1>3, AppendUnread DEF Store, AlarmOps
<1>4. CASE Clear
  BY <1>4 DEF Clear
<1>5. CASE Remove
  BY <1>1, <1>5 DEF Remove, DrainRow, history, bounds, network
<1>6. CASE Close
  BY <1>6, AppendUnread DEF Close, Finish, AlarmOps
<1>7. CASE Survey
  <2>1. alarmWork # <<>> /\ UNCHANGED <<queue, settings, alarmWork>>
        /\ (pending' = "some" \/ queue = {} \/ Paused)
    BY <1>7 DEF Survey, browser
  <2>2. 1 \in 1..Len(alarmWork)
    BY <1>1, <2>1, AlarmQueues
  <2>. QED
    BY <2>1, <2>2
<1>8. CASE Schedule
  <2>1. UNCHANGED <<queue, settings, drain, alive>> /\ pending' = "unread"
        /\ pending # "unread" /\ alarmWork' = Tail(alarmWork)
    BY <1>8 DEF Schedule
  <2>2. CASE pending = "some"
    BY <1>8, <2>1, <2>2 DEF Schedule
  <2>3. ASSUME NEW n \in 1..Len(alarmWork), n # 1
        PROVE  \E k \in 1..Len(alarmWork') : TRUE
    <3>1. Len(alarmWork') = Len(alarmWork) - 1 /\ Len(alarmWork) \in Nat
      BY <1>1, <2>1, AlarmQueues
    <3>. QED
      BY <2>3, <3>1
  <2>4. CASE pending = "none"
    BY <2>1, <2>3, <2>4
  <2>. QED
    BY <1>1, <2>1, <2>2, <2>4
<1>9. CASE Ensure
  <2>1. pending = "unread"
    BY <1>9 DEF Ensure, TypeInv, Surveyed
  <2>. QED
    BY <1>9, <2>1 DEF Ensure
<1>10. CASE FireAlarm \/ (\E paused \in BOOLEAN : SetPaused(paused))
            \/ (\E d \in Destinations, filtered \in SUBSET Captures : SaveSettings(d, filtered))
            \/ AcceptConsent
  <2>1. drain' = Flushed
    BY <1>10 DEF FireAlarm, SetPaused, SaveSettings, AcceptConsent
  <2>2. Flushed.pc # "none"
    BY <1>1, FlushedType DEF Flushed, NoDrain
  <2>. QED
    BY <2>1, <2>2
<1>11. CASE AskDiscard
  <2>1. settings'.paused
    BY <1>11 DEF AskDiscard, TypeInv, TypeOK, Settings
  <2>. QED
    BY <2>1
<1>12. CASE Kill
  BY <1>12 DEF Kill
<1>13. CASE \E restart, kept \in BOOLEAN : Wake(restart, kept)
  <2>1. alarmWork' = <<"startup">> /\ pending' = "unread"
    BY <1>13 DEF Wake, TypeInv, Asleep
  <2>. QED
    BY <2>1, AlarmQueues
<1>14. ASSUME NEW i \in Items, Deliver(i) \/ Refuse(i)
       PROVE  RetryKept'
  <2>1. drain'.pc = "none" => drain.pc = "none"
    BY <1>1, <1>14 DEF Deliver, Refuse, Refused, AwaitsReply, DrainRow
  <2>. QED
    BY <1>2, <1>14, <2>1 DEF Deliver, Refuse, browser
<1>15. CASE FlushTask \/ BeginDiscard \/ Reject \/ \E c \in Captures : Observe(c)
  <2>1. drain'.pc = "none" => drain.pc = "none"
    BY <1>1, <1>15, FlushedType DEF FlushTask, BeginDiscard, Reject, Observe, Flushed
  <2>. QED
    BY <1>2, <1>15, <2>1 DEF FlushTask, BeginDiscard, Reject, Observe, browser
<1>16. CASE Open \/ ListItems \/ SkipDeleted \/ Check \/ Send \/ Timeout
  <2>1. drain.pc # "none"
    BY <1>16 DEF Open, ListItems, SkipDeleted, Check, Send, Timeout
  <2>2. drain'.pc # "none"
    BY <1>1, <1>16 DEF Open, ListItems, SkipDeleted, Check, Checked, Send, Timeout, Refused,
       DrainRow
  <2>. QED
    BY <2>2
<1>17. CASE UNCHANGED vars
  BY <1>17 DEF vars
<1>. QED
  BY <1>3, <1>4, <1>5, <1>6, <1>7, <1>8, <1>9, <1>10, <1>11, <1>12, <1>13, <1>14, <1>15, <1>16,
     <1>17 DEF Next, TaskStep, DrainStep, AlarmStep, OwnerStep

\* Whatever order drains, captures, pauses, discards and stops of the worker end in, a
\* worker at rest has an alarm set for the captures it keeps.
THEOREM RetryCorrect == Spec => []RetryArmed
<1>1. Init => RetryKept
  BY DEF Init, RetryKept
<1>2. TypeInv /\ RetryKept => RetryArmed
  BY AlarmQueues DEF RetryKept, RetryArmed, NoDrain, TypeInv, Surveyed
<1>. QED
  BY <1>1, <1>2, RetryStep, TypeInvariant, PTL DEF Spec

------------------------------------------------------------------------------
(* The promise. *)

\* Every step keeps what the queue, the drain and the network hold within what was
\* accepted, and the drain to its own destination.
LEMMA ConveyStep ==
  ASSUME TypeInv, Conveyed, [Next]_vars
  PROVE  Conveyed'
<1> USE DEF Conveyed, Received
<1>. DEFINE Holds(d) ==
       /\ \A i \in d.rest : i \in accepted /\ i[2] = d.destination
       /\ d.pc \in {"checked", "waiting", "acked"} =>
            d.item \in accepted /\ d.item[2] = d.destination
       /\ d.pc = "acked" => Received(d.item)
       /\ d.pc = "opening" => d.rest = {}
<1>1. drain \in DrainRow /\ Holds(drain) /\ Holds(NoDrain) /\ Holds(Flushed)
  BY FlushedType DEF TypeInv, TypeOK, NoDrain
<1>2. queue \subseteq accepted /\ wire \subseteq accepted /\ accepted \in SUBSET Items
      /\ backend \in [Destinations -> SUBSET Captures]
  BY DEF TypeInv, TypeOK
<1>3. CASE UNCHANGED <<queue, wire, accepted, backend>> /\ Holds(drain')
  BY <1>2, <1>3
<1>4. CASE Store
  <2>1. queue' \subseteq queue \cup {task.item} /\ accepted' = accepted \cup {task.item}
        /\ UNCHANGED <<drain, wire, backend>>
    BY <1>4 DEF Store, Put, network
  <2>. QED
    BY <1>1, <1>2, <2>1
<1>5. CASE Clear
  BY <1>1, <1>2, <1>5 DEF Clear, network
<1>6. CASE Remove
  <2>1. Holds(drain')
    BY <1>1, <1>6 DEF Remove, DrainRow
  <2>. QED
    BY <1>2, <1>6, <2>1 DEF Remove, network, history
<1>7. CASE Send
  <2>1. Holds(drain')
    BY <1>1, <1>7 DEF Send, DrainRow
  <2>2. <<drain.item[1], drain.destination>> = drain.item /\ drain.item \in accepted
    BY <1>1, <1>2, <1>7 DEF Send, Items
  <2>. QED
    BY <1>2, <1>7, <2>1, <2>2 DEF Send, browser
<1>8. ASSUME NEW i \in Items, Deliver(i)
      PROVE  Conveyed'
  <2>1. backend' = [backend EXCEPT ![i[2]] = @ \cup {i[1]}] /\ i[2] \in Destinations
    BY <1>8 DEF Deliver, Items
  <2>2. \A k \in Items : Received(k) => Received(k)'
    BY <1>2, <2>1 DEF Items
  <2>3. Received(i)'
    BY <1>2, <2>1
  <2>4. UNCHANGED <<queue, accepted>> /\ wire' \subseteq wire
    BY <1>8 DEF Deliver, browser, history
  <2>5. CASE AwaitsReply(i)
    BY <1>1, <1>2, <1>8, <2>2, <2>3, <2>4, <2>5 DEF Deliver, AwaitsReply, DrainRow
  <2>6. CASE ~AwaitsReply(i)
    BY <1>1, <1>2, <1>8, <2>2, <2>4, <2>6 DEF Deliver
  <2>. QED
    BY <2>5, <2>6
<1>9. ASSUME NEW i \in Items, Refuse(i)
      PROVE  Conveyed'
  <2>1. Holds(drain')
    BY <1>1, <1>9 DEF Refuse, Refused, DrainRow
  <2>. QED
    BY <1>2, <1>9, <2>1 DEF Refuse, browser, history
<1>10. CASE Open \/ Timeout
  <2>1. Holds(drain')
    BY <1>1, <1>10 DEF Open, Timeout, Refused, DrainRow
  <2>. QED
    BY <1>3, <1>10, <2>1 DEF Open, Timeout, browser, network, history
<1>11. CASE ListItems
  BY <1>1, <1>2, <1>3, <1>11 DEF ListItems, List, DrainRow, browser, network, history
<1>12. CASE SkipDeleted
  BY <1>1, <1>3, <1>12 DEF SkipDeleted, DrainRow, browser, network, history
<1>13. CASE Check
  <2>1. PICK i \in drain.rest : drain' = Checked(i)
    BY <1>13 DEF Check
  <2>2. Holds(drain')
    BY <1>1, <2>1 DEF Checked, DrainRow
  <2>. QED
    BY <1>3, <1>13, <2>2 DEF Check, browser, network, history
<1>14. CASE FlushTask \/ Close \/ FireAlarm \/ Kill
  BY <1>1, <1>3, <1>14 DEF FlushTask, Close, FireAlarm, Kill, browser, network, history
<1>15. CASE OwnerStep
  <2>1. Holds(drain')
    BY <1>1, <1>15 DEF OwnerStep, SetPaused, SaveSettings, AcceptConsent, AskDiscard
  <2>2. UNCHANGED <<queue, wire, accepted, backend>>
    BY <1>15 DEF OwnerStep, SetPaused, SaveSettings, AcceptConsent, AskDiscard, Change, network
  <2>. QED
    BY <1>3, <2>1, <2>2
<1>16. CASE \E restart, kept \in BOOLEAN : Wake(restart, kept)
  BY <1>1, <1>3, <1>16 DEF Wake, network, history
<1>17. CASE UNCHANGED <<queue, wire, accepted, backend, drain>>
  BY <1>1, <1>3, <1>17
<1>18. CASE BeginDiscard \/ Reject \/ AlarmStep \/ \E c \in Captures : Observe(c)
  BY <1>17, <1>18 DEF BeginDiscard, Reject, AlarmStep, Survey, Schedule, Ensure, Observe, browser,
     network, history
<1>. QED
  BY <1>4, <1>5, <1>6, <1>7, <1>8, <1>9, <1>10, <1>11, <1>12, <1>13, <1>14, <1>15, <1>16, <1>17,
     <1>18 DEF Next, vars, TaskStep, DrainStep

\* What is kept, held or on its way was accepted, throughout.
LEMMA ConveyInvariant == Spec => []Conveyed
<1>1. Init => Conveyed
  BY DEF Init, Conveyed, NoDrain
<1>. QED
  BY <1>1, ConveyStep, TypeInvariant, PTL DEF Spec

\* Each step of the outbox is a step of the abstract specification, or invisible in it.
LEMMA PromiseStep ==
  ASSUME TypeInv, Conveyed, [Next]_vars
  PROVE  [Promise!Next]_Promise!vars
<1> USE DEF Promise!Next, Promise!vars
<1>. DEFINE received == {i \in Items : i[1] \in backend[i[2]]}
            visible == <<accepted, queue, received, discarded>>
<1>1. queue \in SUBSET Items /\ accepted \in SUBSET Items /\ wire \subseteq accepted
      /\ backend \in [Destinations -> SUBSET Captures]
  BY DEF TypeInv, TypeOK, Conveyed
<1>2. CASE UNCHANGED <<accepted, queue, backend, discarded>>
  BY <1>2
<1>3. CASE Store
  <2>1. task.item \in Items
    BY <1>3 DEF Store, TypeInv, TypeOK
  <2>2. Promise!Accept(task.item)
    BY <1>3, <2>1 DEF Store, Put, Promise!Accept, network
  <2>. QED
    BY <2>1, <2>2
<1>4. CASE Clear
  <2>1. Promise!Discard
    BY <1>4 DEF Clear, Promise!Discard, network
  <2>. QED
    BY <2>1
<1>5. CASE Remove
  <2>1. drain.item \in Items /\ Received(drain.item)
    BY <1>5, <1>1 DEF Remove, Conveyed
  <2>2. Promise!Release(drain.item)
    BY <1>5, <2>1 DEF Remove, Promise!Release, Received, network, history
  <2>. QED
    BY <2>1, <2>2
<1>6. ASSUME NEW i \in Items, Deliver(i)
      PROVE  Promise!Next
  <2>1. received' = received \cup {i}
    BY <1>1, <1>6 DEF Deliver, Items
  <2>2. Promise!Receive(i)
    BY <1>1, <1>6, <2>1 DEF Deliver, Promise!Receive, browser, history
  <2>. QED
    BY <2>2
<1>7. CASE ~(Store \/ Clear \/ Remove \/ \E i \in Items : Deliver(i))
  <2>1. UNCHANGED <<accepted, queue, backend, discarded>>
    BY <1>7 DEF Next, vars, TaskStep, DrainStep, AlarmStep, OwnerStep, Observe, Reject, FlushTask,
       BeginDiscard, Open, ListItems, SkipDeleted, Check, Send, Refuse, Timeout, Close, Survey,
       Schedule, Ensure, FireAlarm, SetPaused, SaveSettings, AcceptConsent, AskDiscard, Change, Kill, Wake,
       browser, network, history, bounds
  <2>. QED
    BY <1>2, <2>1
<1>. QED
  BY <1>3, <1>4, <1>5, <1>6, <1>7

\* The outbox implements the promise: a capture it accepted stays on the device until the
\* backend it was captured for has it, or the owner discards it, and no other gets it.
THEOREM PromiseCorrect == Spec => KeepsPromise
<1>1. Init => Promise!Init
  BY DEF Init, Promise!Init, Items
<1>. QED
  BY <1>1, PromiseStep, TypeInvariant, ConveyInvariant, PTL
     DEF Spec, KeepsPromise, Promise!Spec
=============================================================================
