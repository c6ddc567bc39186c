---------------------------- MODULE CaptureOutbox ----------------------------
(***************************************************************************)
(* The browser extension's capture outbox: an IndexedDB queue filled by    *)
(* handleCapture, drained to the backend by a single-flight loop, with a   *)
(* one-shot retry alarm, while the owner pauses, moves to another backend, *)
(* filters accounts or discards the queue, and the service worker may be   *)
(* stopped at any time.                                                    *)
(*                                                                         *)
(* Each action is the code between two awaits.  Three activities share the *)
(* event loop: the task queue (enqueueTask), the drain (captureDrain) and  *)
(* the alarm queue (withDeliveryAlarm).                                    *)
(***************************************************************************)
EXTENDS Naturals, Sequences, FiniteSets

CONSTANTS
  Captures,      \* ingest payloads
  Destinations,  \* backend URLs
  MaxItems,      \* MAX_ITEMS of the store
  MaxStores,     \* bound: writes to the store
  MaxChanges,    \* bound: owner's changes of settings and discards
  MaxFailures,   \* bound: refused or timed-out deliveries
  MaxKills,      \* bound: stops of the service worker
  None           \* no item

Items == Captures \X Destinations   \* an item's id digests the URL and the payload

ASSUME OutboxAssumption ==
  /\ None \notin Items
  /\ {MaxItems, MaxStores, MaxChanges, MaxFailures, MaxKills} \subseteq Nat

VARIABLES
  \* kept by the browser across stops of the service worker
  settings,   \* the stored pause, the URL consented to, backendUrl, and the captures
              \* that the current filters hold back
  queue,      \* the captures and metadata stores
  created,    \* createdAt of the queued items
  alarm,      \* OUTBOX_ALARM is set
  \* the memory of the service worker
  alive,
  task,       \* the running task of enqueueTask
  discarding, \* a discard task waits in enqueueTask
  drain,      \* captureDrain
  alarmWork,  \* operations queued by withDeliveryAlarm; the head is running
  pending,    \* what the running operation has read: "unread", "some" or "none"
  \* the network and the backends
  wire,       \* requests on their way
  backend,    \* captures each backend stored durably
  \* history and bounds
  accepted, discarded, late, stores, changes, failures, kills

browser == <<settings, queue, created, alarm>>
network == <<wire, backend>>
history == <<accepted, discarded, late>>
bounds  == <<stores, changes, failures, kills>>
vars    == <<settings, queue, created, alarm, alive, task, discarding, drain, alarmWork,
             pending, wire, backend, accepted, discarded, late, stores, changes,
             failures, kills>>

NoTask  == [pc |-> "idle", item |-> None]
NoDrain == [pc |-> "none", destination |-> None, rest |-> {}, item |-> None]

Settings == [paused : BOOLEAN, consent : Destinations, destination : Destinations,
             filtered : SUBSET Captures]

TaskRow == [pc : {"idle", "storing", "arming", "flushing", "awaiting", "settling",
                  "clearing"},
            item : Items \cup {None}]

AlarmOps == {"ensure", "finish", "settle", "startup"}

DrainRow == [pc : {"none", "opening", "listing", "next", "checked", "waiting", "acked",
                   "closing"},
             destination : Destinations \cup {None}, rest : SUBSET Items,
             item : Items \cup {None}]

TypeOK ==
  /\ settings \in Settings
  /\ queue \in SUBSET Items
  /\ created \in [Items -> Nat]
  /\ alarm \in BOOLEAN /\ alive \in BOOLEAN /\ discarding \in BOOLEAN
  /\ task \in TaskRow
  /\ task.pc \in {"storing", "arming", "flushing"} => task.item \in Items
  /\ drain \in DrainRow
  /\ alarmWork \in Seq(AlarmOps)
  /\ pending \in {"unread", "some", "none"}
  /\ wire \in SUBSET Items
  /\ backend \in [Destinations -> SUBSET Captures]
  /\ accepted \in SUBSET Items /\ discarded \in SUBSET Items
  /\ late \in Nat /\ stores \in Nat /\ changes \in Nat /\ failures \in Nat /\ kills \in Nat

\* The owner has enabled capture for her backend.
Init ==
  /\ \E d \in Destinations :
       settings = [paused |-> FALSE, consent |-> d, destination |-> d, filtered |-> {}]
  /\ queue = {}
  /\ created = [i \in Items |-> 0]
  /\ alarm = FALSE
  /\ alive = TRUE
  /\ task = NoTask
  /\ discarding = FALSE
  /\ drain = NoDrain
  /\ alarmWork = <<>>
  /\ pending = "unread"
  /\ wire = {}
  /\ backend = [d \in Destinations |-> {}]
  /\ accepted = {} /\ discarded = {}
  /\ late = 0 /\ stores = 0 /\ changes = 0 /\ failures = 0 /\ kills = 0

\* getSettings: consent is given to one backend, and capture pauses without it.
Paused == settings.paused \/ settings.consent # settings.destination

\* flushCaptureOutbox: single flight.
Flushed == IF drain.pc = "none" THEN [NoDrain EXCEPT !.pc = "opening"] ELSE drain

------------------------------------------------------------------------------
(* The task queue: handleCapture and the discard task. *)

\* handleCapture reads the settings first; the item is pinned to their destination.
Observe(c) ==
  /\ alive /\ task = NoTask /\ ~discarding
  /\ ~Paused
  /\ c \notin settings.filtered
  /\ task' = [pc |-> "storing", item |-> <<c, settings.destination>>]
  /\ UNCHANGED <<browser, alive, discarding, drain, alarmWork, pending, network, history, bounds>>

\* put: identity and capacity are checked again inside the write transaction.
Full == Cardinality(queue) >= MaxItems

Put(i) ==
  IF i \in queue THEN UNCHANGED <<queue, created, stores>>
  ELSE /\ queue' = queue \cup {i}
       /\ created' = [created EXCEPT ![i] = stores + 1]
       /\ stores' = stores + 1

\* The recovery alarm is requested before the sender is acknowledged.
Store ==
  /\ task.pc = "storing"
  /\ task.item \in queue \/ ~Full
  /\ stores < MaxStores
  /\ Put(task.item)
  /\ accepted' = accepted \cup {task.item}
  /\ task' = [task EXCEPT !.pc = "arming"]
  /\ alarmWork' = Append(alarmWork, "ensure")
  /\ UNCHANGED <<settings, alarm, alive, discarding, drain, pending, network, discarded, late,
                 changes, failures, kills>>

\* Capacity or storage errors reach the sender; nothing is evicted.
Reject ==
  /\ task.pc = "storing"
  /\ task' = NoTask
  /\ UNCHANGED <<browser, alive, discarding, drain, alarmWork, pending, network, history, bounds>>

FlushTask ==
  /\ task.pc = "flushing"
  /\ task' = NoTask
  /\ drain' = Flushed
  /\ UNCHANGED <<browser, alive, discarding, alarmWork, pending, network, history, bounds>>

\* The discard task waits for the drain it finds, its alarm work included, ...
BeginDiscard ==
  /\ discarding /\ task = NoTask
  /\ discarding' = FALSE
  /\ task' = [NoTask EXCEPT !.pc = IF drain.pc = "none" THEN "clearing" ELSE "awaiting"]
  /\ UNCHANGED <<browser, alive, drain, alarmWork, pending, network, history, bounds>>

\* ... and then empties the store.
Clear ==
  /\ task.pc = "clearing"
  /\ task' = NoTask
  /\ queue' = {}
  /\ discarded' = discarded \cup queue
  /\ drain' = Flushed
  /\ UNCHANGED <<settings, created, alarm, alive, discarding, alarmWork, pending, network,
                 accepted, late, bounds>>

------------------------------------------------------------------------------
(* The drain: deliverCaptureOutbox and drainCaptures. *)

Open ==
  /\ drain.pc = "opening"
  /\ drain' = IF Paused THEN [drain EXCEPT !.pc = "closing"]
              ELSE [drain EXCEPT !.pc = "listing", !.destination = settings.destination]
  /\ UNCHANGED <<browser, alive, task, discarding, alarmWork, pending, network, history, bounds>>

List == {i \in queue : i[2] = drain.destination}

\* iterate: the metadata of one destination, sorted by createdAt.
ListItems ==
  /\ drain.pc = "listing"
  /\ drain' = [drain EXCEPT !.pc = "next", !.rest = List]
  /\ UNCHANGED <<browser, alive, task, discarding, alarmWork, pending, network, history, bounds>>

Oldest(i) == i \in drain.rest /\ \A k \in drain.rest : created[i] <= created[k]

\* The batch that holds the next record was read after it was deleted.
SkipDeleted ==
  /\ drain.pc = "next"
  /\ \E i \in drain.rest :
       /\ Oldest(i)
       /\ i \notin queue
       /\ drain' = [drain EXCEPT !.rest = @ \ {i}]
  /\ UNCHANGED <<browser, alive, task, discarding, alarmWork, pending, network, history, bounds>>

\* Faulty: only the destination is read again.
CheckOnce(i) ==
  IF settings.destination # drain.destination
  THEN [drain EXCEPT !.pc = "closing"]
  ELSE [drain EXCEPT !.pc = "checked", !.rest = @ \ {i}, !.item = i]
\* Faulty: a filtered capture ends the drain.
Blocked(i) ==
  IF Paused \/ settings.destination # drain.destination \/ i[1] \in settings.filtered
  THEN [drain EXCEPT !.pc = "closing"]
  ELSE [drain EXCEPT !.pc = "checked", !.rest = @ \ {i}, !.item = i]
\* Settings are read again before each delivery: an error ends the drain, a filtered
\* capture is passed over.
Checked(i) ==
  IF Paused \/ settings.destination # drain.destination
  THEN [drain EXCEPT !.pc = "closing"]
  ELSE IF i[1] \in settings.filtered THEN [drain EXCEPT !.rest = @ \ {i}]
  ELSE [drain EXCEPT !.pc = "checked", !.rest = @ \ {i}, !.item = i]

Check ==
  /\ drain.pc = "next"
  /\ \E i \in drain.rest : Oldest(i) /\ drain' = Checked(i)
  /\ UNCHANGED <<browser, alive, task, discarding, alarmWork, pending, network, history, bounds>>

Send ==
  /\ drain.pc = "checked"
  /\ wire' = wire \cup {<<drain.item[1], drain.destination>>}
  /\ late' = IF Paused THEN late + 1 ELSE late
  /\ drain' = [drain EXCEPT !.pc = "waiting"]
  /\ UNCHANGED <<browser, alive, task, discarding, alarmWork, pending, backend, accepted,
                 discarded, bounds>>

AwaitsReply(i) == drain.pc = "waiting" /\ drain.item = i

\* The backend commits the capture; its receipt reaches the drain that waits for it.
Deliver(i) ==
  /\ i \in wire
  /\ wire' = wire \ {i}
  /\ backend' = [backend EXCEPT ![i[2]] = @ \cup {i[1]}]
  /\ drain' = IF AwaitsReply(i) THEN [drain EXCEPT !.pc = "acked"] ELSE drain
  /\ UNCHANGED <<browser, alive, task, discarding, alarmWork, pending, history, bounds>>

\* Faulty: an error response is taken for a receipt.
RefusedReleased == [drain EXCEPT !.pc = "acked"]
\* The backend answers with an error or without a receipt, or the request is lost.
Refused == [drain EXCEPT !.pc = "closing"]

Refuse(i) ==
  /\ i \in wire
  /\ failures < MaxFailures
  /\ failures' = failures + 1
  /\ wire' = wire \ {i}
  /\ drain' = IF AwaitsReply(i) THEN Refused ELSE drain
  /\ UNCHANGED <<browser, alive, task, discarding, alarmWork, pending, backend, history, stores,
                 changes, kills>>

\* The request timed out; it may still arrive.
Timeout ==
  /\ drain.pc = "waiting"
  /\ failures < MaxFailures
  /\ failures' = failures + 1
  /\ drain' = Refused
  /\ UNCHANGED <<browser, alive, task, discarding, alarmWork, pending, network, history, stores,
                 changes, kills>>

Remove ==
  /\ drain.pc = "acked"
  /\ queue' = queue \ {drain.item}
  /\ drain' = [drain EXCEPT !.pc = "next", !.item = None]
  /\ UNCHANGED <<settings, created, alarm, alive, task, discarding, alarmWork, pending, network,
                 history, bounds>>

Done == drain.pc = "next" /\ drain.rest = {}

\* Faulty: the alarm is reconciled only after an error.
FinishOnError ==
  IF Done THEN alarmWork
  ELSE Append(alarmWork, IF task.pc = "awaiting" THEN "settle" ELSE "finish")
\* finally: the drain is over, and its alarm work is queued; a discard that waits for
\* this drain goes on after it.
Finish == Append(alarmWork, IF task.pc = "awaiting" THEN "settle" ELSE "finish")

Close ==
  /\ drain.pc = "closing" \/ Done
  /\ drain' = NoDrain
  /\ alarmWork' = Finish
  /\ task' = IF task.pc = "awaiting" THEN [task EXCEPT !.pc = "settling"] ELSE task
  /\ UNCHANGED <<browser, alive, discarding, pending, network, history, bounds>>

------------------------------------------------------------------------------
(* The alarm queue. *)

\* scheduleDeliveryRetry, and the same decision when the worker starts: the settings
\* and the count are read first, ...
Survey ==
  /\ alarmWork # <<>> /\ Head(alarmWork) # "ensure"
  /\ pending = "unread"
  /\ pending' = IF Paused \/ queue = {} THEN "none" ELSE "some"
  /\ UNCHANGED <<browser, alive, task, discarding, drain, alarmWork, network, history, bounds>>

\* ... then the alarm is created or cleared.
Schedule ==
  /\ pending # "unread"
  /\ alarm' = (pending = "some")
  /\ pending' = "unread"
  /\ alarmWork' = Tail(alarmWork)
  /\ task' = IF Head(alarmWork) = "settle" THEN [task EXCEPT !.pc = "clearing"] ELSE task
  /\ UNCHANGED <<settings, queue, created, alive, discarding, drain, network, history, bounds>>

\* ensureDeliveryRetry; handleCapture goes on.
Ensure ==
  /\ alarmWork # <<>> /\ Head(alarmWork) = "ensure"
  /\ alarm' = TRUE
  /\ alarmWork' = Tail(alarmWork)
  /\ task' = [task EXCEPT !.pc = "flushing"]
  /\ UNCHANGED <<settings, queue, created, alive, discarding, drain, pending, network, history,
                 bounds>>

\* onAlarm, which starts the service worker if it was stopped.
FireAlarm ==
  /\ alarm
  /\ alarm' = FALSE
  /\ alive' = TRUE
  /\ alarmWork' = IF alive THEN alarmWork ELSE <<"startup">>
  /\ drain' = Flushed
  /\ UNCHANGED <<settings, queue, created, task, discarding, pending, network, history, bounds>>

------------------------------------------------------------------------------
(* The owner, through the extension's own pages. *)

\* late counts the deliveries sent since the present pause began.
Change ==
  /\ alive
  /\ changes < MaxChanges
  /\ changes' = changes + 1
  /\ late' = IF Paused THEN late ELSE 0
  /\ UNCHANGED <<queue, created, alarm, alive, task, alarmWork, pending, network, accepted,
                 discarded, stores, failures, kills>>

\* SET_CAPTURE_PAUSED: resuming takes consent.
SetPaused(paused) ==
  /\ Change
  /\ paused \/ settings.consent = settings.destination
  /\ settings' = [settings EXCEPT !.paused = paused]
  /\ drain' = Flushed
  /\ UNCHANGED discarding

\* ACCEPT_CAPTURE_CONSENT for the present backend enables capture.
AcceptConsent ==
  /\ Change
  /\ settings' = [settings EXCEPT !.paused = FALSE, !.consent = settings.destination]
  /\ drain' = Flushed
  /\ UNCHANGED discarding

\* handleSaveSettings is a task of enqueueTask; it stores the pause it reads, one for
\* want of consent included.
SaveSettings(d, filtered) ==
  /\ Change
  /\ task = NoTask /\ ~discarding
  /\ settings' = [settings EXCEPT !.paused = Paused, !.destination = d, !.filtered = filtered]
  /\ drain' = Flushed
  /\ UNCHANGED discarding

\* CLEAR_CAPTURE_QUEUE: paused at once, emptied when the task's turn comes.
AskDiscard ==
  /\ Change
  /\ ~discarding
  /\ settings' = [settings EXCEPT !.paused = TRUE]
  /\ discarding' = TRUE
  /\ UNCHANGED drain

------------------------------------------------------------------------------
(* The life of the service worker. *)

\* Faulty: alarm work outlives the worker.
SurvivingWork == alarmWork
\* Stopped or crashed: its promises are gone, the requests they wait for are not.
WorkAfterStop == <<>>

Kill ==
  /\ alive
  /\ kills < MaxKills
  /\ kills' = kills + 1
  /\ alive' = FALSE
  /\ task' = NoTask
  /\ discarding' = FALSE
  /\ drain' = NoDrain
  /\ alarmWork' = WorkAfterStop
  /\ pending' = "unread"
  /\ UNCHANGED <<browser, network, history, stores, changes, failures>>

\* Any listened-to event starts it again (a browser restart may have lost the alarm,
\* and flushes); the module body reconciles the alarm.
Wake(restart, kept) ==
  /\ ~alive
  /\ alive' = TRUE
  /\ alarm' = (alarm /\ (restart => kept))
  /\ alarmWork' = <<"startup">>
  /\ drain' = IF restart THEN Flushed ELSE drain
  /\ UNCHANGED <<settings, queue, created, task, discarding, pending, network, history, bounds>>

TaskStep  == Store \/ Reject \/ FlushTask \/ BeginDiscard \/ Clear
DrainStep == Open \/ ListItems \/ SkipDeleted \/ Check \/ Send \/ Remove \/ Close
AlarmStep == Survey \/ Schedule \/ Ensure

OwnerStep ==
  \/ \E paused \in BOOLEAN : SetPaused(paused)
  \/ \E d \in Destinations, filtered \in SUBSET Captures : SaveSettings(d, filtered)
  \/ AcceptConsent
  \/ AskDiscard

Next ==
  \/ \E c \in Captures : Observe(c)
  \/ TaskStep \/ DrainStep \/ AlarmStep
  \/ \E i \in Items : Deliver(i) \/ Refuse(i)
  \/ Timeout
  \/ FireAlarm
  \/ OwnerStep
  \/ Kill
  \/ \E restart, kept \in BOOLEAN : Wake(restart, kept)

Spec == Init /\ [][Next]_vars

\* The event loop runs what is ready, alarms fire, the browser sends events, and a
\* request that no failure meets arrives.
Fairness ==
  /\ WF_vars(TaskStep) /\ WF_vars(DrainStep) /\ WF_vars(AlarmStep)
  /\ WF_vars(FireAlarm)
  /\ WF_vars(\E restart, kept \in BOOLEAN : Wake(restart, kept))
  /\ \A i \in Items : WF_vars(Deliver(i))

FairSpec == Spec /\ Fairness

------------------------------------------------------------------------------
(* Properties. *)

\* The queue keeps what it accepted until the pinned destination has it: a stop of the
\* worker, a lost receipt, a timeout or a change of backend neither loses a capture
\* nor sends it elsewhere.
Promise == INSTANCE Delivery WITH
  kept <- queue,
  received <- {i \in Items : i[1] \in backend[i[2]]}

KeepsPromise == Promise!Spec

\* "Pause takes effect between queued deliveries": since the owner paused, at most the
\* one delivery that had already read the settings was sent.
PauseStops == Paused => late <= 1

\* A queue at rest has its retry: when nothing of the worker is under way and captures
\* wait, the one-shot alarm is set, whatever order drains, captures and changes of
\* settings ended in.
RetryArmed ==
  alive /\ task = NoTask /\ ~discarding /\ drain = NoDrain /\ alarmWork = <<>>
    => (alarm \/ queue = {} \/ Paused)

\* Every queued capture leaves the queue unless the owner stands in its way, in spite of
\* refused deliveries, timeouts and stops of the worker, and of filtered captures before it.
Drained ==
  \A i \in Items :
    i \in queue ~> \/ i \notin queue
                   \/ Paused
                   \/ settings.destination # i[2]
                   \/ i[1] \in settings.filtered
=============================================================================
