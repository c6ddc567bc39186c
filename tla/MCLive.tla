------------------------------- MODULE MCLive -------------------------------
(***************************************************************************)
(* What must happen in the end, each on a small instance of its own, in    *)
(* one run: jobs of the workspace end and the capture outbox drains.       *)
(***************************************************************************)
EXTENDS Workspace

CONSTANTS s1, ra, e1, c1, Captures, Destinations, MaxItems, MaxStores, MaxChanges, MaxFailures, MaxKills,
  MaxTroubles       \* bound: failed deliveries and stops of the service worker together

LiveQuotes == [r \in Revisions |-> Evidence]
NoMemories == {}

VARIABLES
  settings, queue, created, alarm, alive, outboxTask, discarding, drain, alarmWork, pending,
  wire, backend, accepted, discarded, late, stores, changes, failures, kills,
  part

Outbox == INSTANCE CaptureOutbox WITH task <- outboxTask

outbox == <<settings, queue, created, alarm, alive, outboxTask, discarding, drain, alarmWork,
            pending, wire, backend, accepted, discarded, late, stores, changes, failures, kills>>

\* Whichever is not looked at is at rest, with nothing to do.
LiveInit == Init /\ Outbox!Init /\ part \in {"jobs", "outbox"}

JobsNext == part = "jobs" /\ Next /\ UNCHANGED <<outbox, part>>
OutboxNext ==
  /\ part = "outbox" /\ Outbox!Next /\ UNCHANGED <<vars, part>>
  /\ failures' + kills' <= MaxTroubles

\* The fairness of either specification, for the part that runs.
LiveFairness ==
  /\ \A w \in Workers : WF_vars(part = "jobs" /\ WorkerStep(w))
  /\ \A j \in Jobs : WF_vars(part = "jobs" /\ BecomeDue(j))
  /\ WF_outbox(part = "outbox" /\ Outbox!TaskStep)
  /\ WF_outbox(part = "outbox" /\ Outbox!DrainStep)
  /\ WF_outbox(part = "outbox" /\ Outbox!AlarmStep)
  /\ WF_outbox(part = "outbox" /\ Outbox!FireAlarm)
  /\ WF_outbox(part = "outbox" /\ \E restart, kept \in BOOLEAN : Outbox!Wake(restart, kept))
  /\ \A i \in Outbox!Items : WF_outbox(part = "outbox" /\ Outbox!Deliver(i))

Live == LiveInit /\ [][JobsNext \/ OutboxNext]_<<vars, outbox, part>> /\ LiveFairness

\* Every queued capture leaves the outbox unless its owner stands in its way, in spite of
\* refused deliveries, timeouts and stops of the worker, and of filtered captures before it.
\* Captures are interchangeable: it is enough to look at one.
Drained ==
  \A i \in {c1} \X Destinations :
    i \in queue ~> \/ i \notin queue
                   \/ Outbox!Paused
                   \/ settings.destination # i[2]
                   \/ i[1] \in settings.filtered
=============================================================================
