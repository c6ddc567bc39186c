------------------------------ MODULE Workspace ------------------------------
(***************************************************************************)
(* The workspace ledger of the SaveMyContext backend: captures commit a    *)
(* source revision and its job in one SQLite transaction, leased workers   *)
(* turn revisions into suggested memories, and the owner reviews them.     *)
(*                                                                         *)
(* Grain of atomicity.  SQLite serialises writers from the first statement *)
(* that writes; a SELECT before it holds no lock.  So a handler is one     *)
(* action when its decision is re-checked by the UPDATE it issues, and two *)
(* (a read, then a write that trusts the row it loaded) when it is not.    *)
(***************************************************************************)
EXTENDS Naturals, FiniteSets

CONSTANTS
  Workers,         \* processes running run_worker
  Sources,         \* source ids
  Revisions,       \* contents a source can have; a revision is its digest
  Evidence,        \* passages an extractor may quote
  TaskEvidence,    \* the passages it reports as tasks
  Quotes,          \* Quotes[r]: the passages that occur in the body of r
  Legacy,          \* suggestions left by the retired keyword extractor
  LegacyRevision,  \* the revision they were extracted from
  MaxAttempts,     \* MAX_ATTEMPTS of the worker
  MaxVersion,      \* bound: the owner stops reviewing a memory at this version
  MaxRequests,     \* bound: reprocess and retry requests
  MaxCrashes,      \* bound: worker crashes
  None             \* absent value

Memories == Sources \X Evidence   \* a memory id digests source, kind, evidence
Jobs     == Sources \X Revisions  \* one job per source and revision

ASSUME NoneAssumption == None \notin Revisions \cup Workers \cup Jobs
ASSUME FiniteAssumption == IsFiniteSet(Sources) /\ IsFiniteSet(Revisions)
ASSUME BoundsAssumption ==
  MaxAttempts \in Nat \ {0} /\ {MaxVersion, MaxRequests, MaxCrashes} \subseteq Nat
ASSUME QuotesAssumption ==
  /\ TaskEvidence \subseteq Evidence
  /\ Quotes \in [Revisions -> SUBSET Evidence]
  /\ LegacyRevision \in Revisions
  /\ Legacy \subseteq Sources \X Quotes[LegacyRevision]

VARIABLES
  source,     \* workspace_sources: current revision and archived flag
  snapshots,  \* workspace_revisions: the immutable revisions of each source
  job,        \* workspace_jobs
  memory,     \* workspace_memories
  task,       \* workspace_tasks made from a memory
  exported,   \* revisions written as files under the vault's Sources directory
  worker,     \* the local state of each run_one
  retrying,   \* retry requests that loaded a failed job and will write it
  view,       \* the memory rows as the owner's client last received them
  preview,    \* the fingerprint printed by the last retirement preview
  requests,   \* counter bounded by MaxRequests
  crashes     \* counter bounded by MaxCrashes

ledger == <<source, snapshots, job, memory, task, exported>>
owner  == <<view, preview, requests>>
vars   == <<source, snapshots, job, memory, task, exported, worker, retrying,
            view, preview, requests, crashes>>

------------------------------------------------------------------------------
(* Rows and their types. *)

LiveStates == {"pending", "running"}
JobStates  == LiveStates \cup {"done", "failed", "superseded"}

\* due abstracts available_at <= now; created orders jobs by created_at.
JobRow == [state : JobStates \cup {"none"}, due : BOOLEAN, attempts : Nat,
           lease : Workers \cup {None}, created : Nat]

NoJob == [state |-> "none", due |-> FALSE, attempts |-> 0, lease |-> None, created |-> 0]

\* provenance: which processor wrote the row, or that the owner edited it, or
\* that retire_legacy retired it.
MemoryRow == [status : {"none", "suggested", "accepted", "rejected", "superseded"},
              revision : Revisions \cup {None},
              provenance : {"model", "legacy", "edited", "retired"},
              version : Nat]

NoMemory == [status |-> "none", revision |-> None, provenance |-> "model", version |-> 0]

WorkerRow == [pc : {"idle", "expiring", "claiming", "extracting", "superseding",
                    "applying", "failing"},
              job : Jobs \cup {None}, attempts : Nat, seen : JobRow]

Idle == [pc |-> "idle", job |-> None, attempts |-> 0, seen |-> NoJob]

TypeOK ==
  /\ source \in [Sources -> [revision : Revisions \cup {None}, archived : BOOLEAN]]
  /\ snapshots \in [Sources -> SUBSET Revisions]
  /\ job \in [Jobs -> JobRow]
  /\ memory \in [Memories -> MemoryRow]
  /\ task \in [Memories -> {"none", "open", "done"}]
  /\ exported \in [Sources -> SUBSET Revisions]
  /\ worker \in [Workers -> WorkerRow]
  /\ \A w \in Workers : worker[w].pc # "idle" => worker[w].job \in Jobs
  /\ retrying \in [Jobs -> JobRow]
  /\ view \in [Memories -> MemoryRow]
  /\ preview \in [Memories -> Nat]
  /\ requests \in Nat
  /\ crashes \in Nat

\* A fresh ledger, or one upgraded from the keyword extractor: its sources keep
\* their revision and suggestions, and have no job of the current processor.
Init ==
  LET upgraded == {m[1] : m \in Legacy} IN
  /\ source = [s \in Sources |->
                [revision |-> IF s \in upgraded THEN LegacyRevision ELSE None,
                 archived |-> FALSE]]
  /\ snapshots = [s \in Sources |-> IF s \in upgraded THEN {LegacyRevision} ELSE {}]
  /\ job = [j \in Jobs |-> NoJob]
  /\ memory = [m \in Memories |->
                IF m \in Legacy
                THEN [status |-> "suggested", revision |-> LegacyRevision,
                      provenance |-> "legacy", version |-> 1]
                ELSE NoMemory]
  /\ task = [m \in Memories |-> "none"]
  /\ exported = [s \in Sources |-> {}]
  /\ worker = [w \in Workers |-> Idle]
  /\ retrying = [j \in Jobs |-> NoJob]
  /\ view = [m \in Memories |-> NoMemory]
  /\ preview = [m \in Memories |-> 0]
  /\ requests = 0
  /\ crashes = 0

Captured(s) == source[s].revision # None

\* The ORM's unit of work: of the attributes assigned to a loaded row, only the
\* ones that differ from what was loaded are written; the rest keep the value
\* the database holds by then.  (due means nothing once the job has ended.)
Flush(row, seen, new) ==
  LET state == IF new.state = seen.state THEN row.state ELSE new.state IN
  [state    |-> state,
   due      |-> IF state \in LiveStates THEN row.due ELSE FALSE,
   attempts |-> IF new.attempts = seen.attempts THEN row.attempts ELSE new.attempts,
   lease    |-> IF new.lease = seen.lease THEN row.lease ELSE new.lease,
   created  |-> row.created]

------------------------------------------------------------------------------
(* Capture: enqueue_source, inside the transaction of the ingest or of the   *)
(* note endpoint.  A known revision adds neither a job nor a snapshot.       *)

NewJob == [state |-> "pending", due |-> TRUE, attempts |-> 0, lease |-> None,
           created |-> Cardinality({j \in Jobs : job[j].state # "none"})]

Supersede(row) == [row EXCEPT !.status = "superseded", !.version = @ + 1]

Outdated(m, s, r) ==
  /\ m[1] = s
  /\ memory[m].status = "suggested"
  /\ memory[m].revision # r
  /\ memory[m].provenance # "edited"

EnqueueRevision(s, r) ==
  /\ snapshots' = [snapshots EXCEPT ![s] = @ \cup {r}]
  /\ job' = [job EXCEPT ![<<s, r>>] = NewJob]
  /\ memory' = [m \in Memories |-> IF Outdated(m, s, r) THEN Supersede(memory[m])
                                                        ELSE memory[m]]

Capture(s, r, discarded) ==
  /\ source' = [source EXCEPT ![s] = [revision |-> r, archived |-> @.archived \/ discarded]]
  /\ IF r \in snapshots[s] THEN UNCHANGED <<snapshots, job, memory>>
                           ELSE EnqueueRevision(s, r)
  /\ UNCHANGED <<task, exported, worker, retrying, owner, crashes>>

------------------------------------------------------------------------------
(* The worker: run_one, one step per stretch between two awaits that another *)
(* writer can slip into.                                                     *)

Claimable(j) == job[j].state \in LiveStates /\ job[j].due

Oldest(j) == Claimable(j) /\ \A k \in Jobs : Claimable(k) => job[j].created <= job[k].created

\* The source still has the revision of the job, and is not archived.
Fresh(j) == source[j[1]].revision = j[2] /\ ~source[j[1]].archived

\* Faulty: the worker keeps its place without a job.
Abandon(w) == worker' = [worker EXCEPT ![w].job = None]
Leave(w) == worker' = [worker EXCEPT ![w] = Idle]

Goto(w, pc) == worker' = [worker EXCEPT ![w].pc = pc, ![w].seen = job[worker[w].job]]

\* The unlocked SELECT of the oldest due job.
Select(w) ==
  /\ worker[w].pc = "idle"
  /\ \E j \in Jobs :
       /\ Oldest(j)
       /\ worker' = [worker EXCEPT ![w] =
            [pc |-> IF job[j].attempts >= MaxAttempts THEN "expiring" ELSE "claiming",
             job |-> j, attempts |-> 0, seen |-> job[j]]]
  /\ UNCHANGED <<ledger, retrying, owner, crashes>>

\* A job out of attempts is failed by a write that trusts the selected row.
Expire(w) ==
  /\ worker[w].pc = "expiring"
  /\ LET j == worker[w].job  seen == worker[w].seen IN
     job' = [job EXCEPT ![j] = Flush(@, seen, [seen EXCEPT !.state = "failed", !.lease = None])]
  /\ Leave(w)
  /\ UNCHANGED <<source, snapshots, memory, task, exported, retrying, owner, crashes>>

\* The claiming UPDATE matched no row: another worker was first.
LoseClaim(w) ==
  /\ worker[w].pc = "claiming"
  /\ ~Claimable(worker[w].job)
  /\ Leave(w)
  /\ UNCHANGED <<ledger, retrying, owner, crashes>>

\* Faulty: the claim does not count the attempt.
ClaimedUncounted(row, w) == [row EXCEPT !.state = "running", !.lease = w, !.due = FALSE]
Claimed(row, w) == [row EXCEPT !.state = "running", !.lease = w, !.due = FALSE,
                               !.attempts = @ + 1]

\* The claim holds the write lock until its commit: the source is read under it.
Claim(w) ==
  LET j == worker[w].job IN
  /\ worker[w].pc = "claiming"
  /\ Claimable(j)
  /\ IF Fresh(j) /\ j[2] \in snapshots[j[1]]
     THEN /\ job' = [job EXCEPT ![j] = Claimed(@, w)]
          /\ worker' = [worker EXCEPT ![w] = [pc |-> "extracting", job |-> j,
                                              attempts |-> job[j].attempts + 1,
                                              seen |-> NoJob]]
     ELSE /\ job' = [job EXCEPT ![j] = [Claimed(@, w) EXCEPT !.state = "superseded",
                                                             !.lease = None]]
          /\ Leave(w)
  /\ UNCHANGED <<source, snapshots, memory, task, exported, retrying, owner, crashes>>

\* Extraction returned: source and job are read without a lock, and a worker
\* whose lease was taken over drops its results.
Load(w) ==
  LET j == worker[w].job IN
  /\ worker[w].pc = "extracting"
  /\ IF job[j].lease # w THEN Leave(w)
     ELSE IF Fresh(j) THEN Goto(w, "applying")
     ELSE Goto(w, "superseding")
  /\ UNCHANGED <<ledger, retrying, owner, crashes>>

Finish(w, state) ==
  LET j == worker[w].job  seen == worker[w].seen IN
  /\ job' = [job EXCEPT ![j] = Flush(@, seen, [seen EXCEPT !.state = state, !.lease = None])]
  /\ Leave(w)

SupersedeJob(w) ==
  /\ worker[w].pc = "superseding"
  /\ Finish(w, "superseded")
  /\ UNCHANGED <<source, snapshots, memory, task, exported, retrying, owner, crashes>>

\* What the worker may not write over: what the owner decided or edited, and what
\* maintenance retired.
DecidedOnly(row) == row.status \in {"accepted", "rejected"}
Protected(row) == DecidedOnly(row) \/ row.provenance \in {"edited", "retired"}

\* Of the extractor's items the worker keeps those quoted from the revision.
Returned(j, items) == {m \in Memories : m[1] = j[1] /\ m[2] \in items}
Grounded(j, items) == {m \in Returned(j, items) : m[2] \in Quotes[j[2]]}

Suggested(row, r) == [status |-> "suggested", revision |-> r, provenance |-> "model",
                      version |-> row.version + 1]

\* Faulty: publishing over a memory keeps its version.
PublishUnversioned(j, items) ==
  memory' = [m \in Memories |->
    IF m \in Grounded(j, items) /\ ~Protected(memory[m])
    THEN [Suggested(memory[m], j[2]) EXCEPT !.version =
            IF memory[m].status = "none" THEN 1 ELSE memory[m].version]
    ELSE memory[m]]
Publish(j, items) ==
  memory' = [m \in Memories |->
    IF m \in Grounded(j, items) /\ ~Protected(memory[m])
    THEN Suggested(memory[m], j[2]) ELSE memory[m]]

\* Faulty: one file for each source, not for each revision.
ExportOnce(j) ==
  exported' = [exported EXCEPT ![j[1]] = IF @ = {} THEN {j[2]} ELSE @]
\* One immutable file for each revision of a source.
Export(j) == exported' = [exported EXCEPT ![j[1]] = @ \cup {j[2]}]

\* Faulty: the lock does not compare the revision.
LockAnySource(j) == Captured(j[1])
\* The no-op UPDATE of the source that takes the write lock and matches only if
\* the revision is still current.
LockSource(j) == Fresh(j)

\* The applying transaction: memories, file, job, commit.
Apply(w, items) ==
  LET j == worker[w].job IN
  /\ worker[w].pc = "applying"
  /\ IF LockSource(j)
     THEN Publish(j, items) /\ Export(j) /\ Finish(w, "done")
     ELSE Finish(w, "superseded") /\ UNCHANGED <<memory, exported>>
  /\ UNCHANGED <<source, snapshots, task, retrying, owner, crashes>>

\* The extractor raised or timed out, or the transaction failed and rolled back
\* (its file may be on disk already): the job is read again, unlocked.
Raise(w) ==
  LET j == worker[w].job IN
  /\ worker[w].pc \in {"extracting", "superseding", "applying"}
  /\ \/ UNCHANGED exported
     \/ worker[w].pc = "applying" /\ LockSource(j) /\ Export(j)
  /\ IF job[j].lease = w THEN Goto(w, "failing") ELSE Leave(w)
  /\ UNCHANGED <<source, snapshots, job, memory, task, retrying, owner, crashes>>

\* The failure is recorded with a back-off, or for good on the last attempt.
Fail(w) ==
  LET j == worker[w].job
      seen == worker[w].seen
      state == IF worker[w].attempts >= MaxAttempts THEN "failed" ELSE "pending"
  IN
  /\ worker[w].pc = "failing"
  /\ job' = [job EXCEPT ![j] = [Flush(@, seen, [seen EXCEPT !.state = state, !.lease = None])
                                 EXCEPT !.due = FALSE]]
  /\ Leave(w)
  /\ UNCHANGED <<source, snapshots, memory, task, exported, retrying, owner, crashes>>

\* The process dies; an open transaction rolls back, committed rows stay.
Crash(w) ==
  /\ worker[w].pc # "idle"
  /\ crashes < MaxCrashes
  /\ crashes' = crashes + 1
  /\ Leave(w)
  /\ UNCHANGED <<ledger, retrying, owner>>

\* available_at passes: a back-off ends or a lease expires, whether or not the
\* worker that holds it is still at work.
BecomeDue(j) ==
  /\ job[j].state \in LiveStates
  /\ ~job[j].due
  /\ job' = [job EXCEPT ![j].due = TRUE]
  /\ UNCHANGED <<source, snapshots, memory, task, exported, worker, retrying, owner, crashes>>

------------------------------------------------------------------------------
(* The owner. *)

\* GET /memories/{id}: the client keeps the row with its version.
Review(m) ==
  /\ memory[m].status # "none"
  /\ memory[m].version < MaxVersion
  /\ view' = [view EXCEPT ![m] = memory[m]]
  /\ UNCHANGED <<ledger, worker, retrying, preview, requests, crashes>>

\* Faulty: accepting again makes the task again.
ReplaceTask(m, row) ==
  task' = IF row.status = "accepted" /\ m[2] \in TaskEvidence
          THEN [task EXCEPT ![m] = "open"] ELSE task
\* Accepting a task suggestion makes its task, once.
AcceptTask(m, row) ==
  task' = IF row.status = "accepted" /\ m[2] \in TaskEvidence /\ task[m] = "none"
          THEN [task EXCEPT ![m] = "open"] ELSE task

\* PATCH /memories/{id} with the version the client holds.  status "keep" leaves
\* the status alone; edit changes title, body or project.
EditMemory(m, status, edit) ==
  LET row == memory[m]
      new == [row EXCEPT !.status = IF status = "keep" THEN @ ELSE status,
                         !.provenance = IF edit THEN "edited" ELSE @,
                         !.version = @ + 1]
  IN
  /\ row.status # "none"
  /\ row.version = view[m].version
  /\ row.version < MaxVersion
  /\ ~(status = "accepted" /\ row.status = "superseded")
  /\ memory' = [memory EXCEPT ![m] = new]
  /\ AcceptTask(m, new)
  /\ view' = [view EXCEPT ![m] = new]
  /\ UNCHANGED <<source, snapshots, job, exported, worker, retrying, preview, requests, crashes>>

\* PATCH /sources/{id}: an UPDATE guarded by the revision the client holds, then
\* the suggestions of the source follow it, each statement bumping versions.
EditSource(s, archive, move) ==
  LET suggested(m) == m[1] = s /\ memory[m].status = "suggested"
      moved(row) == IF move THEN [row EXCEPT !.version = @ + 1] ELSE row
      dropped(row) == IF archive = "archive"
                      THEN [row EXCEPT !.status = "rejected", !.version = @ + 1] ELSE row
  IN
  /\ Captured(s)
  /\ move => \A m \in Memories : suggested(m) => memory[m].version < MaxVersion
  /\ source' = [source EXCEPT ![s].archived =
                  IF archive = "keep" THEN @ ELSE archive = "archive"]
  /\ memory' = [m \in Memories |-> IF suggested(m) THEN dropped(moved(memory[m]))
                                                   ELSE memory[m]]
  /\ UNCHANGED <<snapshots, job, task, exported, worker, retrying, owner, crashes>>

\* POST /sources/{id}/reprocess: takes the write lock on the source, then resets
\* the job unless it is queued already, or makes one.
Reprocess(s) ==
  LET j == <<s, source[s].revision>> IN
  /\ Captured(s)
  /\ ~source[s].archived
  /\ job[j].state \notin LiveStates
  /\ requests < MaxRequests
  /\ requests' = requests + 1
  /\ job' = [job EXCEPT ![j] =
               IF @.state = "none" THEN NewJob
               ELSE [@ EXCEPT !.state = "pending", !.attempts = 0, !.due = TRUE]]
  /\ UNCHANGED <<source, snapshots, memory, task, exported, worker, retrying, view,
                 preview, crashes>>

\* POST /jobs/{id}/retry: an unlocked check that the job failed, ...
LoadRetry(j) ==
  /\ job[j].state = "failed"
  /\ requests < MaxRequests
  /\ requests' = requests + 1
  /\ retrying' = [retrying EXCEPT ![j] = job[j]]
  /\ UNCHANGED <<ledger, worker, view, preview, crashes>>

\* ... then a write that trusts it.
Retry(j) ==
  /\ retrying[j] # NoJob
  /\ LET seen == retrying[j] IN
     job' = [job EXCEPT ![j] =
       [Flush(@, seen, [seen EXCEPT !.state = "pending", !.attempts = 0]) EXCEPT !.due = TRUE]]
  /\ retrying' = [retrying EXCEPT ![j] = NoJob]
  /\ UNCHANGED <<source, snapshots, memory, task, exported, worker, owner, crashes>>

\* PATCH /tasks/{id}: the owner finishes or reopens the task of a memory.
EditTask(m) ==
  /\ task[m] # "none"
  /\ task' = [task EXCEPT ![m] = IF @ = "open" THEN "done" ELSE "open"]
  /\ UNCHANGED <<source, snapshots, job, memory, exported, worker, retrying, owner, crashes>>

\* retire_legacy: the fingerprint of the eligible rows, by id and version.
Eligible(m) ==
  memory[m].status = "suggested" /\ memory[m].provenance = "legacy" /\ task[m] = "none"

Fingerprint == [m \in Memories |-> IF Eligible(m) THEN memory[m].version ELSE 0]

PreviewRetirement ==
  /\ preview' = Fingerprint
  /\ UNCHANGED <<ledger, worker, retrying, view, requests, crashes>>

Retire ==
  /\ preview = Fingerprint
  /\ memory' = [m \in Memories |->
       IF Eligible(m) THEN [Supersede(memory[m]) EXCEPT !.provenance = "retired"]
                      ELSE memory[m]]
  /\ UNCHANGED <<source, snapshots, job, task, exported, worker, retrying, owner, crashes>>

------------------------------------------------------------------------------
WorkerStep(w) ==
  \/ Select(w)
  \/ Expire(w)
  \/ LoseClaim(w)
  \/ Claim(w)
  \/ Load(w)
  \/ SupersedeJob(w)
  \/ \E items \in SUBSET Evidence : Apply(w, items)
  \/ Raise(w)
  \/ Fail(w)

OwnerStep ==
  \/ \E m \in Memories : Review(m) \/ EditTask(m)
  \/ \E m \in Memories, status \in {"keep", "accepted", "rejected", "suggested"},
        edit \in BOOLEAN : EditMemory(m, status, edit)
  \/ \E s \in Sources, archive \in {"keep", "archive", "unarchive"}, move \in BOOLEAN :
        EditSource(s, archive, move)
  \/ \E s \in Sources : Reprocess(s)
  \/ \E j \in Jobs : LoadRetry(j) \/ Retry(j)
  \/ PreviewRetirement
  \/ Retire

Next ==
  \/ \E s \in Sources, r \in Revisions, discarded \in BOOLEAN : Capture(s, r, discarded)
  \/ \E w \in Workers : WorkerStep(w) \/ Crash(w)
  \/ \E j \in Jobs : BecomeDue(j)
  \/ OwnerStep

Spec == Init /\ [][Next]_vars

\* run_worker polls for ever and survives exceptions; clocks advance.
Fairness ==
  /\ \A w \in Workers : WF_vars(WorkerStep(w))
  /\ \A j \in Jobs : WF_vars(BecomeDue(j))

FairSpec == Spec /\ Fairness

------------------------------------------------------------------------------
(* Properties. *)

\* Every memory names a revision whose immutable snapshot is kept and contains the
\* passage the memory quotes: the link the README promises for each memory
\* survives captures, reverts, re-extraction, edits and retirement.
EvidenceKept ==
  \A m \in Memories : memory[m].status # "none" =>
    /\ memory[m].revision \in snapshots[m[1]]
    /\ m[2] \in Quotes[memory[m].revision]

\* A finished job has its revision on disk: the file is written before the
\* commit, and no crash, takeover or late write reports "done" without it.
DoneIsExported ==
  \A j \in Jobs : job[j].state = "done" => j[2] \in exported[j[1]]

\* Workers publish only for the present: when a memory comes to rest on another
\* revision, that revision is the current one of an unarchived source, however
\* old the extraction that produced it ("stale jobs cannot overwrite newer captures").
PublishesCurrent ==
  [][\A m \in Memories : memory'[m].revision # memory[m].revision =>
       /\ source[m[1]].revision = memory'[m].revision
       /\ ~source[m[1]].archived]_vars

\* Optimistic review: a memory becomes accepted only as the very row the owner's
\* client last received.  Every writer of the row must bump its version for the
\* compare-and-set in edit_memory to guarantee this.
AcceptedAsRead ==
  [][\A m \in Memories : memory[m].status # "accepted" /\ memory'[m].status = "accepted"
       => view[m] = memory[m]]_vars

\* Owner decisions stand: a memory the owner accepted or rejected changes only by a
\* patch of a client that had read it, and one she edited, or the maintenance
\* command retired, is never rewritten from a later extraction.
OwnerWorkKept ==
  [][\A m \in Memories : memory'[m] # memory[m] =>
       /\ memory[m].status \in {"accepted", "rejected"} => view[m] = memory[m]
       /\ memory[m].provenance \in {"edited", "retired"} =>
            /\ memory'[m].provenance \in {"edited", "retired"}
            /\ memory'[m].revision = memory[m].revision]_vars

\* Whatever happens to a memory (reprocessing, rejection, acceptance a second
\* time) leaves its task as the owner left it.
TaskKept ==
  [][\A m \in Memories : memory'[m] # memory[m] /\ task[m] # "none"
       => task'[m] = task[m]]_vars

\* Every queued job ends, done, failed or superseded, in spite of failing
\* extractions, lost leases and finitely many crashes and owner requests.
JobsEnd ==
  \A j \in Jobs : job[j].state \in LiveStates ~> job[j].state \notin LiveStates

\* "Capture and its durable job commit together": the commit that makes a revision
\* current leaves it queued, in progress, processed or visibly failed.
CaptureHasJob ==
  [][\A s \in Sources : source'[s].revision # source[s].revision /\ ~source'[s].archived
       => job'[<<s, source'[s].revision>>].state \in LiveStates \cup {"done", "failed"}]_vars

\* What edit_memory refuses ("Source changed; review the latest suggestion"): an
\* unedited suggestion of another revision than the current one is not accepted.
AcceptsCurrent ==
  [][\A m \in Memories :
       /\ memory[m].status = "suggested" /\ memory'[m].status = "accepted"
       /\ memory'[m].provenance = "model"
       => memory[m].revision = source[m[1]].revision]_vars
=============================================================================
