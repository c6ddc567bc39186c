--------------------------- MODULE WorkspaceProofs ---------------------------
(***************************************************************************)
(* Safety of the workspace ledger for any number of workers, sources,      *)
(* revisions and passages, and any bounds: the types of its rows; the      *)
(* evidence of memories and the files of finished jobs; and what the owner *)
(* relies on when she reviews memories while workers write them.           *)
(***************************************************************************)
EXTENDS Workspace, FiniteSetTheorems, TLAPS

------------------------------------------------------------------------------
(* Types. *)

(* A new job is ordered after finitely many others. *)
LEMMA NewJobType == NewJob \in JobRow
<1>1. IsFiniteSet(Jobs)
  BY FiniteAssumption, FS_Product DEF Jobs
<1>2. IsFiniteSet({j \in Jobs : job[j].state # "none"})
  BY <1>1, FS_Subset
<1>3. Cardinality({j \in Jobs : job[j].state # "none"}) \in Nat
  BY <1>2, FS_CardinalityType
<1>4. QED
  BY <1>3 DEF NewJob, JobRow, JobStates, LiveStates

(* Flushing a well-typed change into a well-typed row gives a well-typed row. *)
LEMMA FlushType ==
  ASSUME NEW row \in JobRow, NEW seen \in JobRow, NEW new \in JobRow
  PROVE  Flush(row, seen, new) \in JobRow
BY DEF Flush, JobRow, JobStates, LiveStates

\* Superseding a well-typed memory row leaves it well typed.
LEMMA SupersedeType ==
  ASSUME NEW row \in MemoryRow
  PROVE  Supersede(row) \in MemoryRow
<1>1. row.version + 1 \in Nat
  BY DEF MemoryRow
<1>2. QED
  BY <1>1 DEF Supersede, MemoryRow

\* A claimed job row is well typed.
LEMMA ClaimedType ==
  ASSUME NEW row \in JobRow, NEW w \in Workers
  PROVE  Claimed(row, w) \in JobRow
<1>1. row.attempts + 1 \in Nat
  BY DEF JobRow
<1>2. QED
  BY <1>1 DEF Claimed, JobRow, JobStates, LiveStates

\* A worker that finishes its job writes a well-typed job and is idle.
LEMMA FinishType ==
  ASSUME TypeOK, NEW w \in Workers, worker[w].pc # "idle", NEW state \in JobStates,
         Finish(w, state)
  PROVE  job' \in [Jobs -> JobRow] /\ worker' \in [Workers -> WorkerRow]
<1>. DEFINE seen == worker[w].seen
            new == [seen EXCEPT !.state = state, !.lease = None]
<1>1. seen \in JobRow /\ worker[w].job \in Jobs
  BY DEF TypeOK, WorkerRow
<1>2. new \in JobRow
  BY <1>1 DEF JobRow
<1>3. job' \in [Jobs -> JobRow]
  BY <1>1, <1>2, FlushType DEF TypeOK, Finish
<1>4. worker' \in [Workers -> WorkerRow]
  BY DEF TypeOK, Finish, Leave, Idle, WorkerRow, NoJob, JobRow
<1>5. QED
  BY <1>3, <1>4

------------------------------------------------------------------------------
(* Type correctness. *)

\* The idle worker is well typed.
LEMMA IdleType == Idle \in WorkerRow
BY DEF Idle, NoJob, WorkerRow, JobRow

\* A worker that leaves its job stays well typed.
LEMMA LeaveType ==
  ASSUME TypeOK, NEW w \in Workers, Leave(w)
  PROVE  /\ worker' \in [Workers -> WorkerRow]
         /\ \A v \in Workers : worker'[v].pc # "idle" => worker'[v].job \in Jobs
BY IdleType DEF TypeOK, Leave, Idle

\* A worker that reads its job again and moves on stays well typed.
LEMMA GotoType ==
  ASSUME TypeOK, NEW w \in Workers, worker[w].pc # "idle",
         NEW pc \in {"superseding", "applying", "failing"}, Goto(w, pc)
  PROVE  /\ worker' \in [Workers -> WorkerRow]
         /\ \A v \in Workers : worker'[v].pc # "idle" => worker'[v].job \in Jobs
<1>1. worker[w].job \in Jobs /\ job[worker[w].job] \in JobRow
  BY DEF TypeOK
<1>2. [worker[w] EXCEPT !.pc = pc, !.seen = job[worker[w].job]] \in WorkerRow
  BY <1>1 DEF TypeOK, WorkerRow
<1>3. QED
  BY <1>1, <1>2 DEF TypeOK, Goto, WorkerRow

\* The fresh ledger and the upgraded one are well typed.
LEMMA TypeInit == Init => TypeOK
<1>1. NoJob \in JobRow /\ NoMemory \in MemoryRow
  BY DEF NoJob, JobRow, NoMemory, MemoryRow
<1>2. QED
  BY <1>1, IdleType, QuotesAssumption DEF Init, TypeOK, MemoryRow, Idle

\* A capture keeps the types.
LEMMA TypeCapture ==
  ASSUME TypeOK, NEW s \in Sources, NEW r \in Revisions, NEW discarded \in BOOLEAN,
         Capture(s, r, discarded)
  PROVE  TypeOK'
<1>1. source' \in [Sources -> [revision : Revisions \cup {None}, archived : BOOLEAN]]
  BY DEF TypeOK, Capture
<1>2. /\ snapshots' \in [Sources -> SUBSET Revisions]
      /\ job' \in [Jobs -> JobRow]
      /\ memory' \in [Memories -> MemoryRow]
  <2>1. CASE r \in snapshots[s]
    BY <2>1 DEF TypeOK, Capture
  <2>2. CASE r \notin snapshots[s]
    <3>1. snapshots' \in [Sources -> SUBSET Revisions]
      BY <2>2 DEF TypeOK, Capture, EnqueueRevision
    <3>2. job' \in [Jobs -> JobRow]
      BY <2>2, NewJobType DEF TypeOK, Capture, EnqueueRevision, Jobs
    <3>3. ASSUME NEW m \in Memories PROVE Supersede(memory[m]) \in MemoryRow
      BY SupersedeType DEF TypeOK
    <3>4. memory' \in [Memories -> MemoryRow]
      BY <2>2, <3>3 DEF TypeOK, Capture, EnqueueRevision
    <3>5. QED
      BY <3>1, <3>2, <3>4
  <2>3. QED
    BY <2>1, <2>2
<1>3. QED
  BY <1>1, <1>2 DEF TypeOK, Capture, owner

\* Every step of a worker keeps the types.
LEMMA TypeWorker ==
  ASSUME TypeOK, NEW w \in Workers, WorkerStep(w)
  PROVE  TypeOK'
<1>1. CASE Select(w)
  <2>1. PICK j \in Jobs : worker' = [worker EXCEPT ![w] =
            [pc |-> IF job[j].attempts >= MaxAttempts THEN "expiring" ELSE "claiming",
             job |-> j, attempts |-> 0, seen |-> job[j]]]
    BY <1>1 DEF Select
  <2>2. job[j] \in JobRow
    BY DEF TypeOK
  <2>3. /\ worker' \in [Workers -> WorkerRow]
        /\ \A v \in Workers : worker'[v].pc # "idle" => worker'[v].job \in Jobs
    BY <2>1, <2>2 DEF TypeOK, WorkerRow
  <2>4. QED
    BY <1>1, <2>3 DEF TypeOK, Select, ledger, owner
<1>2. CASE Expire(w)
  <2>1. worker[w].job \in Jobs /\ worker[w].seen \in JobRow
    BY <1>2 DEF TypeOK, Expire, WorkerRow
  <2>2. [worker[w].seen EXCEPT !.state = "failed", !.lease = None] \in JobRow
    BY <2>1 DEF JobRow, JobStates
  <2>3. job' \in [Jobs -> JobRow]
    BY <1>2, <2>1, <2>2, FlushType DEF TypeOK, Expire
  <2>4. QED
    BY <1>2, <2>3, LeaveType DEF TypeOK, Expire, owner
<1>3. CASE LoseClaim(w)
  BY <1>3, LeaveType DEF TypeOK, LoseClaim, ledger, owner
<1>4. CASE Claim(w)
  <2>. DEFINE j == worker[w].job
  <2>1. j \in Jobs /\ job[j] \in JobRow
    BY <1>4 DEF TypeOK, Claim
  <2>2. Claimed(job[j], w) \in JobRow
    BY <2>1, ClaimedType
  <2>3. [Claimed(job[j], w) EXCEPT !.state = "superseded", !.lease = None] \in JobRow
    BY <2>2 DEF JobRow, JobStates
  <2>4. job' \in [Jobs -> JobRow]
    BY <1>4, <2>1, <2>2, <2>3 DEF TypeOK, Claim
  <2>5. job[j].attempts + 1 \in Nat /\ NoJob \in JobRow
    BY <2>1 DEF JobRow, NoJob
  <2>6. /\ worker' \in [Workers -> WorkerRow]
        /\ \A v \in Workers : worker'[v].pc # "idle" => worker'[v].job \in Jobs
    <3>1. CASE Fresh(j) /\ j[2] \in snapshots[j[1]]
      <4>. DEFINE row == [pc |-> "extracting", job |-> j, attempts |-> job[j].attempts + 1,
                          seen |-> NoJob]
      <4>1. row \in WorkerRow
        BY <2>1, <2>5 DEF WorkerRow
      <4>2. worker' = [worker EXCEPT ![w] = row]
        BY <1>4, <3>1 DEF Claim
      <4>3. QED
        BY <2>1, <4>1, <4>2 DEF TypeOK
    <3>2. CASE ~(Fresh(j) /\ j[2] \in snapshots[j[1]])
      BY <1>4, <3>2, LeaveType DEF Claim
    <3>3. QED
      BY <3>1, <3>2
  <2>7. QED
    BY <1>4, <2>4, <2>6 DEF TypeOK, Claim, owner
<1>5. CASE Load(w)
  BY <1>5, LeaveType, GotoType DEF TypeOK, Load, ledger, owner
<1>6. CASE SupersedeJob(w)
  BY <1>6, FinishType, LeaveType DEF TypeOK, SupersedeJob, Finish, JobStates, owner
<1>7. CASE \E items \in SUBSET Evidence : Apply(w, items)
  <2>1. PICK items \in SUBSET Evidence : Apply(w, items)
    BY <1>7
  <2>. DEFINE j == worker[w].job
  <2>2. j \in Jobs /\ j[1] \in Sources /\ j[2] \in Revisions
    BY <2>1 DEF TypeOK, Apply, Jobs
  <2>3. memory' \in [Memories -> MemoryRow] /\ exported' \in [Sources -> SUBSET Revisions]
    BY <2>1, <2>2 DEF TypeOK, Apply, Publish, Export, Suggested, MemoryRow
  <2>4. /\ job' \in [Jobs -> JobRow]
        /\ worker' \in [Workers -> WorkerRow]
        /\ \A v \in Workers : worker'[v].pc # "idle" => worker'[v].job \in Jobs
    BY <2>1, FinishType, LeaveType DEF Apply, Finish, JobStates
  <2>5. QED
    BY <2>1, <2>3, <2>4 DEF TypeOK, Apply, owner
<1>8. CASE Raise(w)
  <2>. DEFINE j == worker[w].job
  <2>1. j \in Jobs /\ j[1] \in Sources /\ j[2] \in Revisions
    BY <1>8 DEF TypeOK, Raise, Jobs
  <2>2. exported' \in [Sources -> SUBSET Revisions]
    BY <1>8, <2>1 DEF TypeOK, Raise, Export
  <2>3. QED
    BY <1>8, <2>2, LeaveType, GotoType DEF TypeOK, Raise, owner
<1>9. CASE Fail(w)
  <2>. DEFINE j == worker[w].job
              seen == worker[w].seen
              state == IF worker[w].attempts >= MaxAttempts THEN "failed" ELSE "pending"
              new == [seen EXCEPT !.state = state, !.lease = None]
  <2>1. j \in Jobs /\ job[j] \in JobRow /\ seen \in JobRow
    BY <1>9 DEF TypeOK, Fail, WorkerRow
  <2>2. state \in JobStates
    BY DEF JobStates, LiveStates
  <2>3. new \in JobRow
    BY <2>1, <2>2 DEF JobRow
  <2>4. Flush(job[j], seen, new) \in JobRow
    BY <2>1, <2>3, FlushType
  <2>5. [Flush(job[j], seen, new) EXCEPT !.due = FALSE] \in JobRow
    BY <2>4 DEF JobRow
  <2>6. job' = [job EXCEPT ![j] = [Flush(job[j], seen, new) EXCEPT !.due = FALSE]]
    BY <1>9, <2>1 DEF Fail, TypeOK
  <2>7. job' \in [Jobs -> JobRow]
    BY <2>1, <2>5, <2>6 DEF TypeOK
  <2>8. QED
    BY <1>9, <2>7, LeaveType DEF TypeOK, Fail, owner
<1>10. QED
  BY <1>1, <1>2, <1>3, <1>4, <1>5, <1>6, <1>7, <1>8, <1>9 DEF WorkerStep

\* A memory row stays well typed when its version is raised.
LEMMA BumpType ==
  ASSUME NEW row \in MemoryRow
  PROVE  [row EXCEPT !.version = @ + 1] \in MemoryRow
<1>1. row.version + 1 \in Nat
  BY DEF MemoryRow
<1>2. QED
  BY <1>1 DEF MemoryRow

\* The patch of a memory keeps the types.
LEMMA TypeEditMemory ==
  ASSUME TypeOK, NEW m \in Memories,
         NEW status \in {"keep", "accepted", "rejected", "suggested"}, NEW edit \in BOOLEAN,
         EditMemory(m, status, edit)
  PROVE  TypeOK'
<1>. DEFINE row == memory[m]
            new == [row EXCEPT !.status = IF status = "keep" THEN @ ELSE status,
                               !.provenance = IF edit THEN "edited" ELSE @,
                               !.version = @ + 1]
<1>1. row \in MemoryRow /\ row.version + 1 \in Nat
  BY DEF TypeOK, MemoryRow
<1>2. new \in MemoryRow
  BY <1>1 DEF MemoryRow
<1>3. memory' \in [Memories -> MemoryRow] /\ view' \in [Memories -> MemoryRow]
  BY <1>2 DEF TypeOK, EditMemory
<1>4. task' \in [Memories -> {"none", "open", "done"}]
  BY DEF TypeOK, EditMemory, AcceptTask
<1>5. QED
  BY <1>3, <1>4 DEF TypeOK, EditMemory

\* The patch of a source and of its suggestions keeps the types.
LEMMA TypeEditSource ==
  ASSUME TypeOK, NEW s \in Sources, NEW archive \in {"keep", "archive", "unarchive"},
         NEW move \in BOOLEAN, EditSource(s, archive, move)
  PROVE  TypeOK'
<1>. DEFINE moved(row) == IF move THEN [row EXCEPT !.version = @ + 1] ELSE row
            dropped(row) == IF archive = "archive"
                            THEN [row EXCEPT !.status = "rejected", !.version = @ + 1] ELSE row
<1>1. ASSUME NEW row \in MemoryRow PROVE moved(row) \in MemoryRow
  BY <1>1, BumpType
<1>2. ASSUME NEW row \in MemoryRow PROVE dropped(row) \in MemoryRow
  <2>1. row.version + 1 \in Nat
    BY <1>2 DEF MemoryRow
  <2>2. QED
    BY <1>2, <2>1 DEF MemoryRow
<1>3. \A m \in Memories : dropped(moved(memory[m])) \in MemoryRow /\ memory[m] \in MemoryRow
  BY <1>1, <1>2 DEF TypeOK
<1>. HIDE DEF moved, dropped
<1>4. memory' = [m \in Memories |-> IF m[1] = s /\ memory[m].status = "suggested"
                                    THEN dropped(moved(memory[m])) ELSE memory[m]]
  BY DEF EditSource, moved, dropped
<1>5. memory' \in [Memories -> MemoryRow]
  BY <1>3, <1>4
<1>6. source' \in [Sources -> [revision : Revisions \cup {None}, archived : BOOLEAN]]
  <2>. DEFINE flag == IF archive = "keep" THEN source[s].archived ELSE archive = "archive"
  <2>1. flag \in BOOLEAN /\ source[s] \in [revision : Revisions \cup {None}, archived : BOOLEAN]
    BY DEF TypeOK
  <2>2. source' = [source EXCEPT ![s].archived = flag]
    BY DEF EditSource
  <2>. HIDE DEF flag
  <2>3. [source[s] EXCEPT !.archived = flag] \in
          [revision : Revisions \cup {None}, archived : BOOLEAN]
    BY <2>1
  <2>4. QED
    BY <2>2, <2>3 DEF TypeOK
<1>7. QED
  BY <1>5, <1>6 DEF TypeOK, EditSource, owner

\* A reprocess request keeps the types.
LEMMA TypeReprocess ==
  ASSUME TypeOK, NEW s \in Sources, Reprocess(s)
  PROVE  TypeOK'
<1>. DEFINE j == <<s, source[s].revision>>
<1>1. j \in Jobs /\ job[j] \in JobRow
  BY DEF TypeOK, Reprocess, Captured, Jobs
<1>2. [job[j] EXCEPT !.state = "pending", !.attempts = 0, !.due = TRUE] \in JobRow
  BY <1>1 DEF JobRow, JobStates, LiveStates
<1>3. job' \in [Jobs -> JobRow]
  BY <1>1, <1>2, NewJobType DEF TypeOK, Reprocess
<1>4. QED
  BY <1>3 DEF TypeOK, Reprocess

\* The write of a retry request keeps the types.
LEMMA TypeRetry ==
  ASSUME TypeOK, NEW j \in Jobs, Retry(j)
  PROVE  TypeOK'
<1>. DEFINE seen == retrying[j]
            new == [seen EXCEPT !.state = "pending", !.attempts = 0]
<1>1. job[j] \in JobRow /\ seen \in JobRow /\ NoJob \in JobRow
  BY DEF TypeOK, NoJob, JobRow
<1>2. new \in JobRow
  BY <1>1 DEF JobRow, JobStates, LiveStates
<1>3. Flush(job[j], seen, new) \in JobRow
  BY <1>1, <1>2, FlushType
<1>4. [Flush(job[j], seen, new) EXCEPT !.due = TRUE] \in JobRow
  BY <1>3 DEF JobRow
<1>5. job' \in [Jobs -> JobRow] /\ retrying' \in [Jobs -> JobRow]
  BY <1>1, <1>4 DEF TypeOK, Retry
<1>6. QED
  BY <1>5 DEF TypeOK, Retry, owner

\* Every step of the owner keeps the types.
LEMMA TypeOwner ==
  ASSUME TypeOK, OwnerStep
  PROVE  TypeOK'
<1>1. CASE \E m \in Memories : Review(m)
  BY <1>1 DEF TypeOK, Review, ledger
<1>2. CASE \E m \in Memories : EditTask(m)
  BY <1>2 DEF TypeOK, EditTask, owner
<1>3. CASE \E m \in Memories, status \in {"keep", "accepted", "rejected", "suggested"},
             edit \in BOOLEAN : EditMemory(m, status, edit)
  BY <1>3, TypeEditMemory
<1>4. CASE \E s \in Sources, archive \in {"keep", "archive", "unarchive"}, move \in BOOLEAN :
             EditSource(s, archive, move)
  BY <1>4, TypeEditSource
<1>5. CASE \E s \in Sources : Reprocess(s)
  BY <1>5, TypeReprocess
<1>6. CASE \E j \in Jobs : LoadRetry(j)
  BY <1>6 DEF TypeOK, LoadRetry, ledger
<1>7. CASE \E j \in Jobs : Retry(j)
  BY <1>7, TypeRetry
<1>8. CASE PreviewRetirement
  BY <1>8 DEF TypeOK, PreviewRetirement, Fingerprint, MemoryRow, ledger
<1>9. CASE Retire
  <2>1. ASSUME NEW row \in MemoryRow
        PROVE  [Supersede(row) EXCEPT !.provenance = "retired"] \in MemoryRow
    BY <2>1, SupersedeType DEF MemoryRow
  <2>2. memory' \in [Memories -> MemoryRow]
    BY <1>9, <2>1 DEF TypeOK, Retire
  <2>3. QED
    BY <1>9, <2>2 DEF TypeOK, Retire, owner
<1>10. QED
  BY <1>1, <1>2, <1>3, <1>4, <1>5, <1>6, <1>7, <1>8, <1>9 DEF OwnerStep

\* Every step keeps the types.
LEMMA TypeNext == TypeOK /\ [Next]_vars => TypeOK'
<1>. SUFFICES ASSUME TypeOK, [Next]_vars PROVE TypeOK'
  OBVIOUS
<1>1. CASE \E s \in Sources, r \in Revisions, discarded \in BOOLEAN : Capture(s, r, discarded)
  BY <1>1, TypeCapture
<1>2. CASE \E w \in Workers : WorkerStep(w)
  BY <1>2, TypeWorker
<1>3. CASE \E w \in Workers : Crash(w)
  BY <1>3, LeaveType DEF TypeOK, Crash, ledger, owner
<1>4. CASE \E j \in Jobs : BecomeDue(j)
  <2>1. PICK j \in Jobs : BecomeDue(j)
    BY <1>4
  <2>2. job[j] \in JobRow
    BY DEF TypeOK
  <2>3. [job[j] EXCEPT !.due = TRUE] \in JobRow
    BY <2>2 DEF JobRow
  <2>4. job' \in [Jobs -> JobRow]
    BY <2>1, <2>3 DEF TypeOK, BecomeDue
  <2>5. QED
    BY <2>1, <2>4 DEF TypeOK, BecomeDue, owner
<1>5. CASE OwnerStep
  BY <1>5, TypeOwner
<1>6. CASE UNCHANGED vars
  BY <1>6 DEF TypeOK, vars
<1>7. QED
  BY <1>1, <1>2, <1>3, <1>4, <1>5, <1>6 DEF Next

(* The rows of the ledger, the workers' locals and the clients' copies keep     *)
(* their types under every interleaving of captures, workers and the owner.     *)
THEOREM TypeCorrect == Spec => []TypeOK
BY TypeInit, TypeNext, PTL DEF Spec

------------------------------------------------------------------------------
(* The evidence of memories, and the files of finished jobs.  DoneIsExported *)
(* is inductive with TypeOK; EvidenceKept also needs SourcesStored: the      *)
(* current revision of a source has its snapshot.                            *)

SourcesStored == \A s \in Sources : Captured(s) => source[s].revision \in snapshots[s]

(* Five actions write memories; every other step leaves them, the snapshots *)
(* and the sources alone.                                                   *)
LEMMA MemoryWriters ==
  ASSUME [Next]_vars
  PROVE  \/ \E s \in Sources, r \in Revisions, discarded \in BOOLEAN : Capture(s, r, discarded)
         \/ \E w \in Workers, items \in SUBSET Evidence : Apply(w, items)
         \/ \E m \in Memories, status \in {"keep", "accepted", "rejected", "suggested"},
               edit \in BOOLEAN : EditMemory(m, status, edit)
         \/ \E s \in Sources, archive \in {"keep", "archive", "unarchive"}, move \in BOOLEAN :
               EditSource(s, archive, move)
         \/ Retire
         \/ UNCHANGED <<source, snapshots, memory>>
<1>1. CASE \E w \in Workers : WorkerStep(w)
  <2>1. PICK w \in Workers : WorkerStep(w)
    BY <1>1
  <2>2. CASE \E items \in SUBSET Evidence : Apply(w, items)
    BY <2>2
  <2>3. CASE Select(w) \/ LoseClaim(w) \/ Load(w)
    BY <2>3 DEF Select, LoseClaim, Load, ledger
  <2>4. CASE Expire(w) \/ Claim(w) \/ SupersedeJob(w) \/ Raise(w) \/ Fail(w)
    BY <2>4 DEF Expire, Claim, SupersedeJob, Raise, Fail
  <2>5. QED
    BY <2>1, <2>2, <2>3, <2>4 DEF WorkerStep
<1>2. CASE \E w \in Workers : Crash(w)
  BY <1>2 DEF Crash, ledger
<1>3. CASE \E j \in Jobs : BecomeDue(j)
  BY <1>3 DEF BecomeDue
<1>4. CASE OwnerStep
  BY <1>4 DEF OwnerStep, Review, EditTask, Reprocess, LoadRetry, Retry, PreviewRetirement,
              ledger
<1>5. CASE UNCHANGED vars
  BY <1>5 DEF vars
<1>6. QED
  BY <1>1, <1>2, <1>3, <1>4, <1>5 DEF Next

------------------------------------------------------------------------------
(* Evidence. *)

\* The initial ledger keeps the evidence of its memories.
LEMMA EvidenceInit == Init => SourcesStored /\ EvidenceKept
BY QuotesAssumption DEF Init, SourcesStored, Captured, EvidenceKept, NoMemory, Memories

\* Every step keeps the revision and the evidence of every memory.
LEMMA EvidenceStep ==
  ASSUME TypeOK, SourcesStored, EvidenceKept, [Next]_vars
  PROVE  SourcesStored' /\ EvidenceKept'
<1>1. CASE \E s \in Sources, r \in Revisions, discarded \in BOOLEAN : Capture(s, r, discarded)
  <2>1. PICK s \in Sources, r \in Revisions, discarded \in BOOLEAN : Capture(s, r, discarded)
    BY <1>1
  <2>2. /\ r \in snapshots'[s]
        /\ \A t \in Sources : snapshots[t] \subseteq snapshots'[t]
    BY <2>1 DEF TypeOK, Capture, EnqueueRevision
  <2>3. /\ source'[s].revision = r
        /\ \A t \in Sources \ {s} : source'[t] = source[t]
    BY <2>1 DEF TypeOK, Capture
  <2>4. SourcesStored'
    BY <2>2, <2>3 DEF SourcesStored, Captured
  <2>5. ASSUME NEW m \in Memories
        PROVE  /\ memory'[m].status # "none" => memory[m].status # "none"
               /\ memory'[m].revision = memory[m].revision
    <3>1. CASE r \in snapshots[s]
      BY <2>1, <3>1 DEF Capture
    <3>2. CASE r \notin snapshots[s]
      <4>1. memory[m] \in MemoryRow
        BY DEF TypeOK
      <4>2. memory'[m] = IF Outdated(m, s, r) THEN Supersede(memory[m]) ELSE memory[m]
        BY <2>1, <3>2 DEF Capture, EnqueueRevision
      <4>3. QED
        BY <4>1, <4>2 DEF Outdated, Supersede, MemoryRow
    <3>3. QED
      BY <3>1, <3>2
  <2>6. EvidenceKept'
    BY <2>2, <2>5 DEF EvidenceKept, Memories
  <2>7. QED
    BY <2>4, <2>6
<1>2. CASE \E w \in Workers, items \in SUBSET Evidence : Apply(w, items)
  <2>1. PICK w \in Workers, items \in SUBSET Evidence : Apply(w, items)
    BY <1>2
  <2>. DEFINE j == worker[w].job
  <2>2. j[1] \in Sources /\ j[2] \in Revisions
    BY <2>1 DEF TypeOK, Apply, Jobs
  <2>3. SourcesStored'
    BY <2>1 DEF Apply, SourcesStored, Captured
  <2>4. CASE LockSource(j)
    <3>1. j[2] \in snapshots[j[1]]
      BY <2>2, <2>4, NoneAssumption DEF SourcesStored, Captured, LockSource, Fresh
    <3>2. Publish(j, items) /\ snapshots' = snapshots
      BY <2>1, <2>4 DEF Apply
    <3>3. ASSUME NEW m \in Memories, memory'[m].status # "none"
          PROVE  memory'[m].revision \in snapshots'[m[1]] /\ m[2] \in Quotes[memory'[m].revision]
      <4>1. CASE m \in Grounded(j, items) /\ ~Protected(memory[m])
        BY <3>1, <3>2, <4>1 DEF Publish, Suggested, Grounded, Returned
      <4>2. CASE ~(m \in Grounded(j, items) /\ ~Protected(memory[m]))
        BY <3>2, <3>3, <4>2 DEF Publish, EvidenceKept
      <4>3. QED
        BY <4>1, <4>2
    <3>4. QED
      BY <2>3, <3>3 DEF EvidenceKept
  <2>5. CASE ~LockSource(j)
    BY <2>1, <2>3, <2>5 DEF Apply, EvidenceKept
  <2>6. QED
    BY <2>4, <2>5
<1>3. CASE \E m \in Memories, status \in {"keep", "accepted", "rejected", "suggested"},
             edit \in BOOLEAN : EditMemory(m, status, edit)
  <2>1. PICK m \in Memories, status \in {"keep", "accepted", "rejected", "suggested"},
             edit \in BOOLEAN : EditMemory(m, status, edit)
    BY <1>3
  <2>2. memory[m].status # "none" /\ memory'[m].revision = memory[m].revision
    BY <2>1 DEF TypeOK, EditMemory, MemoryRow
  <2>3. \A n \in Memories \ {m} : memory'[n] = memory[n]
    BY <2>1 DEF TypeOK, EditMemory
  <2>4. QED
    BY <2>1, <2>2, <2>3 DEF EditMemory, SourcesStored, Captured, EvidenceKept
<1>4. CASE \E s \in Sources, archive \in {"keep", "archive", "unarchive"}, move \in BOOLEAN :
             EditSource(s, archive, move)
  <2>1. PICK s \in Sources, archive \in {"keep", "archive", "unarchive"}, move \in BOOLEAN :
             EditSource(s, archive, move)
    BY <1>4
  <2>2. \A t \in Sources : source'[t].revision = source[t].revision
    BY <2>1 DEF TypeOK, EditSource
  <2>3. SourcesStored'
    BY <2>1, <2>2 DEF EditSource, SourcesStored, Captured
  <2>4. \A m \in Memories : /\ memory'[m].status # "none" => memory[m].status # "none"
                            /\ memory'[m].revision = memory[m].revision
    BY <2>1 DEF TypeOK, EditSource, MemoryRow
  <2>5. QED
    BY <2>1, <2>3, <2>4 DEF EditSource, EvidenceKept
<1>5. CASE Retire
  <2>1. \A m \in Memories : /\ memory'[m].status # "none" => memory[m].status # "none"
                            /\ memory'[m].revision = memory[m].revision
    BY <1>5 DEF TypeOK, Retire, Eligible, Supersede, MemoryRow
  <2>2. QED
    BY <1>5, <2>1 DEF Retire, SourcesStored, Captured, EvidenceKept
<1>6. CASE UNCHANGED <<source, snapshots, memory>>
  BY <1>6 DEF SourcesStored, Captured, EvidenceKept
<1>7. QED
  BY <1>1, <1>2, <1>3, <1>4, <1>5, <1>6, MemoryWriters

(* Every memory keeps the snapshot it was quoted from, and is quoted from it. *)
THEOREM EvidenceCorrect == Spec => []EvidenceKept
<1>1. TypeOK /\ SourcesStored /\ EvidenceKept /\ [Next]_vars => (SourcesStored /\ EvidenceKept)'
  BY EvidenceStep
<1>2. QED
  BY <1>1, EvidenceInit, TypeCorrect, PTL DEF Spec

------------------------------------------------------------------------------
(* The files of the vault. *)

\* A flushed row is done only if it was, or if the change made it so.
LEMMA FlushedState ==
  ASSUME NEW row, NEW seen, NEW new
  PROVE  Flush(row, seen, new).state \in {row.state, new.state}
BY DEF Flush

\* A finished job is done only if the worker finished it as done.
LEMMA FinishedState ==
  ASSUME TypeOK, NEW w \in Workers, worker[w].pc # "idle", NEW state \in JobStates,
         Finish(w, state)
  PROVE  \A j \in Jobs : job'[j].state # job[j].state => j = worker[w].job /\ job'[j].state = state
<1>. DEFINE seen == worker[w].seen
            new == [seen EXCEPT !.state = state, !.lease = None]
<1>1. worker[w].job \in Jobs /\ seen \in JobRow
  BY DEF TypeOK, WorkerRow
<1>2. new.state = state
  BY <1>1 DEF JobRow
<1>. HIDE DEF new
<1>3. job' = [job EXCEPT ![worker[w].job] = Flush(job[worker[w].job], seen, new)]
  BY DEF Finish, new
<1>4. QED
  BY <1>1, <1>2, <1>3, FlushedState DEF TypeOK

\* Every step that leaves a job done leaves its file on disk.
LEMMA ExportedStep ==
  ASSUME TypeOK, DoneIsExported, [Next]_vars
  PROVE  DoneIsExported'
<1>1. ASSUME \A s \in Sources : exported[s] \subseteq exported'[s],
             \A j \in Jobs : job'[j].state = "done" =>
                             job[j].state = "done" \/ j[2] \in exported'[j[1]]
      PROVE  DoneIsExported'
  BY <1>1 DEF DoneIsExported, Jobs
<1>2. CASE \E s \in Sources, r \in Revisions, discarded \in BOOLEAN : Capture(s, r, discarded)
  <2>1. PICK s \in Sources, r \in Revisions, discarded \in BOOLEAN : Capture(s, r, discarded)
    BY <1>2
  <2>2. NewJob.state # "done"
    BY DEF NewJob
  <2>3. job' = job \/ job' = [job EXCEPT ![<<s, r>>] = NewJob]
    BY <2>1 DEF Capture, EnqueueRevision
  <2>4. \A k \in Jobs : job'[k].state = "done" => job[k].state = "done"
    BY <2>2, <2>3 DEF TypeOK
  <2>5. QED
    BY <1>1, <2>1, <2>4 DEF Capture
<1>3. ASSUME NEW w \in Workers, WorkerStep(w)
      PROVE  DoneIsExported'
  <2>. DEFINE j == worker[w].job
              seen == worker[w].seen
  <2>1. CASE Select(w) \/ LoseClaim(w) \/ Load(w)
    BY <1>1, <2>1 DEF Select, LoseClaim, Load, ledger
  <2>2. CASE Expire(w)
    <3>1. j \in Jobs /\ seen \in JobRow
      BY <2>2 DEF TypeOK, Expire, WorkerRow
    <3>. DEFINE new == [seen EXCEPT !.state = "failed", !.lease = None]
    <3>2. new.state = "failed"
      BY <3>1 DEF JobRow
    <3>3. job' = [job EXCEPT ![j] = Flush(job[j], seen, new)]
      BY <2>2 DEF Expire
    <3>. HIDE DEF new
    <3>4. \A k \in Jobs : job'[k].state \in {job[k].state, "failed"}
      BY <3>1, <3>2, <3>3, FlushedState DEF TypeOK
    <3>5. QED
      BY <1>1, <2>2, <3>4 DEF Expire
  <2>3. CASE Claim(w)
    <3>1. j \in Jobs /\ job[j] \in JobRow
      BY <2>3 DEF TypeOK, Claim
    <3>. DEFINE claimed == Claimed(job[j], w)
                dropped == [claimed EXCEPT !.state = "superseded", !.lease = None]
    <3>2. claimed.state = "running" /\ dropped.state = "superseded"
      BY <3>1 DEF Claimed, JobRow
    <3>3. job' = [job EXCEPT ![j] = claimed] \/ job' = [job EXCEPT ![j] = dropped]
      BY <2>3 DEF Claim
    <3>. HIDE DEF claimed, dropped
    <3>4. \A k \in Jobs : job'[k].state \in {job[k].state, "running", "superseded"}
      BY <3>1, <3>2, <3>3 DEF TypeOK
    <3>5. QED
      BY <1>1, <2>3, <3>4 DEF Claim
  <2>4. CASE SupersedeJob(w)
    <3>1. \A k \in Jobs : job'[k].state \in {job[k].state, "superseded"}
      BY <2>4, FinishedState DEF SupersedeJob, JobStates
    <3>2. QED
      BY <1>1, <2>4, <3>1 DEF SupersedeJob
  <2>5. CASE \E items \in SUBSET Evidence : Apply(w, items)
    <3>1. PICK items \in SUBSET Evidence : Apply(w, items)
      BY <2>5
    <3>2. j \in Jobs /\ j[1] \in Sources
      BY <3>1 DEF TypeOK, Apply, Jobs
    <3>3. CASE LockSource(j)
      <4>1. Export(j) /\ Finish(w, "done")
        BY <3>1, <3>3 DEF Apply
      <4>2. /\ j[2] \in exported'[j[1]]
            /\ \A s \in Sources : exported[s] \subseteq exported'[s]
        BY <3>2, <4>1 DEF TypeOK, Export
      <4>3. \A k \in Jobs : job'[k].state # job[k].state => k = j
        BY <3>1, <4>1, FinishedState DEF Apply, JobStates
      <4>4. QED
        BY <1>1, <4>2, <4>3
    <3>4. CASE ~LockSource(j)
      <4>1. \A k \in Jobs : job'[k].state \in {job[k].state, "superseded"}
        BY <3>1, <3>4, FinishedState DEF Apply, JobStates
      <4>2. QED
        BY <1>1, <3>1, <3>4, <4>1 DEF Apply
    <3>5. QED
      BY <3>3, <3>4
  <2>6. CASE Raise(w)
    <3>1. j \in Jobs /\ j[1] \in Sources
      BY <2>6 DEF TypeOK, Raise, Jobs
    <3>2. \A s \in Sources : exported[s] \subseteq exported'[s]
      BY <2>6, <3>1 DEF TypeOK, Raise, Export
    <3>3. QED
      BY <1>1, <2>6, <3>2 DEF Raise
  <2>7. CASE Fail(w)
    <3>. DEFINE state == IF worker[w].attempts >= MaxAttempts THEN "failed" ELSE "pending"
                new == [seen EXCEPT !.state = state, !.lease = None]
                row == Flush(job[j], seen, new)
    <3>1. j \in Jobs /\ seen \in JobRow
      BY <2>7 DEF TypeOK, Fail, WorkerRow
    <3>2. new.state # "done"
      BY <3>1 DEF JobRow
    <3>. HIDE DEF new
    <3>3. row.state = "done" => job[j].state = "done"
      BY <3>2 DEF Flush
    <3>4. [row EXCEPT !.due = FALSE].state = row.state
      BY DEF Flush
    <3>5. job' = [job EXCEPT ![j] = [row EXCEPT !.due = FALSE]]
      BY <2>7 DEF Fail, new
    <3>. HIDE DEF row
    <3>6. \A k \in Jobs : job'[k].state = "done" => job[k].state = "done"
      BY <3>1, <3>3, <3>4, <3>5 DEF TypeOK
    <3>7. QED
      BY <1>1, <2>7, <3>6 DEF Fail
  <2>8. QED
    BY <1>3, <2>1, <2>2, <2>3, <2>4, <2>5, <2>6, <2>7 DEF WorkerStep
<1>4. CASE \E w \in Workers : Crash(w)
  BY <1>1, <1>4 DEF Crash, ledger
<1>5. CASE \E j \in Jobs : BecomeDue(j)
  BY <1>1, <1>5 DEF TypeOK, BecomeDue, JobRow
<1>6. CASE OwnerStep
  <2>1. CASE \E s \in Sources : Reprocess(s)
    BY <1>1, <2>1 DEF TypeOK, Reprocess, NewJob, JobRow
  <2>2. CASE \E j \in Jobs : Retry(j)
    <3>1. PICK j \in Jobs : Retry(j)
      BY <2>2
    <3>. DEFINE seen == retrying[j]
                new == [seen EXCEPT !.state = "pending", !.attempts = 0]
                row == Flush(job[j], seen, new)
    <3>2. new.state = "pending"
      BY DEF TypeOK, JobRow
    <3>. HIDE DEF new
    <3>3. row.state = "done" => job[j].state = "done"
      BY <3>2 DEF Flush
    <3>4. [row EXCEPT !.due = TRUE].state = row.state
      BY DEF Flush
    <3>5. job' = [job EXCEPT ![j] = [row EXCEPT !.due = TRUE]]
      BY <3>1 DEF Retry, new
    <3>. HIDE DEF row
    <3>6. \A k \in Jobs : job'[k].state = "done" => job[k].state = "done"
      BY <3>3, <3>4, <3>5 DEF TypeOK
    <3>7. QED
      BY <1>1, <3>1, <3>6 DEF Retry
  <2>3. CASE UNCHANGED <<job, exported>>
    BY <1>1, <2>3
  <2>4. QED
    BY <1>6, <2>1, <2>2, <2>3
    DEF OwnerStep, Review, EditTask, EditMemory, EditSource, LoadRetry, PreviewRetirement,
        Retire, ledger
<1>7. CASE UNCHANGED vars
  BY <1>1, <1>7 DEF vars
<1>8. QED
  BY <1>2, <1>3, <1>4, <1>5, <1>6, <1>7 DEF Next

(* No crash, takeover or late write lets a job end done without its file. *)
THEOREM ExportCorrect == Spec => []DoneIsExported
<1>1. Init => DoneIsExported
  BY DEF Init, DoneIsExported, NoJob
<1>2. TypeOK /\ DoneIsExported /\ [Next]_vars => DoneIsExported'
  BY ExportedStep
<1>3. QED
  BY <1>1, <1>2, TypeCorrect, PTL DEF Spec

------------------------------------------------------------------------------
(* The owner's review.  The strengthening is ViewsFaithful: versions only    *)
(* grow, so a client that holds the version of a row holds the row.          *)

ViewsFaithful ==
  \A m \in Memories :
    /\ view[m].version <= memory[m].version
    /\ view[m].version = memory[m].version => view[m] = memory[m]

(* Of a step on the memories, what every writer but the owner's patch respects. *)
Untouched(m) == memory'[m] = memory[m]

Bumped(m) == memory'[m].version > memory[m].version

SystemWrite(m) ==
  /\ Bumped(m)
  /\ memory[m].status \notin {"accepted", "rejected"}
  /\ memory'[m].status # "accepted"
  /\ memory[m].provenance \in {"edited", "retired"} =>
       /\ memory'[m].provenance = memory[m].provenance
       /\ memory'[m].revision = memory[m].revision
  /\ memory'[m].revision # memory[m].revision =>
       source[m[1]].revision = memory'[m].revision /\ ~source[m[1]].archived

OwnerWrite(m) ==
  /\ Bumped(m)
  /\ memory[m].version = view[m].version
  /\ view'[m] = memory'[m]
  /\ memory'[m].revision = memory[m].revision
  /\ memory[m].provenance \in {"edited", "retired"} =>
       memory'[m].provenance \in {"edited", "retired"}

\* Superseding raises the version and leaves revision and provenance.
LEMMA SupersededFields ==
  ASSUME NEW row \in MemoryRow
  PROVE  /\ Supersede(row).status = "superseded"
         /\ Supersede(row).version > row.version
         /\ Supersede(row).revision = row.revision
         /\ Supersede(row).provenance = row.provenance
BY DEF Supersede, MemoryRow

\* A capture writes memories only as the system may.
LEMMA CaptureWrites ==
  ASSUME TypeOK, NEW s \in Sources, NEW r \in Revisions, NEW discarded \in BOOLEAN,
         Capture(s, r, discarded), NEW m \in Memories
  PROVE  Untouched(m) \/ SystemWrite(m)
<1>1. memory[m] \in MemoryRow
  BY DEF TypeOK
<1>2. \/ memory'[m] = memory[m]
      \/ Outdated(m, s, r) /\ memory'[m] = Supersede(memory[m])
  BY DEF Capture, EnqueueRevision
<1>3. CASE memory'[m] = memory[m]
  BY <1>3 DEF Untouched
<1>4. CASE Outdated(m, s, r) /\ memory'[m] = Supersede(memory[m])
  BY <1>1, <1>4, SupersededFields DEF SystemWrite, Bumped, Outdated
<1>5. QED
  BY <1>2, <1>3, <1>4

\* The worker writes memories only as the system may.
LEMMA ApplyWrites ==
  ASSUME TypeOK, NEW w \in Workers, NEW items \in SUBSET Evidence, Apply(w, items),
         NEW m \in Memories
  PROVE  Untouched(m) \/ SystemWrite(m)
<1>. DEFINE j == worker[w].job
<1>1. memory[m] \in MemoryRow
  BY DEF TypeOK
<1>2. \/ memory'[m] = memory[m]
      \/ /\ LockSource(j) /\ m \in Grounded(j, items) /\ ~Protected(memory[m])
         /\ memory'[m] = Suggested(memory[m], j[2])
  BY DEF Apply, Publish
<1>3. QED
  BY <1>1, <1>2 DEF Untouched, SystemWrite, Bumped, LockSource, Fresh, Grounded, Returned,
                    Protected, DecidedOnly, Suggested, MemoryRow

\* The patch of a source writes its suggestions only as the system may.
LEMMA EditSourceWrites ==
  ASSUME TypeOK, NEW s \in Sources, NEW archive \in {"keep", "archive", "unarchive"},
         NEW move \in BOOLEAN, EditSource(s, archive, move), NEW m \in Memories
  PROVE  Untouched(m) \/ SystemWrite(m)
<1>1. memory[m] \in MemoryRow
  BY DEF TypeOK
<1>. DEFINE moved(row) == IF move THEN [row EXCEPT !.version = @ + 1] ELSE row
            dropped(row) == IF archive = "archive"
                            THEN [row EXCEPT !.status = "rejected", !.version = @ + 1] ELSE row
<1>2. \/ memory'[m] = memory[m]
      \/ memory[m].status = "suggested" /\ memory'[m] = dropped(moved(memory[m]))
  BY DEF EditSource
<1>3. ASSUME NEW row \in MemoryRow
      PROVE  \/ moved(row) = row
             \/ /\ moved(row) \in MemoryRow
                /\ moved(row).version > row.version
                /\ moved(row).status = row.status
                /\ moved(row).revision = row.revision
                /\ moved(row).provenance = row.provenance
  BY <1>3, BumpType DEF MemoryRow
<1>4. ASSUME NEW row \in MemoryRow
      PROVE  \/ dropped(row) = row
             \/ /\ dropped(row).version > row.version
                /\ dropped(row).status = "rejected"
                /\ dropped(row).revision = row.revision
                /\ dropped(row).provenance = row.provenance
  BY <1>4 DEF MemoryRow
<1>. HIDE DEF moved, dropped
<1>5. CASE memory'[m] = memory[m]
  BY <1>5 DEF Untouched
<1>6. CASE memory[m].status = "suggested" /\ memory'[m] = dropped(moved(memory[m]))
  <2>1. moved(memory[m]) \in MemoryRow
    BY <1>1, <1>3
  <2>2. \/ memory'[m] = moved(memory[m])
        \/ /\ memory'[m].version > moved(memory[m]).version
           /\ memory'[m].status = "rejected"
           /\ memory'[m].revision = moved(memory[m]).revision
           /\ memory'[m].provenance = moved(memory[m]).provenance
    BY <1>4, <1>6, <2>1
  <2>3. memory'[m].version \in Nat
    <3>1. [Next]_vars
      BY DEF Next, OwnerStep
    <3>2. QED
      BY <3>1, TypeNext DEF TypeOK, MemoryRow
  <2>4. QED
    BY <1>1, <1>3, <1>6, <2>1, <2>2, <2>3 DEF Untouched, SystemWrite, Bumped, MemoryRow
<1>7. QED
  BY <1>2, <1>5, <1>6

\* Retirement writes memories only as the system may.
LEMMA RetireWrites ==
  ASSUME TypeOK, Retire, NEW m \in Memories
  PROVE  Untouched(m) \/ SystemWrite(m)
<1>1. memory[m] \in MemoryRow
  BY DEF TypeOK
<1>2. \/ memory'[m] = memory[m]
      \/ Eligible(m) /\ memory'[m] = [Supersede(memory[m]) EXCEPT !.provenance = "retired"]
  BY DEF Retire
<1>3. CASE memory'[m] = memory[m]
  BY <1>3 DEF Untouched
<1>4. CASE Eligible(m) /\ memory'[m] = [Supersede(memory[m]) EXCEPT !.provenance = "retired"]
  <2>1. /\ memory'[m].status = Supersede(memory[m]).status
        /\ memory'[m].version = Supersede(memory[m]).version
        /\ memory'[m].revision = Supersede(memory[m]).revision
    BY <1>1, <1>4, SupersedeType DEF MemoryRow
  <2>2. QED
    BY <1>1, <1>4, <2>1, SupersededFields DEF SystemWrite, Bumped, Eligible
<1>5. QED
  BY <1>2, <1>3, <1>4

\* The patch of a memory writes the row its client had read.
LEMMA EditMemoryWrites ==
  ASSUME TypeOK, NEW n \in Memories,
         NEW status \in {"keep", "accepted", "rejected", "suggested"}, NEW edit \in BOOLEAN,
         EditMemory(n, status, edit), NEW m \in Memories
  PROVE  IF m = n THEN OwnerWrite(m) ELSE Untouched(m) /\ view'[m] = view[m]
<1>. DEFINE new == [memory[n] EXCEPT !.status = IF status = "keep" THEN @ ELSE status,
                                     !.provenance = IF edit THEN "edited" ELSE @,
                                     !.version = @ + 1]
<1>1. memory[n] \in MemoryRow
  BY DEF TypeOK
<1>2. memory' = [memory EXCEPT ![n] = new] /\ view' = [view EXCEPT ![n] = new]
  BY DEF EditMemory
<1>3. /\ new.version = memory[n].version + 1
      /\ new.revision = memory[n].revision
      /\ new.provenance = IF edit THEN "edited" ELSE memory[n].provenance
  BY <1>1 DEF MemoryRow
<1>4. memory[n].version = view[n].version /\ memory[n].version \in Nat
  BY <1>1 DEF EditMemory, MemoryRow
<1>. HIDE DEF new
<1>5. QED
  BY <1>2, <1>3, <1>4 DEF TypeOK, OwnerWrite, Bumped, Untouched

(* Every step leaves a memory alone, or is a system write, or a patch of its owner. *)
LEMMA MemorySteps ==
  ASSUME TypeOK, [Next]_vars, NEW m \in Memories
  PROVE  Untouched(m) \/ SystemWrite(m) \/ OwnerWrite(m)
<1>1. CASE UNCHANGED <<source, snapshots, memory>>
  BY <1>1 DEF Untouched
<1>2. QED
  BY <1>1, MemoryWriters, CaptureWrites, ApplyWrites, EditSourceWrites, RetireWrites,
     EditMemoryWrites

------------------------------------------------------------------------------
(* Optimistic review. *)

\* Initially no client holds a row.
LEMMA ViewsInit == Init => ViewsFaithful
BY DEF Init, ViewsFaithful, NoMemory

(* The client's copy changes when it reads a memory and when it patches one. *)
LEMMA ViewSteps ==
  ASSUME TypeOK, [Next]_vars, NEW m \in Memories
  PROVE  view'[m] = view[m] \/ view'[m] = memory'[m]
<1>1. CASE \E n \in Memories : Review(n)
  BY <1>1 DEF TypeOK, Review, ledger
<1>2. CASE \E n \in Memories, status \in {"keep", "accepted", "rejected", "suggested"},
             edit \in BOOLEAN : EditMemory(n, status, edit)
  BY <1>2, EditMemoryWrites DEF OwnerWrite
<1>3. CASE \E w \in Workers : WorkerStep(w) \/ Crash(w)
  BY <1>3 DEF WorkerStep, Crash, Select, Expire, LoseClaim, Claim, Load, SupersedeJob, Apply,
              Raise, Fail, owner
<1>4. CASE UNCHANGED view
  BY <1>4
<1>5. QED
  BY <1>1, <1>2, <1>3, <1>4
  DEF Next, OwnerStep, Capture, BecomeDue, EditTask, EditSource, Reprocess, LoadRetry, Retry,
      PreviewRetirement, Retire, vars, owner

\* A row and a client copy of the same version stay equal.
LEMMA ViewsStep ==
  ASSUME TypeOK, ViewsFaithful, [Next]_vars
  PROVE  ViewsFaithful'
<1>. SUFFICES ASSUME NEW m \in Memories
              PROVE  /\ view'[m].version <= memory'[m].version
                     /\ view'[m].version = memory'[m].version => view'[m] = memory'[m]
  BY DEF ViewsFaithful
<1>1. /\ view[m].version \in Nat /\ memory[m].version \in Nat
      /\ view'[m].version \in Nat /\ memory'[m].version \in Nat
  BY TypeNext DEF TypeOK, MemoryRow
<1>2. CASE view'[m] = memory'[m]
  BY <1>1, <1>2
<1>3. CASE view'[m] = view[m]
  <2>1. memory'[m] = memory[m] \/ memory'[m].version > memory[m].version
    BY MemorySteps DEF Untouched, SystemWrite, OwnerWrite, Bumped
  <2>2. QED
    BY <1>1, <1>3, <2>1 DEF ViewsFaithful
<1>4. QED
  BY <1>2, <1>3, ViewSteps

\* A client that holds the current version of a row holds that row.
LEMMA ViewsCorrect == Spec => []ViewsFaithful
<1>1. TypeOK /\ ViewsFaithful /\ [Next]_vars => ViewsFaithful'
  BY ViewsStep
<1>2. QED
  BY <1>1, ViewsInit, TypeCorrect, PTL DEF Spec

(* A memory is accepted only as the row the owner's client last received. *)
THEOREM AcceptanceCorrect == Spec => AcceptedAsRead
<1>1. TypeOK /\ ViewsFaithful /\ [Next]_vars =>
        \A m \in Memories : memory[m].status # "accepted" /\ memory'[m].status = "accepted"
          => view[m] = memory[m]
  BY MemorySteps DEF Untouched, SystemWrite, OwnerWrite, ViewsFaithful
<1>2. QED
  BY <1>1, TypeCorrect, ViewsCorrect, PTL DEF Spec, AcceptedAsRead

(* Decisions and edits of the owner survive every later extraction. *)
THEOREM OwnerWorkCorrect == Spec => OwnerWorkKept
<1>1. TypeOK /\ ViewsFaithful /\ [Next]_vars =>
        \A m \in Memories : memory'[m] # memory[m] =>
          /\ memory[m].status \in {"accepted", "rejected"} => view[m] = memory[m]
          /\ memory[m].provenance \in {"edited", "retired"} =>
               /\ memory'[m].provenance \in {"edited", "retired"}
               /\ memory'[m].revision = memory[m].revision
  BY MemorySteps DEF Untouched, SystemWrite, OwnerWrite, ViewsFaithful
<1>2. QED
  BY <1>1, TypeCorrect, ViewsCorrect, PTL DEF Spec, OwnerWorkKept

(* No late extraction puts a memory on a revision its source has left. *)
THEOREM PublicationCorrect == Spec => PublishesCurrent
<1>1. TypeOK /\ [Next]_vars =>
        \A m \in Memories : memory'[m].revision # memory[m].revision =>
          /\ source[m[1]].revision = memory'[m].revision
          /\ ~source[m[1]].archived
  BY MemorySteps DEF Untouched, SystemWrite, OwnerWrite
<1>2. QED
  BY <1>1, TypeCorrect, PTL DEF Spec, PublishesCurrent

(* No write of a memory touches the task the owner may be working on. *)
THEOREM TaskCorrect == Spec => TaskKept
<1>1. ASSUME TypeOK, [Next]_vars, NEW m \in Memories, memory'[m] # memory[m], task[m] # "none"
      PROVE  task'[m] = task[m]
  <2>1. CASE UNCHANGED <<source, snapshots, memory>>
    BY <1>1, <2>1
  <2>2. CASE \E n \in Memories, status \in {"keep", "accepted", "rejected", "suggested"},
               edit \in BOOLEAN : EditMemory(n, status, edit)
    <3>1. PICK n \in Memories, status \in {"keep", "accepted", "rejected", "suggested"},
               edit \in BOOLEAN : EditMemory(n, status, edit)
      BY <2>2
    <3>2. task' = task \/ (task[n] = "none" /\ task' = [task EXCEPT ![n] = "open"])
      <4>1. PICK row : AcceptTask(n, row)
        BY <3>1 DEF EditMemory
      <4>2. QED
        BY <4>1 DEF AcceptTask
    <3>3. QED
      BY <1>1, <3>2 DEF TypeOK
  <2>3. CASE UNCHANGED task
    BY <1>1, <2>3
  <2>4. QED
    BY <1>1, <2>1, <2>2, <2>3, MemoryWriters DEF Capture, Apply, EditSource, Retire
<1>2. TypeOK /\ [Next]_vars =>
        \A m \in Memories : memory'[m] # memory[m] /\ task[m] # "none" => task'[m] = task[m]
  BY <1>1
<1>3. QED
  BY <1>2, TypeCorrect, PTL DEF Spec, TaskKept
=============================================================================
