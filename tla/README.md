# SaveMyContext in TLA+

TLA+ models of the parts of SaveMyContext that move a conversation from a browser
tab to something its owner has reviewed, and on to notes, an index, an archive or a
public site, and of what is computed from it on the way: piles, graphs, searches,
completions. They are checked with TLC on small instances, and the core is proved
with TLAPS for all of them. Paths are relative to the repository; `api.py`,
`worker.py`, `store.py`, `models.py` and `cleanup.py` are those of
`src/backend/app/workspace/`, and `index.ts`, `outbox.ts`, `capture-store.ts` and
`delivery-retry.ts` those of `src/extension/src/background/`.

## 1. The system

    provider page --> handleCapture --> outbox (IndexedDB) --> POST /ingest/diff
                                                                    |  one transaction
                        source + revision + job  <------------------+
                                  |  leased worker, language model
                        suggested memories, exported source file
                                  |  owner
                        accepted memories --> tasks, knowledge projection,
                                              drafts, publication, archive

| Component | State | Operations | What makes it hard | What makes it correct |
|---|---|---|---|---|
| **Workspace ledger and worker** (`store.py`, `worker.py`, `api.py`, `cleanup.py`) | SQLite rows of sources, revisions, jobs, memories, tasks; files under the vault | capture, `run_one`, review, edit, archive, reprocess, retry, retire | Leases run out while the holder works; reads without a lock; the owner decides on old rows; the file is not part of the transaction | Evidence of every memory is kept; only the present is published; owner decisions stand; accepted is what was read; every job ends |
| **Capture outbox** (`outbox.ts`, `capture-store.ts`, `delivery-retry.ts`, `index.ts`, `shared/storage.ts`) | IndexedDB queue, settings, one alarm; promises of a service worker | capture, drain, retry, pause, consent, change of backend, filter, discard | The worker is stopped anywhere; timeouts with late arrivals; three activities interleave at awaits; settings change mid-drain | Nothing accepted is lost or sent elsewhere; pause pauses; a waiting queue has its alarm; everything is delivered in the end |
| **Ingest** (`services/ingest.py`, `locks.py`, `context_migration.py`) | messages, watermark, sync events, quarantine | full and incremental captures, imports, deletion, quarantine | captures of several clients arrive late, twice and in another order, and are read in another order than they were asked for; first-capture races | no late or repeated capture rolls accepted text back (one that overlaps another may); deletions are the provider's; evidence is durable before it is acknowledged |
| **Session sync state** (`diff.ts`, `shared/sync-scope.ts`, `sync-state-store.ts`, `index.ts`) | time and fingerprints of what was delivered | filter a capture, advance at a receipt, note a skipped capture | `handleCapture` and the drain read and write it at the same time; receipts are late | it only advances; what it calls seen is stored |
| **Pile pipeline** (`services/processing.py`, `processing_worker.py`, `ingest.py`, `orchestrator.py`, `todo.py`) | pile, pending and export flags of a conversation, the to-do list | sort, assign, discard, recover, fetch and complete a batch, split into segments, edit the list | the model is asked inside and outside of transactions, and answers anything; two databases lock differently; files are not rolled back | what is not pending is sorted as it is now; the owner's pile stands; a model's word alone discards nothing and edits no list; nothing falls off the list unless a request names it |
| **Restructuring** (`services/restructure.py`, `routes_piles.py`) | piles with settings, runs | run over a pile, all, or those due; create, edit, delete a pile | a run lists conversations and works for minutes beside the owner; savepoints differ by database | the owner's assignment stands; a run reports what it committed |
| **Explorer** (`services/explorer.py`) | graphs, communities, paths, views | build, propagate, search for paths, link, group | iterative algorithms with ties and limits | stable and connected communities, cheapest paths, every mention linked up to the limit |
| **Search** (`services/search.py`) | results of one search | read rows, search files, resolve, merge | rows change between the reads; filters and limits in different places | what passes the filters is there, and nothing else |
| **Browser proxy and chat API** (`services/browser_proxy/*`, `openai_proxy.py`, `llm/browser_proxy_client.py`) | locks, pages and their responses, one thread for tasks, stored turns | complete, repair, merge, store | the reply is whatever the page shows last; several callers share a profile | an own answer, of the shown branch where the response names it; no turn twice |
| **Hooks of coding agents** (`codex-plugin`, `claude-plugin`) | offline bundles | collect, post, save, import | lost answers, kills, file names by the second | what was handed over is stored or on disk |
| **Vault** (`services/markdown.py`) | notes of conversations and entities, dashboards | export, move, retire | exports before commits; shared names; the owner's own files | each note where its row says; nobody else's file is touched |
| **Saved pages** (`services/source_capture.py`) | row by capture key, files | save, enrich | repeated requests, several processes | saved means stored as sent; a complete page's files are its own unless another process repeats it |
| **Connection grants** (`services/connection_grants.py`, `auth.py`) | grants, tokens | create, redeem, replace, revoke | several devices at once | a use is counted for each token |
| **Provider projects** (`provider_projects.py`) | bindings with observation time | observe, assign | reordered observations, races with the owner | the owner's choice, else the newest observation |
| **Knowledge projection** (`knowledge.py`) | external notes, fingerprints | reconcile, rebuild, search | calls without a transaction, lost acknowledgements | an acknowledged note is current; answers are current |
| **Editorial and publication** (`editorial.py`, `publish.py`) | drafts, approvals, receipts, a Git checkout | draft, approve, export, publish | read-then-write handlers, interrupted runs | only the approved text goes out, and receipts are true |
| **Evidence archive** (`evidence/*`) | inline values, catalog, packs | transfer, verify, retire, convert | no lock during the transfer; two workers; a full queue | accepted evidence stays in the database or in a pack that the catalog leads to |
| History sync (`history-watermark.ts`, `provider-refresh.ts`, `index.ts`) | per-scope watermark, run in memory | run, status, advance | the run's errors live in memory, its captures in the outbox | the watermark passes only stored history |
| **Tasks, settings, reminders** (`store.py`) | rows with versions, idempotency keys, audit events | create, update, set, announce | repeated requests, two clients at once, spellings of a time | one task for a key, no lost update, one announcement |
| Extraction (`processor.py`, `summarizer.py`, `quality.py`) | cache of summaries | extract | slow, fails, returns anything | — (environment) |
| Migration, frontend, command line, page observers, agentic search, skills | — | — | — | not modelled, see section 6 |

Everything above is listed in `PROJECT.json` with the reason where it is not
modelled; its `hazards` give the line where each difficulty bites.

## 2. Modules

| Module | What it is |
|---|---|
| `Workspace` | The ledger, its workers and its owner |
| `MCWorkspace` | Small instances of it (quotes, upgraded rows, symmetry) |
| `WorkspaceProofs` | Types and lemmas on rows; `EvidenceKept`, `DoneIsExported`; `AcceptedAsRead`, `OwnerWorkKept`, `PublishesCurrent`, `TaskKept` |
| `Delivery` | Abstract: what the extension promises of a capture it accepted |
| `CaptureOutbox` | The outbox in detail; implements `Delivery` |
| `MCCaptureOutbox` | Small instances of it |
| `CaptureOutboxProofs` | Types, `PauseStops`, `RetryArmed`, the refinement |
| `Ingest` | What the backend does to one conversation when a capture arrives |
| `TranscriptSync` | One conversation from the provider through browsers to `Ingest` |
| `MCTranscripts`, `MCTranscriptSync` | Small instances of it |
| `TranscriptSyncProofs` | Types, `NotRolledBack`, `RemovedAtProvider`, `ReleasedIsStored`, `NeverRewound`, `SeenByLive` |
| `Enrichment` | The pile pipeline: second phase, owner, batches, to-do list |
| `Routing` | From a model's answers to segments and a pile |
| `TodoList` | Edits of the to-do list without a model |
| `Restructure` | Piles and their restructuring runs |
| `Explorer` | Graphs, communities and paths |
| `Views` | Links of facts, ideas and the journal |
| `Search` | One search while rows change |
| `Orders` | Listings: the elements of a set in an order, and those of a list that are picked |
| `MCPiles` | Small instances of `Enrichment` to `Search`, in one run |
| `PilesProofs` | Types of what is sorted and restructured; `RoutesHold`, `RunsHold`, `FlagHonest`, `NotesLatest`, `OwnerWins` |
| `ViewsProofs` | Types; `ViewsHold`: graphs, communities and paths, views, searches, the to-do list |
| `Vault` | The Markdown export |
| `Archive` | Cold storage of evidence |
| `MCStores` | Small instances of `Archive` and `Vault`, in one run |
| `StoresProofs` | Types, `StoresHold`, `NothingTaken` |
| `Projection` | The semantic index and its search |
| `ProviderProjects` | Memberships of conversations in projects of the provider |
| `Grants` | Connection grants and the tokens they give |
| `SourceCapture` | Saving a page or a selection |
| `Planner` | Tasks, settings and reminders |
| `Handoff` | Bundles of coding agents |
| `Proxy` | Completions through a driven browser |
| `MCServices` | Small instances of the last seven, in one run |
| `ServicesProofs` | Types, `NotesCurrent`, `AnswersCurrent`, `Membership`, `CountedOnce`, `SavedIsKept`, `CompletionsHold`, with induction on conversations |
| `MCHandoff` | A small instance of `Handoff` by itself |
| `MCLive` | Liveness of `Workspace` and of `CaptureOutbox`, in one run |
| `Editorial` | Drafts, approval, export |
| `Publisher` | The Git adapter, a client of `Editorial`'s endpoints |
| `MCPublisher` | Small instances of both |
| `PublisherProofs` | Types, `SiteIsExported`, `ExportsCurrent`, `RecordsTrue` |

### 2.1 Workspace

State: `source`, `snapshots`, `job`, `memory`, `task` are the tables; `exported` is the
vault's `Sources` directory; `worker[w]` is the local state of one `run_one` (its `seen`
is the ORM's loaded row); `retrying` holds retry requests between their read and their
write; `view` is the row, with its version, that the owner's client holds; `preview` the
fingerprint of the last retirement preview.

**Grain of atomicity.** SQLite serialises writers from the first statement that
writes until the commit; a `SELECT` before it holds nothing. A handler whose first
statement is an `UPDATE` that re-checks its condition is one action: the claim, the
lock of the source, `edit_memory`, `edit_source`, `reprocess`. `enqueue_source`
flushes a write before it looks for the revision and is one action too. A handler
that reads a row, and later writes on the strength of it, is two: `Select`/`Expire`,
`Load`/`SupersedeJob`/`Apply`, `Raise`/`Fail`, `LoadRetry`/`Retry`. Their write is
`Flush`: the unit of work writes only the attributes that differ from the row as it was
loaded, so a stale `seen` overwrites some columns and leaves others.

| Action | Code |
|---|---|
| `Capture` | `enqueue_source` under `enqueue_session` or `enqueue_capture`; a discarded capture archives its source |
| `Select`, `Expire`, `LoseClaim`, `Claim` | `worker.py` 24-87: oldest due job, out of attempts, claimed by another, claimed; a claim of a stale or archived source supersedes the job in the same transaction |
| `Load`, `SupersedeJob`, `Apply` | 104-201: lease checked, source read, no-op `UPDATE` that takes the lock, then memories, file, job |
| `Raise`, `Fail` | 202-212: any exception; the file may be written already |
| `Crash`, `BecomeDue` | a process dies; `available_at` passes |
| `Review`, `EditMemory`, `EditSource`, `Reprocess`, `EditTask` | endpoints of `api.py` |
| `PreviewRetirement`, `Retire` | `retire_legacy` without and with a fingerprint |

Abstractions: time is the flag `due` of a job (`available_at <= now`), so a lease
may run out at any moment after the claim; `created` keeps the order of
`created_at`. A lease is named after its worker, not a fresh identifier: a worker
runs one `run_one` at a time. The processor version is fixed, so a job is a source
and a revision. A memory is its source and the passage it quotes, as its id digests
source, kind and evidence. The extractor returns any set of passages, in the text or
not; the quality gate only shrinks that set. `Init` is an empty ledger, or one upgraded
from the keyword extractor (`Legacy`).

### 2.2 CaptureOutbox

Each action is the code between two awaits of a service worker. Three activities
share its event loop: `enqueueTask` (a FIFO of which `task` is the running member),
the single-flight drain `captureDrain` and the FIFO of `withDeliveryAlarm`. `settings`,
`queue`, `created`, `alarm` survive a stop of the worker; everything else of it is
gone after `Kill`, while a request already on the `wire` may still arrive.

| Action | Code |
|---|---|
| `Observe`, `Store`, `Reject`, `FlushTask` | `handleCapture`: settings, the item pinned to its destination, `put`, `ensureDeliveryRetry`, flush |
| `AskDiscard`, `BeginDiscard`, `Clear` | `CLEAR_CAPTURE_QUEUE`: pauses at once, waits for its turn and the drain it finds, empties the store |
| `Open`, `ListItems`, `SkipDeleted`, `Check`, `Send`, `Remove`, `Close` | `flushCaptureOutbox`, `deliverCaptureOutbox`, `drainCaptures`, `iterate` |
| `Deliver`, `Refuse`, `Timeout` | the backend committed and answered; it refused or the request was lost; no answer in time |
| `Survey`, `Schedule`, `Ensure`, `FireAlarm` | `scheduleDeliveryRetry`, `ensureDeliveryRetry`, `onAlarm` |
| `SetPaused`, `AcceptConsent`, `SaveSettings` | messages of the extension's own pages |
| `Kill`, `Wake` | stop; any listened-to event, a browser restart among them |

Abstractions: a capture's identity is the payload and the destination, as
`captureIdentity` digests them; encryption and the byte limit are left out (the item
limit stands for both); `createdAt` is the number of the write. `iterate` reads
records in batches ahead of their delivery; the batch is `SkipDeleted` being
possible or not. The two reads of `Survey` (settings, then count) are one step. Late
arrivals of the same item are one request on the wire. Consent is given to one
destination, and moving to another pauses until it is given again.

### 2.3 Ingest and TranscriptSync

`Ingest` is `IngestService` in workspace mode, for one conversation: `transcript` is its
`ChatMessage` rows, `watermark` the later of `last_snapshot_at` and
`last_captured_at`, `events` and `quarantine` the kept evidence, and `serving` the
requests between the rows they loaded and their commit. `TranscriptSync` puts around it
what decides which captures arrive, and when: the provider's page, and each browser's
`handleCapture`, sync state, outbox and drain.

| Action | Code |
|---|---|
| `Serve`, `Quarantine`, `Accept`, `Rollback` | `ingest`: the lock and the loaded rows; a capture that needs repair; the stale path and the merge, in one transaction; a full evidence queue or any error |
| `Ask` | the page asks the provider, and the extension takes the time (`injected/index.ts:277` and 325) |
| `Observe` | the response is read when it ends, up to two minutes later (`response-observer.ts:4`), and dated with that time |
| `Begin`, `Enqueue`, `Skip` | `handleCapture`: read the sync state, then send what `buildIngestPayload` finds new, or note that a rule skips the capture |
| `Send`, `Timeout`, `LoadSync`, `SaveSync`, `Remove` | `deliverCaptureOutbox` and `drainCaptures`, with the read and the write of the sync state apart |
| `Import` | `import_context` without `captured_at`, of unknown completeness |
| `Write`, `Switch` | the provider (external): messages are written or edited, a prompt and its answer together; the branch that is shown changes, messages are deleted |
| `Kill` | the service worker stops |

Abstractions: a message's text is the time it was written, so "older text" is a
comparison; no two requests are made at one time and clocks agree (the backend refuses only
times far in the future). Requests overlap, so that stamps and texts may be in opposite orders; `MaxAsked` bounds
how many are under way. Order, parents, title and account of a session are left out. Settings and
the alarm are in `CaptureOutbox`, so here the drain may always run; the two share
the fact that a receipt follows the commit. A resend of known messages (changed project or
title) is a choice. `Modes` and `Imports` select what an instance contains.

`heldAt` is a history variable: the time of the last dated capture of each message that was accepted. It
is what a deletion must be newer than, and a roll-back too: `NotRolledBack` lets text get older only if it was
written after all accepted captures of it had been asked for.

### 2.4 Enrichment and Vault

A request is a record of `tx` with the rows it has locked (`held`) and what it will commit
(`new`). The two engines differ in the locks: `ForUpdate` and `Free` say what each waits for.
`Capture` is phase one of `ingest`; `Load`, `Claim` or `LoseClaim`, `Answer`, `Export`, `Commit` are phase two and the
owner's requests; `Fetch`, `Complete`, `ApplyItem`, `ExportItem`, `CommitBatch` a browser batch. What the model
says is a choice of pile. `derived` is a history column: the revision the output was made from.

`Vault` is what `Export` and `ExportItem` do to the files: `WriteNote`, `RemoveOld`, `Install`, `Finish` are
`write_session` step by step under the vault's lock, `Commit` and `Fail` the end of the transaction around it. Two
history variables name the exceptions that the code allows: `torn` (the last request of a conversation failed
after its note was moved) and `behind` (an export did not see a transaction still open).

### 2.5 Archive, Projection

`Archive`: `Read`, `Verify`, `Put`, `ReadBack`, `Retire` are `transfer_batch`; `Convert` to `Point` are `migrate_pack`; `Capture` is any
write of evidence, refused at the limit. A value stands for its digest. `Damage` makes a pack unreadable at any time; a value that only such a pack
holds is still held for `EvidenceRetrievable`, whose promise is about what the code does and not about the disk. `Projection`: `Scan` to `Finish` are `sync_once`, whose
calls to the index are steps of their own; `Ask`, `Hit` or `Degrade`, `Answer` a search. `row` carries version (or
revision, title, project) and visibility, the two things a fingerprint digests.

### 2.6 ProviderProjects, Grants, SourceCapture

Each is one table and its writers. `ProviderProjects`: `Begin` reads, `Commit` writes what the unit of work would
(`Bound`, `Writes`, `Observed`), `Collides` is a violated unique key, `Edit` the owner. `Grants`: `Check` is the unlocked read of
`redeem_connection_grant`, `Issue` the token, `Claim` the conditional count. `SourceCapture`: `Find`, `Insert`, `Lock`, `Write`, `Commit`, `Fail` are `capture` and
`_complete_capture`; a request belongs to a server process, whose lock orders requests with its key. The row that `Lock` waits for is not read again: the
session keeps the object it loaded, so that a process that waited for another's enrichment enriches once more, and its `UPDATE` sets what differs from
that object. Files are kept by the title they are named after.

### 2.7 Editorial and Publisher

A handler is two steps: `BeginEdit`, `BeginApprove`, `BeginExport` read the draft and decide, `Save`, `Export` or `Refuse` write under
the compare-and-swap. `Publisher` extends `Editorial`: a run of `publish.py` is a caller of these endpoints, `Launch`
to `RecordPush` are `main` in its order, `Quit` is any refusal or failure, `Crash` a stop between two effects. A commit
is the collection it holds.

### 2.8 Routing, TodoList

`Routing` is one conversation in `orchestrator.py`. Every question to the model is an action whose parameter is the answer, any that
the schema admits: `ChooseOwn` is `classify_pile` of the owner's piles, `Split` asks for segments, `Clip`, `Extend` and `Join` are the two loops of
`classify_segments` and what is between them, `Segmented` is `_apply_segmented`, `Classify` is `classify` with its guards and the heuristic
(`Guesses`) it falls back to. A message is whether the owner's words name a list and have a verb, which is all that the guards read, and whether anyone's have one of
the terms that the heuristic counts (`Mentioned`): it scores the assistant's words too.

`TodoList` is `heuristic_todo_result`: `Request` finds an item (`Find`: by its key, else by a part of it in either direction), `Rewrite` renders the list and reads it
again (`Sanitized`, `Rendered`). A key is a sequence of letters, so that being a part of another is modelled; whether the file changed
meanwhile is in `Enrichment`.

### 2.9 Restructure

`RestructurePile`, `RestructureAll`, `RestructureDue` begin a run: the pile is read once, its unlocked conversations are listed by the time of their processing. `Claim`
is the savepoint with the guarded claim of `processing.py`, `Settle` the rewrite, `Commit` the end of the transaction with the time of the run, `NextDue` the next pile
of a due run, `Abort` any failure, which leaves the request nothing to report (`NoReport`). `OwnerClaim` and `OwnerCommit` are assignment and recovery, `CreatePile`, `UpdatePile`, `DeletePile` the endpoints.
`holder` has the row locks: on postgres one for each row until the commit, on sqlite one for the database, where a savepoint that no
transaction encloses commits by itself (`CommitsAlone`).

### 2.10 Explorer, Views, Search

`Explorer`: `BuildGraph` is `_build_factual_graph` or `_build_similarity_graph` with their limits; `Visit` one node in a round of `_detect_communities`; `BeginWalk` and `Pop` the
heap of `_build_graph_path`. Costs are integers, `CostScale / (weight + 1)`, where the code has floats: the scale is a multiple of all denominators,
so that costs that are equal on paper are equal in the model; the code may order them by their rounding.

`Views`: `LinkFact` is one round of `_factual_links`, `ListSources` the cut of the sources found (those with most terms first, then by title), `ViewIdeas` is `_idea_views` with `_best_idea_target`, `ViewJournal` the groups of people. A text is the set of its words.

`Search` is one request of `search.py`, a step for each await: `ReadSessions`, `ReadFacts`, `ReadCaptures`, `ReadList`, `Grep` (the search of the files, external: any
paths), `ResolveSessions`, `ResolveCaptures`, `Merge`; `Edit` is a row that changes meanwhile.

### 2.11 Planner, Handoff, Proxy

`Planner`: each handler is a read (`Begin...`) and a commit (`Commit...`), between which others commit; the compare-and-set of a version and the unique key are in the commit.
`Deliver` is the adapter that announces each key once. `trail` is the audit log, which the code writes in the same transaction.

`Handoff`: `Stop`, `DumpMarkdown` and `DumpFromClaude` build a bundle, `Post` is the request with its four outcomes (one is that the backend stores it and the
answer is lost), `Save` the offline file, `Kill` the limit on a hook's time, `ImportFile` the owner's import. `Import` is what `Ingest` does with a snapshot of unknown completeness, reduced to one
conversation's messages and their time. The clock counts half seconds, since file names do not tell them apart.

`Proxy`: `Ask` and `BeginTask` are the two kinds of caller, `Open` to `GiveUp` are `complete` (`service.py`, `capture.py`): a page with its accumulator, responses recorded in the order in
which they end, the prompt, the reply from the newest response that has an assistant's text, or from the page. A loaded conversation may not name its current message, and the parser then takes all of them,
those of other branches too (`MappingPath`). `Keep` is the thread of `generate_json` and its repair,
`Merge` and `Store` are `_merge_turns` and the ingest after it. `Speak` and `Switch` are the provider and the owner in a tab of her own (external).

## 3. What the runs check

| Run | Instance | Shows |
|---|---|---|
| `workspace_queue` | 2 workers, 1 source, 2 revisions, 1 passage that only one revision contains, 2 attempts | `TypeOK`, `EvidenceKept`, `DoneIsExported`, `PublishesCurrent` under takeovers, stale extractions, failures between file and commit |
| `review` | 1 worker, 1 crash, upgraded ledger, versions up to 3, 1 request | `AcceptedAsRead`, `OwnerWorkKept`, `TaskKept` against the owner, retirement and captures |
| `revert` | 1 worker, 2 revisions | finding: `CaptureHasJob` is violated |
| `transcript` | 2 messages; 1 browser, complete and live captures, imports, 4 changes or requests, 2 requests under way, 1 fault, 1 skipped capture; or the same with live captures only and nothing skipped | `TypeOK`, `NotRolledBack`, `RemovedAtProvider`, `ReleasedIsStored`, `NeverRewound`; `SeenByLive` in the second instance |
| `two_clients` | 2 browsers, live captures, 5 changes or requests, 1 under way | finding: `SeenIsStored` is violated |
| `outbox` | 2 captures, 2 destinations, 2 places in the queue, 2 writes, 2 changes by the owner, 1 failure, 1 stop | `TypeOK`, `PauseStops`, `RetryArmed`, `KeepsPromise` |
| `live` | ledger: 2 workers, 1 revision, 1 crash, 1 request; or outbox: 2 captures, 1 destination, 1 change, 1 failure or stop | `JobsEnd`, `Drained` under fairness |
| `piles` | sorting: 1 conversation, 2 requests at a time, 2 revisions, 2 piles, both databases, both ways of processing; routing: up to 3 messages, up to 2 segments, an own pile; restructuring: 2 conversations, 2 runs, 2 rewrites, 2 edits, both databases; graph: 3 conversations, 5 nodes; shelf: 4 conversations of 8 kinds, 1 source listed; search: 2 conversations, 1 page, 7 queries, 1 changed row; list: up to 3 items, 2 requests | `TypesOK`, `FlagHonest`, `NotesLatest`, `OwnerWins` (sorting), `RoutesHold`, `RunsHold`, `ViewsHold` (graph, shelf, search, list) |
| `publishing` | 2 drafts of 2 slugs, versions 1 and 2, 3 commits, 1 interruption; or 1 draft, 2 of 3 copies, 3 versions, 2 editors, a copy with findings | `TypesOK`, `SiteIsExported`, `RecordsTrue`, `ExportsCurrent` |
| `stores` | archive: 2 rows, 2 values, 2 transfers, 3 captures, 1 damaged pack, a queue of 2; vault: 2 conversations, 2 folders, 1 entity, 2 requests | `TypesOK`, `StoresHold`, `NothingTaken` |
| `services` | index: 1 record, 2 contents, 1 failure, 1 rebuild; projects: 2 sources, 3 observations; grants: 2 grants, 3 devices; pages: 1 key, 3 requests, 2 processes, 3 enrichments of 2 titles; plans: 2 clients, 2 tasks, 3 versions, 1 key; agents: 1 conversation, 1 file, 2 bundles; completions: 2 calls, 2 conversations of up to 5 messages, 2 providers | `TypesOK`, `NotesCurrent`, `AnswersCurrent`, `Membership`, `CountedOnce` (grants, plans), `SavedIsKept` (pages, agents), `CompletionsHold` |
| `handoff` | 2 conversations, 2 bundles, 1 second | finding: `ImportedLater` is violated |

A run whose MC module holds several instances chooses one in its initial state; their properties say which they are
about. The instances share no variable that either changes for the other.

**Bounds.** A takeover takes two workers; going stale takes two revisions, and a
grounding mistake a passage that one of them lacks. Nothing in the ledger relates two
sources except the order of the queue, so one is enough for the safety properties.
`MaxVersion` stops the owner, not the workers: 3 is suggested, edited, decided, each
with a competing write. `workspace_queue` has no crash because a dead worker is
one that takes no more steps while its lease runs out, which safety already covers;
`review`, where one worker would otherwise always finish, and `live`, where a worker is fair, have one. In the outbox two captures
give a queue with a head and a tail, two destinations a move away and back, two
changes a pause and its end, one failure a timeout with a late arrival; `KeepsPromise`,
`PauseStops` and `RetryArmed` are proved without any bound. In a conversation one message
is edited or deleted while the other moves the watermark; a write, a request, another
write and a late request are the four steps of a roll-back or a wrong deletion, and two
requests under way are one that is read before another that was made earlier. The
fifth step of `two_clients` lets a capture that another overtook be acknowledged. The
properties of `transcript` are proved without the bounds, and for any number of browsers. `SeenIsStored` holds for one client
only, hence one browser and no imports in the second instance (`OnlyLive`); for one browser it is proved without bounds too.

Two requests at a time are a request and what overtakes it; a conversation needs two revisions to have an old result, and
sessions meet only in the to-do list and in batches. With browser processing, captures do not touch that list, so the run gives no
conversation a second revision while the owner has the list open. `RecordsTrue` is stated for one publisher and one interruption: with two, a second run can
commit what a first one wrote and never validated, which `docs/writing-and-summaries.md:143` excludes ("validates before
committing") only for a run that goes through; for any drafts, copies and versions it is proved. In the archive two rows share or do not share a value, two transfers
race with a capture that replaces a message's value. Three devices redeem a grant that allows one use or any number. Three requests in
two processes are a repetition inside a process and one beside it.

Three messages and two segments give an overlap, a gap, a segment past the end and two neighbours of one pile. Two conversations and two
runs are a run that has one claimed and one listed while another run and the owner want both. `RoutesHold` and `RunsHold` are proved without these bounds. Five nodes with five edges give two components, ties and two ways between two nodes; paths have up to three hops and
three are returned, so that the limit is reached; the code's limits are larger, and enter the model only as such numbers. Label
propagation stops after the code's 10 rounds at the latest; whether it has settled by then depends on the graph, and `CommunitiesHold` speaks of the case that it has. A completion that continues a
conversation after another, with one more answer, needs four messages; the fifth lets a page load a conversation of two branches without naming the
shown one. In `live` a failure and a stop do not both happen in one
behaviour; each alone leaves the queue to the alarm.

**Deadlock** is checked for the ledger, whose clients and captures never end. It is off
in the others, where the bounds let a drained queue, a finished search or a spent owner rest.

**Fairness.** `run_worker` loops for ever, sleeping between polls and surviving
exceptions, and clocks advance: weak fairness of each worker's steps and of each job
becoming due. Owners, captures and crashes get none. In the outbox the event loop
runs what is ready, alarms fire, browser events come (`Wake`) and a request that
no failure meets arrives; the owner, refusals, timeouts and stops get none. `Drained`
needs finitely many failures and stops, which the bounds state.

**Properties and mutants.** Each property has a faulty variant of the code
that breaks it, defined beside the operator it replaces and marked `Faulty`: a claim that
is not counted, an update that keeps the version, a lock that does not compare the
revision, a drain that reads the settings once, an alarm reconciled only after an error, a heap that takes off its oldest entry, a
segment that starts where the model proposed it.

### Findings

*Revert* (`store.py:82`). Both the README (line 113) and `docs/workspace-design.md:26`
say that a capture and its job commit together. A capture whose revision the source had
before adds no job. A source captured as A, then as B before the worker reached
A's job (which is then superseded), then as A again, is current with no job that
will process it. `CaptureHasJob` states the promise; the run `revert` shows the trace.

*Two clients* (`ingest.py:147`). `docs/capture-integrity.md:43` promises that edits of known
messages are detected and newer ones become a revision. Newer is judged by one
watermark of the conversation. If the capture of an edit waits in one browser while
another browser delivers a later capture of other messages, the edit is passed over, and the
first browser, whose own receipts are in order, records its fingerprint: no live capture sends
it again until a full snapshot does. An undated import has the same effect, as it
moves the watermark to the time of its processing.

*Handoff* (`codex-plugin/hooks/savemycontext_codex_hook.py:444`). `skills/context-migration/SKILL.md:59` promises an offline
bundle "so the context can be imported later". The file is named by provider and second; the bundle of a second conversation that stops within that second replaces the
first. `ImportedLater` states the promise; `SavedIsKept` holds with these files excepted.

Disagreements that modelling showed, and that the properties except by name:

- Captures whose requests overlap are ordered by the start of the request and read at the end of the response (`injected/index.ts:277`), so
  that the later stamp can carry the older text; it then replaces the newer one (`ingest.py:147`, 607), although `docs/capture-integrity.md:45` says
  that stale edits cannot roll back accepted text. `NotRolledBack` and `RemovedAtProvider` speak of the time of the request.
- A skipped capture writes the whole sync state back as it read it, beside the drain (`index.ts:1895`); a receipt stored in
  between is lost (`docs/performance.md:60`: "Never rewind local state"). Captures are then sent again. `NeverRewound` excepts the skip.
- After A, B, A, publication of A, and B again, the suggestion of A is acceptable although the source is B (`store.py:82`, `api.py:371`).
- On sqlite, which ignores `FOR UPDATE`, a browser batch can clear the pending flag of a capture that committed meanwhile
  (`ingest.py:193` comments "so the waiting capture always wins"). `WaitingCaptureWins` states it; `FlagHonest` excepts that installation.
- Later items of a batch write a to-do list built from the first copy under a revision read again (`processing_worker.py:211`): an edit of the
  owner in between is dropped. `OwnerWins` excepts those items.
- On postgres an import that read the binding before the owner's assignment overwrites it (`provider_projects.py:88`;
  `docs/chatgpt-projects.md:20`). `ManualFirst` states it; `Membership` is about sqlite there.
- A source that returns to an earlier content after a lost acknowledgement keeps the wrong note in the index. `Restored` states it.
- A recovery of a conversation that is not discarded exports the row it first read (`routes_piles.py:163`); the owner's requests that fail
  after the export leave a moved note behind; a damaged pack blocks every batch that refers to it.
- In a continued thread `wait_for_reply` can return the last reply of the loaded history (`browser_proxy/capture.py:98`);
  `tests/test_browser_proxy_llm_client.py:81` expects the second reply for the second task. `AnswersPrompt` states it; `OwnAnswer` is about new conversations.
- Two stores of one conversation lose the turns of one of them (`openai_proxy.py:160`), and conversations that are answered before their
  page has its address are filed together.
- A restructuring run writes the settings of its pile back as it read them (`restructure.py:193`); two changes of the notification settings at once lose one (`store.py:281`).
- A search with an account or tag filter applies it after the limit (`search.py:142`), and saved pages and the to-do list ignore the account.
- Segments are asked for as contiguous; gaps between them stay. The heuristic classifier may answer "todo" where a list is only mentioned, or where
  only the assistant mentions one (`heuristics.py:134` counts everyone's words): without a model, or when it fails, a conversation lands on the
  to-do pile unasked. `RoutesAsked` promises the guards for a model's answer only.
- On postgres a second process that waited for the enrichment of a page repeats it: the row is selected again without `populate_existing`
  (`source_capture.py:237`; `ingest.py:761` has it), so that the waiter still sees it incomplete. It overwrites the files, and if it then fails the
  complete row keeps what they no longer show. `FilesShowRow` excepts such rows (`repeated`); `RepeatedAcross` says that inside one process there are none.
- A task whose page has no address yet when the reply comes is repaired in a new conversation, without what it is to repair
  (`browser_proxy_client.py:59`), and a loaded conversation that names no current message is read with all its branches
  (`parsers.py:244`). `RepairsOwn` and `ShownAnswer` say both.
- A request to add an item takes the place of one whose name holds the new name or is part of it (`todo.py:285`): the older item is no longer
  listed under its own. `AskedIsListed` promises only that no item of another name changes, and none where one has the very name.
- Dashboards, `Home.md` and the generated README and AGENTS files are overwritten whatever the owner wrote into them (`markdown.py:552`); her files in `NothingTaken`
  are the others.
- A file of the to-do list with an item twice keeps the last at the next rewrite, which can undo a request that found the first; an item without
  letters or digits matches every name. `AskedIsListed` and `NoneMerged` except such files.

`docs/capture-integrity.md:32` speaks of a once-per-minute alarm; the code uses a
one-shot alarm with a back-off (`delivery-retry.ts`). The model follows the code.

## 4. What is proved

With TLAPS, for every value of the constants that satisfies the assumptions of the modules. These say that `None` and the other
marks are told apart from the values beside them (`NoneAssumption`, `StampAssumption`, `VaultAssumption`, `GrantsAssumption`, `ProjectsAssumption`,
`PagesAssumption`, `PlannerAssumption`, `RunsAssumption`, `CompletionsAssumption`), that rows, words, entities and predicates are
numbered and each holding has finitely many of them (`SearchAssumption`, `ExplorerAssumption`, `ViewsAssumption`), that the texts of a list have an order (`TodoAssumption`), that there are two databases (`SortingAssumption`), that the pile of new conversations is built in (`RunsAssumption`), that sources, revisions and conversations are finite sets, that bounds are
naturals and devices finitely many (`BoundsAssumption`), that the quotes and the upgraded rows are consistent, and that transcripts are not empty and answers keep to their schema. TLC
evaluates each of them in a run.

| Theorem | Argument |
|---|---|
| `TypeCorrect` | `TypeOK` is inductive; one lemma for each group of actions |
| `EvidenceCorrect` | needs `SourcesStored`: the current revision of a source has its snapshot. A published memory takes the current revision (`LockSource`) and a passage found in it (`Grounded`); no other writer changes a memory's revision, and snapshots only grow |
| `ExportCorrect` | `DoneIsExported` is inductive with the types. `FlushedState`: a write that trusts a stale row leaves the state the database holds or sets the state it was asked for; only `Apply` asks for "done", in the step that writes the file, and files only grow |
| `AcceptanceCorrect`, `OwnerWorkCorrect` | `ViewsFaithful`: the version a client holds is at most the row's, and equal versions are equal rows. Every write of a memory is a `SystemWrite` (raises the version, leaves decided rows alone, keeps edits) or an `OwnerWrite` (compares the version first) |
| `PublicationCorrect`, `TaskCorrect` | from the same classification of the writers |
| `OutboxTypeCorrect` | `TypeInv`: types with `Awaited` (the alarm operation a task waits for is queued), `Surveyed` (what was read belongs to the head of the alarm queue), `DrainTyped` (a delivering drain has its destination and item) and `Asleep` (a stopped worker has no work) |
| `PauseCorrect` | `PauseInv`: under a pause, a capture that was checked and not yet sent means that none was sent since the pause began |
| `RetryCorrect` | `RetryKept`: while captures wait unpaused, a drain runs, or the alarm is set and no decision to clear it was made, or alarm work that still reads the queue is pending |
| `PromiseCorrect` | `Conveyed`: queue, wire and drain hold only accepted captures, the drain only those of its destination, and what it is about to remove was received. With it each step of the outbox is a step of `Delivery` or a stutter |
| `TranscriptTypeCorrect` | `TypeOK` is inductive |
| `NeverRolledBack`, `RemovalsJustified` | `SyncInv`: a capture in flight, in any queue, request or handler, shows the conversation as of its own time (`CapturesTrue`); what is stored and what was accepted is not beyond the watermark (`Watermarked`); the lock keeps loaded rows current (`RowsCurrent`). A capture shows messages as they were at some time from its request on. One beyond the watermark was therefore asked for after every accepted capture of what is stored, and what it replaces by older text, or lacks, was written, or was missing, since. `Carried`: every step but a request and its response only moves captures or drops messages from them |
| `ReleasesStored` | `Receipted`: the capture at the head of an outbox whose receipt the drain holds is durable |
| `SyncAdvances` | `ReadsOrdered`: what the drain read is not newer than the sync state, and older only by a skipped capture |
| `SeenStaysStored` | for one browser (`OneBrowser`). `LiveInv`: no two of its captures are of one time (`Distinct`); the watermark is that of the sync state, or of the head of the outbox, which then is stored (`Level`, `Unserved`); a request repeats what was served or sends that head (`Sent`). A receipt therefore is for a capture that is stored, or that is older than the sync state and does not advance it (`Drained`) |
| `RoutesCorrect` | `RoutingInv`: what was cleaned is `Sound` and ends before the cursor (`Ahead`), what was joined is `Sound`, ends where the last cleaned segment that was read ends (`Follows`) and puts each message in the pile it had (`SamePiles`). `SoundAppend` and `SoundStretch` say when a segment may be appended or extended: a longer "todo" segment still holds the words that ask for it. A pile that no answer has chosen is at the stage "guessed", where `RoutesAsked` asks for a mention only |
| `PublisherTypeCorrect`, `PublishingCorrect` | `EditorialInv`: an approval in force is for the copy that the draft holds, and every receipt for a copy that was approved; beside the adapter (`PublisherInv`), at the endpoints by themselves, and in both instances of the run with their bounds |
| `SiteCorrect` | `PublisherInv`: what is in the worktree or in a commit was exported, and a run reads only such articles and writes one only once its own export was granted (`RunHolds`). It rests on `EditorialInv` |
| `ExportsAreCurrent` | `EditorialInv`: a view and a request are not newer than the draft; the request of an export holds the copy that was seen and, while the version stands, the draft itself (`RequestHolds`), so that the comparison in the write speaks of the draft as it is; every draft is in its own history (`HistoryHolds`) |
| `RecordsCorrect` | for one publisher and at most one interruption (`OnePublisher`, `OneInterruption`). `CheckoutInv`: what the run knows of the worktree, the commits and its receipt, at each of its steps. `RecordedInv`: without an interruption at most one article waits for its commit (`OneWaits`); after one that leaves an article without its validation, every run refuses the worktree (`Refused`) |
| `StoresTypeCorrect` | the types of `Archive` and of `Vault` are inductive within the two invariants below |
| `StoresCorrect` | `ArchiveInv`: a row holds the accepted value or a reference whose catalog entry leads to a pack that has it (`RowHolds`, `Archived`), readable or damaged since; what a transfer knows of packs is true, and read before it retires (`TransferHolds`); a conversion has a plain pack with the values of the old (`ConversionHolds`). `NotesInv`: a request finds the note where the committed row says, is alone with its conversation and holds the lock while it changes files. `GraphHolds`: at most one request has exported and not committed, and what is installed shows its rows, unless the last export did not see a transaction still open (`behind`) |
| `NothingIsTaken` | from the same invariants, for every step: a value that a transfer takes out of the database is in a pack it has read, unless the catalog has moved on to another; an export changes only the notes of its own conversation, and no page of the user's |
| `NotesStayCurrent`, `AnswersStayCurrent` | `IndexInv`: a round works on records and chunks it has loaded, and what it stores is the note it wrote (`RoundHolds`); while no call has failed every fingerprint is that of the note (`SourcesHold`); those of memories are never ahead, and one that is current goes with its note even after failures (`MemoryHolds`) |
| `MembershipCorrect` | `MembershipInv`: what a capture has read of its source is there until the owner chooses, on sqlite until it commits (`CaptureHolds`); a binding is the owner's or that of the newest applied observation (`SourceHolds`); observations differ in their time (`ObservedHolds`) |
| `CountsCorrect` | `GrantsInv`: what a grant counts are its tokens (`GrantHolds`, `TokensHold`), and a redemption that has claimed leaves room for its token and is alone (`ClaimHolds`). `PlannerInv`: a key has one task (`KeysHold`); what a client has read is what the task still holds if its version is the same (`AskHolds`); the version of a task is the length of its history, whose entries join (`TrailHolds`) |
| `SavedStaysKept` | `PagesInv`: who completes a page finds her payload stored and, under the lock, is alone (`PageRequestHolds`); the files of a complete row that was not taken up again show it (`PageHolds`), and who takes one up again came while another process served the key, since a process serves one request with a key at a time (`ServedApart`, `Across`). `AgentsInv`: what a hook has in hand is the newest of its conversation at the backend and on disk (`HookHolds`); no file was captured after it was handed over (`MarksHold`) |
| `CompletionsCorrect` | `CompletionsInv`: a conversation is a tree (a message comes after its parent) that only grows, and a page's responses are messages of its own conversation, so that the branch of a message is closed and keeps, and what a loaded conversation shows, or all of it, is noted when it is opened. While a call is in the browser nobody else has the lock, and nothing that its page receives is older than its prompt but a conversation it loaded itself. Facts about branches are proved by induction on the message, as statements about the least member of a set of numbers (`LeastNat`, `NatSetInduction`); `Overlap` is at least what the client repeats, and the reply is appended once |
| `ServicesTypeCorrect` | on top of the invariants of the other rows: who answers to a key of pages is alone with it in its process (`ServedApart` in `PagesInv`); a grant has no more tokens than devices (`GrantsTypes`); versions, transcripts, histories and the clock stay in their bounds (`PlansTypes`, `AgentsTypes`) |
| `RunsCorrect` | `RunsInv`: what a run has sorted and not committed it holds, and nobody has locked (`RunHolds`); what it has committed it has reported or will report, unless it fails (`ReportHolds`). On sqlite a run that has skipped nothing has nothing uncommitted, so that its savepoints' locks may go |
| `PendingIsHonest`, `ExportsAreLatest`, `OwnerAlwaysWins` | `SortInv`. No two requests have locked a row together, and on sqlite only one has locked any (`Apart`). What a request will commit of a row is the row as it is now but for its sorting, and only an owner's request sorts one that is locked elsewhere than where it is (`MadeOf`): a claim reads the row under its lock, and a row that is locked keeps. A capture on postgres holds its row from the second phase on, so that the note it has exported is of the row it commits (`OneHolds`); a batch there holds all its rows as they were fetched, and its list is the revision it compares until it has written an item (`BatchHolds`). `SortStep` says what each step loses: a mark, a pile or an item of the list only as it may |
| `ViewsCorrect` | `ExplorerInv`, `ViewsInv`, `SearchInv` and `TodoInv`, for any contents, texts, rows, queries and limits. `Sound`: a graph has numbered nodes, and no two edges with the same ends and label. `Spreading`: a node is connected to the one its community is named after, and while nothing has changed in a round each node visited has its best community; unless the code's rounds run out, this is then true of all. `Walking`: no entry of the heap is cheaper than what was found, and every route is found or has a beginning in the heap at its cheapest fare (`LeadsTo`), which each `Pop` extends; hence what is found is cheapest, in order, and all there is below the limit. `ViewsInv`: what is linked is what the facts linked so far find, and a cut takes none with fewer terms than one it leaves. `SearchInv`: rows age only (`Aged`), and what was read by rows has every match that the limit allows (`AllListed`). `TodoInv`: rendering a list twice is rendering it once |
| `PilesTypeCorrect` | the parts of `ViewsCorrect` with `RoutingInv`, and `SortTyped` and `RunsTyped` beside `SortInv` and `RunsInv`: what a request or a run will commit has the type of a row, wherever it was read; piles are only added, so that what a run names stays one. That a row has one holder, and on sqlite the database, follows from `Apart` |

`Orders` writes listings with `CHOOSE` by the number of predecessors, where the library sorts and folds with operators that the provers cannot expand by
induction; that this is the order meant is a lemma for total orders of finite sets (`Listed`). Costs of paths are the one recursive function of
these models (`Fares`); what is proved of it is by induction on the length.

The strengthenings were checked with TLC before they were proved, or their failure found by the attempt: a restructuring request that
fails after a pile it has committed used to count as a report in the model, and `RunsReportTruly` was false of it on sqlite in an instance larger than
the run's (a conversation skipped by one pile of a due run, recovered by the owner and settled by the next). The code reports nothing then; the model now says so. The type invariant of `Enrichment` said that a request
that has changed rows has changed all those it has locked; a batch on postgres locks all of its rows first, and with two of them the proof failed.

Only model-checked: `JobsEnd` and `Drained` (liveness) and the three violations. Whether ten rounds of label propagation suffice is not
claimed: the code stops there, and the property says so.

## 5. Hazards

`PROJECT.json` lists them with their lines and, in notes, what a property leaves open. Without a property is the pending flag on sqlite with browser
processing (`ingest.py:193`, above). Not listed there: two server processes can race to insert the first
capture of a conversation (`ingest.py:84`; one of them fails and its client sends again). `worker.py:37` fails a job on the strength of an unlocked
read: with two workers it can mark failed a job another has just finished; the model
includes that write, no document forbids it. The errors of a history run are kept in memory only (`index.ts:2005`). A capture the
backend refuses for ever stays at the head of the queue and ends every drain (`outbox.ts:70`); the model has finitely many refusals.

Also seen while modelling: archiving a source before its job runs
supersedes the job, and taking it out of the archive does not queue it again; two
patches can take a superseded memory back to "suggested" and then to "accepted";
`historySyncRunErrors` (`index.ts:87`) is lost with the service worker; after a complete
snapshot replaced a branch, fingerprints still call the messages of the old one seen, so live
captures omit them until the next full snapshot if the branch comes back; a delayed
incremental capture adds a message again that a newer complete snapshot deleted, which the
documentation allows.

## 6. Not modelled

The frontend, command line, skills and
page observers but for the time of their captures (user interface, installation, prompts, scraping), the bytes that parsers of provider pages and model answers read, the language models and
agentic search,
cryptography, git history of the vault, the one-off migration and the rebuild of a vault, the text of notes, and read-only endpoints. History sync keeps its
run in memory and reports through status messages; its captures are complete snapshots of `TranscriptSync`. Also left out: the order and parents of messages,
the race of two server processes to insert a conversation, Gemini's parser, notifications beyond the 50 that one answer lists, the six sources that are shown with one fact, and
the objects that facts share. The owner's own work in the public repository is withdrawal only, and `workspace_queue` has no request
of hers: that a retry beside a worker leaves no done job without its file is shown by `ExportCorrect` alone.

Liveness stays with TLC: the prover has no rule for fairness. Induction is to be had only on numbers, by the least member of a set.

## 7. Plan

1. `Ingest`, the rest: order and parents of messages, the insertion race between processes.
2. `HistorySync`: runs, errors in memory, watermark, composed with the outbox.
3. An abstract review specification that `Workspace` implements.
