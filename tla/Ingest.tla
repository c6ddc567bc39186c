------------------------------- MODULE Ingest -------------------------------
(***************************************************************************)
(* The backend's side of capture, in workspace mode: IngestService merges  *)
(* the captures of one conversation, which come from several clients, late *)
(* and more than once, into one transcript.                                *)
(*                                                                         *)
(* A request is served in two steps, the rows it loads and the transaction *)
(* it commits on the strength of them; the lock of the session lies around *)
(* both.  The text of a message is the time it was written, 0 if absent.   *)
(***************************************************************************)
EXTENDS Naturals

CONSTANT Messages  \* external message ids of the conversation

\* complete: a full snapshot with a complete path; partial: a full snapshot without;
\* live: an incremental capture.
Kinds == {"complete", "partial", "live"}

\* at is when the capture was made; captured_at says so if it is dated.  The quality
\* gate finds suspect captures in need of repair.
Captures == [kind : Kinds, dated : BOOLEAN, at : Nat, text : [Messages -> Nat],
             suspect : BOOLEAN]

Requests == [capture : Captures, attempt : Nat]

VARIABLES
  transcript,  \* the messages of the session
  watermark,   \* the later of last_snapshot_at and last_captured_at; 0: no session
  events,      \* captures whose raw evidence is kept in sync events
  quarantine,  \* captures kept for repair
  serving      \* requests with the rows they loaded

ingestVars == <<transcript, watermark, events, quarantine, serving>>

Handlers == [request : Requests, transcript : [Messages -> Nat], watermark : Nat]

IngestTypeOK ==
  /\ transcript \in [Messages -> Nat]
  /\ watermark \in Nat
  /\ events \in SUBSET Captures
  /\ quarantine \in SUBSET Captures
  /\ serving \in SUBSET Handlers

IngestInit ==
  /\ transcript = [m \in Messages |-> 0]
  /\ watermark = 0
  /\ events = {}
  /\ quarantine = {}
  /\ serving = {}

Later(s, t) == IF s >= t THEN s ELSE t

------------------------------------------------------------------------------
(* The decisions, on the rows a handler h loaded. *)

\* Faulty: live captures never count as newer.
NewerSnapshot(h) ==
  /\ h.request.capture.kind # "live"
  /\ h.request.capture.dated /\ h.request.capture.at > h.watermark
\* _full_snapshot_is_newer: strictly, and only if dated.
Newer(h) == h.request.capture.dated /\ h.request.capture.at > h.watermark

\* _is_stale_full_snapshot: it is recorded as evidence and changes nothing else.
Stale(h) ==
  /\ h.request.capture.kind # "live"
  /\ h.request.capture.dated
  /\ h.request.capture.at < h.watermark

\* Only a newer, complete snapshot deletes what it lacks.
DeletesMissing(h) == Newer(h) /\ h.request.capture.kind = "complete"

\* _ingest_full_snapshot and _ingest_incremental: unseen messages are always added, seen
\* ones are updated by newer captures only.
Merged(h) ==
  LET text == h.request.capture.text IN
  [m \in Messages |->
     IF Stale(h) THEN h.transcript[m]
     ELSE IF text[m] # 0
          THEN IF h.transcript[m] = 0 \/ Newer(h) THEN text[m] ELSE h.transcript[m]
     ELSE IF DeletesMissing(h) THEN 0 ELSE h.transcript[m]]

\* Faulty: only full snapshots advance the watermark.
MarkedBySnapshots(h, now) ==
  IF h.request.capture.kind # "live" /\ h.request.capture.dated
  THEN Later(h.watermark, h.request.capture.at) ELSE h.watermark
\* Every dated capture advances the watermark; an undated one that changed something
\* counts as made now.
Marked(h, now) ==
  IF Stale(h) THEN h.watermark
  ELSE IF h.request.capture.dated THEN Later(h.watermark, h.request.capture.at)
  ELSE IF Merged(h) # h.transcript THEN Later(h.watermark, now)
  ELSE h.watermark

\* Faulty: a stale snapshot is dropped, evidence and all.
RecordedFresh(h) == IF Stale(h) THEN events ELSE events \cup {h.request.capture}
\* _record_sync_event, once for each raw capture.
Recorded(h) == events \cup {h.request.capture}

------------------------------------------------------------------------------
(* Serving. *)

\* Faulty: nothing orders the requests of a session.
AdmitsAny == TRUE
\* The lock of the session.
Unlocked == serving = {}

Serve(request) ==
  /\ Unlocked
  /\ serving' = serving \cup
       {[request |-> request, transcript |-> transcript, watermark |-> watermark]}
  /\ UNCHANGED <<transcript, watermark, events, quarantine>>

\* A suspect capture is kept for repair; the transcript does not see it.
Quarantine(h) ==
  /\ h.request.capture.suspect
  /\ quarantine' = quarantine \cup {h.request.capture}
  /\ serving' = serving \ {h}
  /\ UNCHANGED <<transcript, watermark, events>>

\* One transaction; of the loaded rows it writes what it changed.
Accept(h, now) ==
  /\ ~h.request.capture.suspect
  /\ transcript' = [m \in Messages |->
       IF Merged(h)[m] # h.transcript[m] THEN Merged(h)[m] ELSE transcript[m]]
  /\ watermark' = IF Marked(h, now) # h.watermark THEN Marked(h, now) ELSE watermark
  /\ events' = Recorded(h)
  /\ serving' = serving \ {h}
  /\ UNCHANGED quarantine

Commit(h, now) == Quarantine(h) \/ Accept(h, now)

\* The evidence queue is full, the database fails, or the process stops.
Rollback(h) ==
  /\ serving' = serving \ {h}
  /\ UNCHANGED <<transcript, watermark, events, quarantine>>
=============================================================================
