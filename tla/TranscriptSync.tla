--------------------------- MODULE TranscriptSync ---------------------------
(***************************************************************************)
(* One conversation on its way from the provider into the workspace: the   *)
(* provider's page changes it, browsers with the extension observe it,     *)
(* send what their sync state says is new through their outboxes, and the  *)
(* backend (Ingest) merges what arrives.                                   *)
(*                                                                         *)
(* A capture is stamped when the browser asks the provider and read from   *)
(* the response, so captures whose requests overlap may be stamped in one  *)
(* order and read in another.  No two captures have the same timestamp and *)
(* clocks agree.                                                           *)
(***************************************************************************)
EXTENDS Ingest, Sequences, FiniteSets

CONSTANTS
  Browsers,   \* browsers with the extension
  Modes,      \* the kinds of capture the browsers make
  Imports,    \* whether context bundles are imported, which have no date
  MaxTime,    \* bound: provider changes and captures
  MaxAsked,   \* bound: requests to the provider under way at once
  MaxFaults,  \* bound: suspect captures, rollbacks, timeouts, stops of the extension
  MaxSkips,   \* bound: captures an indexing rule skips
  None        \* absent value

SyncStates == [last : Nat, seen : [Messages -> Nat]]

Handlings == [capture : Captures, state : SyncStates]

\* Requests to the provider, with the time they were made.
Asks == [by : Browsers, at : Nat]

ASSUME SyncAssumption ==
  /\ Modes \subseteq Kinds /\ Imports \in BOOLEAN
  /\ None \notin Handlings
  /\ MaxTime \in Nat /\ MaxAsked \in Nat /\ MaxFaults \in Nat /\ MaxSkips \in Nat

VARIABLES
  \* the provider
  now,       \* the time
  text,      \* when each message was last written; 0: never
  shown,     \* the messages of the branch the provider shows
  left,      \* until when a shown message was last missing from the branch
  \* each browser
  asked,     \* requests to the provider whose responses are awaited
  observed,  \* captures that handleCapture has not begun
  sync,      \* the session's sync state
  handling,  \* handleCapture: its capture and the sync state it has read
  outbox,    \* captures to deliver, in order
  drain,     \* the delivery of the head of the outbox
  \* in between
  wire,      \* requests on their way
  heldAt,    \* time of the last dated capture of each message that the backend accepted
  faults, skips

provider == <<now, text, shown, left>>
browsers == <<asked, observed, sync, handling, outbox, drain>>
vars == <<ingestVars, now, text, shown, left, asked, observed, sync, handling, outbox, drain,
          wire, heldAt, faults, skips>>

NoSync == [last |-> 0, seen |-> [m \in Messages |-> 0]]

Drains == [pc : {"idle", "waiting", "acked", "saving", "saved"}, attempt : Nat,
           loaded : SyncStates]

Idle == [pc |-> "idle", attempt |-> 0, loaded |-> NoSync]

TypeOK ==
  /\ IngestTypeOK
  /\ now \in Nat
  /\ text \in [Messages -> Nat]
  /\ shown \in SUBSET Messages
  /\ left \in [Messages -> Nat]
  /\ asked \in SUBSET Asks
  /\ observed \in [Browsers -> SUBSET Captures]
  /\ sync \in [Browsers -> SyncStates]
  /\ handling \in [Browsers -> Handlings \cup {None}]
  /\ outbox \in [Browsers -> Seq(Captures)]
  /\ drain \in [Browsers -> Drains]
  /\ \A b \in Browsers : drain[b].pc # "idle" => outbox[b] # <<>>
  /\ wire \in SUBSET Requests
  /\ heldAt \in [Messages -> Nat]
  /\ faults \in Nat /\ skips \in Nat

Init ==
  /\ IngestInit
  /\ now = 0
  /\ text = [m \in Messages |-> 0]
  /\ shown = {}
  /\ left = [m \in Messages |-> 0]
  /\ asked = {}
  /\ observed = [b \in Browsers |-> {}]
  /\ sync = [b \in Browsers |-> NoSync]
  /\ handling = [b \in Browsers |-> None]
  /\ outbox = [b \in Browsers |-> <<>>]
  /\ drain = [b \in Browsers |-> Idle]
  /\ wire = {}
  /\ heldAt = [m \in Messages |-> 0]
  /\ faults = 0 /\ skips = 0

------------------------------------------------------------------------------
(* The provider. *)

Tick == now < MaxTime /\ now' = now + 1

Show(branch) ==
  /\ shown' = branch
  /\ left' = [m \in Messages |-> IF m \in branch \ shown THEN now ELSE left[m]]
  /\ UNCHANGED <<ingestVars, browsers, wire, heldAt, faults, skips>>

\* Messages are written, or written again: a prompt and its answer, or one of them.
Write(part) ==
  /\ Tick
  /\ part # {}
  /\ text' = [m \in Messages |-> IF m \in part THEN now + 1 ELSE text[m]]
  /\ Show(shown \cup part)

\* The user deletes messages, or turns to another branch of the conversation.
Switch(branch) ==
  /\ Tick
  /\ branch # shown
  /\ \A m \in branch : text[m] # 0
  /\ UNCHANGED text
  /\ Show(branch)

\* When m was last missing.
Missing(m) == IF m \in shown THEN left[m] ELSE now

------------------------------------------------------------------------------
(* The browsers: capture. *)

Fault == faults < MaxFaults /\ faults' = faults + 1

MayFault(fault) == IF fault THEN Fault ELSE UNCHANGED faults

Seen(part) == [m \in Messages |-> IF m \in part THEN text[m] ELSE 0]

\* patchedFetch, patchedSend and the history readers: the time is taken with the request.
Ask(b) ==
  /\ Tick
  /\ Cardinality(asked) < MaxAsked
  /\ asked' = asked \cup {[by |-> b, at |-> now + 1]}
  /\ UNCHANGED <<ingestVars, text, shown, left, observed, sync, handling, outbox, drain,
                 wire, heldAt, faults, skips>>

\* observeResponse: what a request asked for is read; only a complete one shows the whole
\* branch.  The page may have asked again, and been answered, in between.
Observe(b, ask, kind, part, suspect) ==
  /\ ask \in asked /\ ask.by = b
  /\ part # {} /\ part \subseteq shown
  /\ kind = "complete" => part = shown
  /\ MayFault(suspect)
  /\ asked' = asked \ {ask}
  /\ observed' = [observed EXCEPT ![b] = @ \cup
       {[kind |-> kind, dated |-> TRUE, at |-> ask.at, text |-> Seen(part),
         suspect |-> suspect]}]
  /\ UNCHANGED <<ingestVars, provider, sync, handling, outbox, drain, wire, heldAt, skips>>

\* buildIngestPayload: a live capture sends what the sync state has not seen; all of it
\* if the project, or the title of an otherwise known capture, changed.
Payload(c, seen, resend) ==
  IF c.kind # "live" \/ resend THEN c
  ELSE [c EXCEPT !.text = [m \in Messages |-> IF seen[m] = c.text[m] THEN 0 ELSE c.text[m]]]

\* handleCapture runs for one capture at a time, in any order, and reads the sync state.
Begin(b, c) ==
  /\ c \in observed[b]
  /\ handling[b] = None
  /\ observed' = [observed EXCEPT ![b] = @ \ {c}]
  /\ handling' = [handling EXCEPT ![b] = [capture |-> c, state |-> sync[b]]]
  /\ UNCHANGED <<ingestVars, provider, asked, sync, outbox, drain, wire, heldAt, faults,
                 skips>>

\* It stores what is new, if anything is ...
Enqueue(b, resend) ==
  LET payload == Payload(handling[b].capture, handling[b].state.seen, resend) IN
  /\ handling[b] # None
  /\ outbox' = IF payload.text = NoSync.seen THEN outbox
               ELSE [outbox EXCEPT ![b] = Append(@, payload)]
  /\ handling' = [handling EXCEPT ![b] = None]
  /\ UNCHANGED <<ingestVars, provider, asked, observed, sync, drain, wire, heldAt,
                 faults, skips>>

\* ... or, if a rule skips the capture, writes the sync state back with the reason.
Skip(b) ==
  /\ handling[b] # None
  /\ skips < MaxSkips
  /\ skips' = skips + 1
  /\ sync' = [sync EXCEPT ![b] = handling[b].state]
  /\ handling' = [handling EXCEPT ![b] = None]
  /\ UNCHANGED <<ingestVars, provider, asked, observed, outbox, drain, wire, heldAt,
                 faults>>

------------------------------------------------------------------------------
(* The browsers: delivery. *)

Send(b) ==
  /\ drain[b].pc = "idle" /\ outbox[b] # <<>>
  /\ wire' = wire \cup {[capture |-> Head(outbox[b]), attempt |-> faults]}
  /\ drain' = [drain EXCEPT ![b] = [Idle EXCEPT !.pc = "waiting", !.attempt = faults]]
  /\ UNCHANGED <<ingestVars, provider, asked, observed, sync, handling, outbox, heldAt,
                 faults, skips>>

Awaits(b, request) ==
  /\ drain[b].pc = "waiting"
  /\ request = [capture |-> Head(outbox[b]), attempt |-> drain[b].attempt]

\* The request timed out; it may still be served.
Timeout(b) ==
  /\ drain[b].pc = "waiting"
  /\ Fault
  /\ drain' = [drain EXCEPT ![b] = Idle]
  /\ UNCHANGED <<ingestVars, provider, asked, observed, sync, handling, outbox, wire,
                 heldAt, skips>>

\* With a receipt, the drain reads the sync state ...
LoadSync(b) ==
  /\ drain[b].pc = "acked"
  /\ drain' = [drain EXCEPT ![b].pc = "saving", ![b].loaded = sync[b]]
  /\ UNCHANGED <<ingestVars, provider, asked, observed, sync, handling, outbox, wire,
                 heldAt, faults, skips>>

\* Faulty: every receipt advances the sync state.
AdvancesAlways(state, c) == TRUE
\* mayAdvanceSyncState.
MayAdvance(state, c) == c.at >= state.last

Advanced(state, c) ==
  [last |-> c.at,
   seen |-> [m \in Messages |-> IF c.text[m] # 0 THEN c.text[m] ELSE state.seen[m]]]

\* ... and advances it, unless the receipt is late.
SaveSync(b) ==
  LET c == Head(outbox[b])  state == drain[b].loaded IN
  /\ drain[b].pc = "saving"
  /\ sync' = [sync EXCEPT ![b] = IF MayAdvance(state, c) THEN Advanced(state, c) ELSE @]
  /\ drain' = [drain EXCEPT ![b] = [Idle EXCEPT !.pc = "saved"]]
  /\ UNCHANGED <<ingestVars, provider, asked, observed, handling, outbox, wire, heldAt,
                 faults, skips>>

\* Faulty: the delivery goes on after its capture is removed.
RemoveOnly(b) ==
  /\ drain[b].pc = "saved"
  /\ outbox' = [outbox EXCEPT ![b] = Tail(@)]
  /\ UNCHANGED <<ingestVars, provider, asked, observed, sync, handling, drain, wire,
                 heldAt, faults, skips>>
Remove(b) ==
  /\ drain[b].pc = "saved"
  /\ outbox' = [outbox EXCEPT ![b] = Tail(@)]
  /\ drain' = [drain EXCEPT ![b] = Idle]
  /\ UNCHANGED <<ingestVars, provider, asked, observed, sync, handling, wire, heldAt,
                 faults, skips>>

\* The service worker stops; the stores stay, and what the page has asked for.
Kill(b) ==
  /\ Fault
  /\ observed' = [observed EXCEPT ![b] = {}]
  /\ handling' = [handling EXCEPT ![b] = None]
  /\ drain' = [drain EXCEPT ![b] = Idle]
  /\ UNCHANGED <<ingestVars, provider, asked, sync, outbox, wire, heldAt, skips>>

------------------------------------------------------------------------------
(* The importer and the backend. *)

\* import_context: a full snapshot whose completeness is unknown.
Import(part) ==
  /\ Imports
  /\ Tick
  /\ part # {} /\ part \subseteq shown
  /\ wire' = wire \cup {[attempt |-> 0, capture |->
       [kind |-> "partial", dated |-> FALSE, at |-> now + 1,
        text |-> Seen(part), suspect |-> FALSE]]}
  /\ UNCHANGED <<ingestVars, text, shown, left, browsers, heldAt, faults, skips>>

Receive(request) ==
  /\ request \in wire
  /\ Serve(request)
  /\ wire' = wire \ {request}
  /\ UNCHANGED <<provider, browsers, heldAt, faults, skips>>

\* The response of a request: a receipt, or an error.
Respond(request, pc) ==
  drain' = [b \in Browsers |-> IF Awaits(b, request) THEN [drain[b] EXCEPT !.pc = pc]
                               ELSE drain[b]]

Held(c) == [m \in Messages |-> IF c.text[m] # 0 /\ c.dated THEN Later(heldAt[m], c.at)
                               ELSE heldAt[m]]

Ingested(h) ==
  /\ Commit(h, now)
  /\ Respond(h.request, IF h.request.capture.suspect THEN "saved" ELSE "acked")
  /\ heldAt' = IF h.request.capture.suspect THEN heldAt ELSE Held(h.request.capture)
  /\ UNCHANGED <<provider, asked, observed, sync, handling, outbox, wire, faults, skips>>

Failed(h) ==
  /\ Fault
  /\ Rollback(h)
  /\ Respond(h.request, "idle")
  /\ UNCHANGED <<provider, asked, observed, sync, handling, outbox, wire, heldAt, skips>>

------------------------------------------------------------------------------
ProviderStep ==
  \/ \E part \in SUBSET Messages : Write(part)
  \/ \E branch \in SUBSET Messages : Switch(branch)

CaptureStep(b) ==
  \/ Ask(b)
  \/ \E ask \in asked, kind \in Modes, part \in SUBSET Messages, suspect \in BOOLEAN :
       Observe(b, ask, kind, part, suspect)
  \/ \E c \in observed[b] : Begin(b, c)
  \/ \E resend \in BOOLEAN : Enqueue(b, resend)
  \/ Skip(b)

DeliveryStep(b) ==
  \/ Send(b) \/ Timeout(b) \/ LoadSync(b) \/ SaveSync(b) \/ Remove(b)

BackendStep ==
  \/ \E request \in wire : Receive(request)
  \/ \E h \in serving : Ingested(h) \/ Failed(h)

Next ==
  \/ ProviderStep
  \/ \E b \in Browsers : CaptureStep(b) \/ DeliveryStep(b) \/ Kill(b)
  \/ \E part \in SUBSET Messages : Import(part)
  \/ BackendStep

Spec == Init /\ [][Next]_vars

------------------------------------------------------------------------------
(* Properties. *)

\* "Stale/undated edits cannot roll back accepted text": while a message is stored its
\* text is not replaced by an older one, in whatever order captures arrive, unless it was
\* written after every accepted capture of the message had been asked for: only a capture
\* asked for last and answered before the others rolls text back.
NotRolledBack ==
  [][\A m \in Messages : transcript[m] # 0 /\ transcript'[m] # 0
       => transcript'[m] >= transcript[m] \/ transcript[m] > heldAt'[m]]_vars

\* A message is deleted only if the provider's branch lacked it after every accepted
\* capture that contains it was asked for: no delayed snapshot deletes newer messages, and
\* no partial one deletes any.
RemovedAtProvider ==
  [][\A m \in Messages : transcript[m] # 0 /\ transcript'[m] = 0
       => Missing(m) > heldAt[m]]_vars

\* A capture leaves its outbox only when its raw evidence is durable on the backend,
\* in the transcript's history or in quarantine, stale captures included.
ReleasedIsStored ==
  [][\A b \in Browsers : outbox[b] # <<>> /\ Len(outbox'[b]) < Len(outbox[b])
       => Head(outbox[b]) \in events \cup quarantine]_vars

\* What a browser will not send again because it has seen it is not older on the
\* backend, or is in the capture that the browser delivers: an edit that the backend
\* passed over is sent once more.
SeenIsStored ==
  \A b \in Browsers, m \in Messages : transcript[m] # 0 =>
    \/ transcript[m] >= sync[b].seen[m]
    \/ outbox[b] # <<>> /\ Head(outbox[b]).text[m] # 0

\* "Never rewind local state": no receipt, however late, takes the sync state of a browser
\* back; only a capture that a rule skips does, with the state it read before a receipt.
NeverRewound ==
  [][skips' = skips => \A b \in Browsers : sync'[b].last >= sync[b].last]_vars
=============================================================================
