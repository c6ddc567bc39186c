----------------------- MODULE TranscriptSyncProofs -----------------------
(* What holds of TranscriptSync for any messages, browsers and bounds. *)
EXTENDS MCTranscripts, TLAPS

USE SyncAssumption

------------------------------------------------------------------------------
(* Types. *)

LEMMA PayloadType ==
  ASSUME NEW c \in Captures, NEW seen \in [Messages -> Nat], NEW resend \in BOOLEAN
  PROVE  /\ Payload(c, seen, resend) \in Captures
         /\ Payload(c, seen, resend).at = c.at
         /\ Payload(c, seen, resend).kind = c.kind /\ Payload(c, seen, resend).dated = c.dated
         /\ \A m \in Messages : Payload(c, seen, resend).text[m] \in {0, c.text[m]}
         /\ c.kind = "complete" => Payload(c, seen, resend) = c
  BY DEF Payload, Captures, Kinds

LEMMA AppendType ==
  ASSUME NEW s \in Seq(Captures), NEW c \in Captures
  PROVE  Append(s, c) \in Seq(Captures) /\ Append(s, c) # <<>>
  OBVIOUS

LEMMA AppendElements ==
  ASSUME NEW s \in Seq(Captures), NEW c \in Captures, NEW n \in 1..Len(Append(s, c))
  PROVE  \/ n \in 1..Len(s) /\ Append(s, c)[n] = s[n]
         \/ Append(s, c)[n] = c
  OBVIOUS

LEMMA Transitive ==
  ASSUME NEW i \in Nat, NEW j \in Nat, NEW k \in Nat, i <= j, j <= k
  PROVE  i <= k
  OBVIOUS

LEMMA CaptureFields ==
  ASSUME NEW c \in Captures
  PROVE  /\ c.at \in Nat /\ c.dated \in BOOLEAN /\ c.kind \in Kinds
         /\ \A m \in Messages : c.text[m] \in Nat
  BY DEF Captures

\* The fields of the provider and of the backend.
LEMMA StateFields ==
  ASSUME TypeOK
  PROVE  /\ now \in Nat /\ watermark \in Nat /\ skips \in Nat
         /\ \A m \in Messages : /\ text[m] \in Nat /\ left[m] \in Nat
                                /\ transcript[m] \in Nat /\ heldAt[m] \in Nat
                                /\ Missing(m) \in Nat
  BY DEF TypeOK, IngestTypeOK, Missing

LEMMA MergedType ==
  ASSUME NEW h \in Handlers
  PROVE  /\ Merged(h) \in [Messages -> Nat]
         /\ \A t \in Nat : Marked(h, t) \in Nat
  BY DEF Merged, Marked, Later, Handlers, Requests, Captures

LEMMA TypeInit == Init => TypeOK
  BY DEF Init, TypeOK, IngestInit, IngestTypeOK, NoSync, Idle, Drains, SyncStates

LEMMA TypeProvider ==
  ASSUME TypeOK, ProviderStep
  PROVE  TypeOK'
<1>1. CASE \E part \in SUBSET Messages : Write(part)
  BY <1>1 DEF TypeOK, IngestTypeOK, Write, Tick, Show, ingestVars, browsers
<1>2. CASE \E branch \in SUBSET Messages : Switch(branch)
  BY <1>2 DEF TypeOK, IngestTypeOK, Switch, Tick, Show, ingestVars, browsers
<1> QED BY <1>1, <1>2 DEF ProviderStep

LEMMA TypeCapture ==
  ASSUME TypeOK, NEW b \in Browsers, CaptureStep(b)
  PROVE  TypeOK'
<1> USE DEF TypeOK, IngestTypeOK
<1>0. CASE Ask(b)
  <2>1. [by |-> b, at |-> now + 1] \in Asks BY DEF Asks
  <2> QED BY <1>0, <2>1 DEF Ask, Tick, ingestVars
<1>1. ASSUME NEW ask \in asked, NEW kind \in Modes, NEW part \in SUBSET Messages,
             NEW suspect \in BOOLEAN, Observe(b, ask, kind, part, suspect)
      PROVE  TypeOK'
  <2>1. Seen(part) \in [Messages -> Nat] /\ ask.at \in Nat BY DEF Seen, Asks
  <2>2. [kind |-> kind, dated |-> TRUE, at |-> ask.at, text |-> Seen(part),
         suspect |-> suspect] \in Captures
    BY <2>1 DEF Captures
  <2>3. observed' \in [Browsers -> SUBSET Captures] BY <1>1, <2>2 DEF Observe
  <2> QED BY <1>1, <2>3 DEF Observe, MayFault, Fault, ingestVars, provider
<1>2. ASSUME NEW c \in observed[b], Begin(b, c)
      PROVE  TypeOK'
  BY <1>2 DEF Begin, Handlings, SyncStates, ingestVars, provider
<1>3. ASSUME NEW resend \in BOOLEAN, Enqueue(b, resend)
      PROVE  TypeOK'
  <2>1. handling[b] \in Handlings BY <1>3 DEF Enqueue
  <2> DEFINE payload == Payload(handling[b].capture, handling[b].state.seen, resend)
  <2>2. payload \in Captures BY <2>1, PayloadType DEF Handlings, SyncStates
  <2>3. Append(outbox[b], payload) \in Seq(Captures) /\ Append(outbox[b], payload) # <<>>
    BY <2>2, AppendType
  <2>4. outbox' \in [Browsers -> Seq(Captures)] BY <1>3, <2>3 DEF Enqueue
  <2>5. \A a \in Browsers : outbox[a] # <<>> => outbox'[a] # <<>>
    BY <1>3, <2>3 DEF Enqueue
  <2> QED BY <1>3, <2>4, <2>5 DEF Enqueue, ingestVars, provider
<1>4. ASSUME Skip(b)
      PROVE  TypeOK'
  <2>1. handling[b] \in Handlings BY <1>4 DEF Skip
  <2> QED BY <1>4, <2>1 DEF Skip, Handlings, ingestVars, provider
<1> HIDE DEF TypeOK, IngestTypeOK
<1> QED BY <1>0, <1>1, <1>2, <1>3, <1>4 DEF CaptureStep

LEMMA TypeDelivery ==
  ASSUME TypeOK, NEW b \in Browsers, DeliveryStep(b)
  PROVE  TypeOK'
<1> USE DEF TypeOK, IngestTypeOK, Drains
<1>0. Idle \in Drains /\ Idle.pc = "idle"
  BY DEF Idle, NoSync, SyncStates
<1>1. CASE Send(b)
  <2>1. Head(outbox[b]) \in Captures BY <1>1 DEF Send
  <2>2. wire' \in SUBSET Requests BY <1>1, <2>1 DEF Send, Requests
  <2>3. drain' \in [Browsers -> Drains] BY <1>0, <1>1 DEF Send
  <2>4. \A a \in Browsers : drain'[a].pc # "idle" => outbox'[a] # <<>> BY <1>1 DEF Send
  <2> QED BY <1>1, <2>2, <2>3, <2>4 DEF Send, ingestVars, provider
<1>2. CASE Timeout(b)
  BY <1>0, <1>2 DEF Timeout, Fault, ingestVars, provider
<1>3. CASE LoadSync(b)
  BY <1>3 DEF LoadSync, ingestVars, provider
<1>4. CASE SaveSync(b)
  <2>1. Head(outbox[b]) \in Captures BY <1>4 DEF SaveSync
  <2>2. drain[b].loaded \in SyncStates OBVIOUS
  <2>3. Advanced(drain[b].loaded, Head(outbox[b])) \in SyncStates
    BY <2>1, <2>2 DEF Advanced, SyncStates, Captures
  <2>4. sync' \in [Browsers -> SyncStates] BY <1>4, <2>3 DEF SaveSync
  <2>5. drain' \in [Browsers -> Drains] BY <1>0, <1>4 DEF SaveSync
  <2>6. \A a \in Browsers : drain'[a].pc # "idle" => outbox'[a] # <<>> BY <1>4 DEF SaveSync
  <2> QED BY <1>4, <2>4, <2>5, <2>6 DEF SaveSync, ingestVars, provider
<1>5. CASE Remove(b)
  <2>1. outbox[b] # <<>> BY <1>5 DEF Remove
  <2>2. outbox' \in [Browsers -> Seq(Captures)] BY <1>5, <2>1 DEF Remove
  <2>3. drain' \in [Browsers -> Drains] BY <1>0, <1>5 DEF Remove
  <2>4. \A a \in Browsers : drain'[a].pc # "idle" => outbox'[a] # <<>>
    BY <1>0, <1>5 DEF Remove
  <2> QED BY <1>5, <2>2, <2>3, <2>4 DEF Remove, ingestVars, provider
<1> QED BY <1>1, <1>2, <1>3, <1>4, <1>5 DEF DeliveryStep

LEMMA TypeKill ==
  ASSUME TypeOK, NEW b \in Browsers, Kill(b)
  PROVE  TypeOK'
<1>1. Idle \in Drains /\ Idle.pc = "idle"
  BY DEF Idle, NoSync, SyncStates, Drains
<1> QED BY <1>1 DEF TypeOK, IngestTypeOK, Kill, Fault, ingestVars, provider

LEMMA TypeImport ==
  ASSUME TypeOK, NEW part \in SUBSET Messages, Import(part)
  PROVE  TypeOK'
<1> USE DEF TypeOK, IngestTypeOK
<1>1. Seen(part) \in [Messages -> Nat] BY DEF Seen
<1>2. [kind |-> "partial", dated |-> FALSE, at |-> now + 1, text |-> Seen(part),
       suspect |-> FALSE] \in Captures
  BY <1>1 DEF Captures, Kinds
<1> DEFINE c == [kind |-> "partial", dated |-> FALSE, at |-> now + 1, text |-> Seen(part),
                 suspect |-> FALSE]
<1>3. [attempt |-> 0, capture |-> c] \in Requests BY <1>2 DEF Requests
<1>4. wire' = wire \cup {[attempt |-> 0, capture |-> c]} BY DEF Import
<1>5. wire' \in SUBSET Requests BY <1>3, <1>4
<1> QED BY <1>5 DEF Import, Tick, ingestVars, browsers

LEMMA RespondType ==
  ASSUME TypeOK, NEW request, NEW pc \in {"idle", "acked", "saved"}, Respond(request, pc)
  PROVE  /\ drain' \in [Browsers -> Drains]
         /\ \A b \in Browsers : drain'[b].pc # "idle" => drain[b].pc # "idle"
  BY DEF TypeOK, Respond, Awaits, Drains

LEMMA TypeBackend ==
  ASSUME TypeOK, BackendStep
  PROVE  TypeOK'
<1> USE DEF TypeOK, IngestTypeOK
<1>1. ASSUME NEW request \in wire, Receive(request)
      PROVE  TypeOK'
  BY <1>1 DEF Receive, Serve, Handlers, provider, browsers
<1>2. ASSUME NEW h \in serving, Ingested(h)
      PROVE  TypeOK'
  <2>1. h \in Handlers /\ h.request.capture \in Captures BY DEF Handlers, Requests
  <2>2. /\ transcript' \in [Messages -> Nat] /\ watermark' \in Nat
        /\ events' \in SUBSET Captures /\ quarantine' \in SUBSET Captures
        /\ serving' \in SUBSET Handlers
    BY <1>2, <2>1, MergedType DEF Ingested, Commit, Quarantine, Accept, Recorded
  <2>3. /\ drain' \in [Browsers -> Drains]
        /\ \A b \in Browsers : drain'[b].pc # "idle" => drain[b].pc # "idle"
    BY <1>2, RespondType DEF Ingested
  <2>4. heldAt' \in [Messages -> Nat]
    BY <1>2, <2>1 DEF Ingested, Held, Later, Captures
  <2> QED BY <1>2, <2>2, <2>3, <2>4 DEF Ingested, provider
<1>3. ASSUME NEW h \in serving, Failed(h)
      PROVE  TypeOK'
  <2>1. /\ drain' \in [Browsers -> Drains]
        /\ \A b \in Browsers : drain'[b].pc # "idle" => drain[b].pc # "idle"
    BY <1>3, RespondType DEF Failed
  <2> QED BY <1>3, <2>1 DEF Failed, Fault, Rollback, provider
<1> QED BY <1>1, <1>2, <1>3 DEF BackendStep

LEMMA TypeStep == TypeOK /\ [Next]_vars => TypeOK'
<1> SUFFICES ASSUME TypeOK, [Next]_vars
             PROVE  TypeOK'
  OBVIOUS
<1>1. CASE Next
  BY <1>1, TypeProvider, TypeCapture, TypeDelivery, TypeKill, TypeImport, TypeBackend
     DEF Next
<1>2. CASE UNCHANGED vars
  BY <1>2 DEF vars, ingestVars, TypeOK, IngestTypeOK
<1> QED BY <1>1, <1>2

\* The types of the conversation, the browsers and the backend, for any messages,
\* browsers and bounds.
THEOREM TranscriptTypeCorrect == Spec => []TypeOK
  BY TypeInit, TypeStep, PTL DEF Spec

------------------------------------------------------------------------------
(* The invariant behind NotRolledBack and RemovedAtProvider: a capture, however late, *)
(* shows the conversation as it was at some moment after it was asked for.             *)

Flies(c) ==
  \/ \E b \in Browsers : c \in observed[b]
  \/ \E b \in Browsers : handling[b] # None /\ c = handling[b].capture
  \/ \E b \in Browsers : \E n \in 1..Len(outbox[b]) : c = outbox[b][n]
  \/ \E request \in wire : c = request.capture
  \/ \E h \in serving : c = h.request.capture

InFlight == {c \in Captures : Flies(c)}

\* What c contains is not older than what of t was written before c was asked for.
Covers(c, t) == \A m \in Messages : c.text[m] # 0 /\ t[m] <= c.at => t[m] <= c.text[m]

AsOfItsTime(c) ==
  /\ c.at <= now
  /\ \A m \in Messages : c.text[m] <= text[m]
  /\ Covers(c, text) /\ Covers(c, transcript)
  /\ c.kind = "complete" => \A m \in Messages : c.text[m] = 0 => Missing(m) >= c.at

CapturesTrue ==
  \A c \in InFlight : AsOfItsTime(c) /\ \A d \in InFlight : Covers(c, d.text)

\* The watermark is ahead of what was accepted, and no time is ahead of the present.
Watermarked ==
  /\ watermark <= now
  /\ \A ask \in asked : ask.at <= now
  /\ \A m \in Messages :
       /\ heldAt[m] <= watermark
       /\ transcript[m] <= text[m] /\ text[m] <= now
       /\ m \in shown => text[m] # 0

\* The lock of the session keeps loaded rows current.
RowsCurrent ==
  /\ \A h \in serving : h.transcript = transcript /\ h.watermark = watermark
  /\ \A g, h \in serving : g = h

SyncInv == CapturesTrue /\ Watermarked /\ RowsCurrent

------------------------------------------------------------------------------
(* Captures move and lose messages; only browsers and the importer make new ones. *)

\* c is what is left of d.
Part(c, d) ==
  /\ c.at = d.at /\ c.kind = d.kind /\ c.dated = d.dated
  /\ \A m \in Messages : c.text[m] \in {0, d.text[m]}
  /\ c.kind = "complete" => c.text = d.text

Carried == \A c \in InFlight' : \E d \in InFlight : Part(c, d)

LEMMA PartOfItself == ASSUME NEW c PROVE Part(c, c)
  BY DEF Part

LEMMA PayloadPart ==
  ASSUME NEW c \in Captures, NEW seen \in [Messages -> Nat], NEW resend \in BOOLEAN
  PROVE  Part(Payload(c, seen, resend), c)
<1>1. PICK payload : payload = Payload(c, seen, resend) OBVIOUS
<1>2. /\ payload.at = c.at /\ payload.kind = c.kind /\ payload.dated = c.dated
      /\ \A m \in Messages : payload.text[m] \in {0, c.text[m]}
      /\ c.kind = "complete" => payload = c
  BY <1>1, PayloadType
<1> QED BY <1>1, <1>2 DEF Part

LEMMA Flying ==
  ASSUME TypeOK, NEW c, Flies(c)
  PROVE  c \in InFlight
<1> SUFFICES c \in Captures
  BY DEF InFlight
<1> USE DEF TypeOK, IngestTypeOK
<1>1. ASSUME NEW b \in Browsers, c \in observed[b] PROVE c \in Captures
  BY <1>1
<1>2. ASSUME NEW b \in Browsers, handling[b] # None, c = handling[b].capture
      PROVE  c \in Captures
  BY <1>2 DEF Handlings
<1>3. ASSUME NEW b \in Browsers, NEW n \in 1..Len(outbox[b]), c = outbox[b][n]
      PROVE  c \in Captures
  BY <1>3
<1>4. ASSUME NEW request \in wire, c = request.capture PROVE c \in Captures
  BY <1>4 DEF Requests
<1>5. ASSUME NEW h \in serving, c = h.request.capture PROVE c \in Captures
  BY <1>5 DEF Handlers, Requests
<1> QED BY <1>1, <1>2, <1>3, <1>4, <1>5 DEF Flies

\* What one browser does to its captures.
LEMMA BrowserCarries ==
  ASSUME TypeOK, NEW b \in Browsers, UNCHANGED <<wire, serving>>,
         \A a \in Browsers \ {b} : /\ observed'[a] = observed[a]
                                   /\ handling'[a] = handling[a] /\ outbox'[a] = outbox[a],
         observed'[b] \subseteq observed[b],
         handling'[b] # None => handling'[b].capture \in InFlight,
         \A n \in 1..Len(outbox'[b]) : \E d \in InFlight : Part(outbox'[b][n], d)
  PROVE  Carried
<1> SUFFICES ASSUME NEW c \in InFlight'
             PROVE  \E d \in InFlight : Part(c, d)
  BY DEF Carried
<1>1. ASSUME NEW a \in Browsers, c \in observed'[a] PROVE c \in InFlight
  <2>1. c \in observed[a] BY <1>1
  <2> QED BY <2>1, Flying DEF Flies
<1>2. ASSUME NEW a \in Browsers, handling'[a] # None, c = handling'[a].capture
      PROVE  c \in InFlight
  <2>1. CASE a = b BY <1>2, <2>1
  <2>2. CASE a # b
    <3>1. handling[a] # None /\ c = handling[a].capture BY <1>2, <2>2
    <3> QED BY <3>1, Flying DEF Flies
  <2> QED BY <2>1, <2>2
<1>3. ASSUME NEW a \in Browsers, NEW n \in 1..Len(outbox'[a]), c = outbox'[a][n]
      PROVE  \E d \in InFlight : Part(c, d)
  <2>1. CASE a = b BY <1>3, <2>1
  <2>2. CASE a # b
    <3>1. n \in 1..Len(outbox[a]) /\ c = outbox[a][n] BY <1>3, <2>2
    <3>2. c \in InFlight BY <3>1, Flying DEF Flies
    <3> QED BY <3>2, PartOfItself
  <2> QED BY <2>1, <2>2
<1>4. ASSUME NEW request \in wire', c = request.capture PROVE c \in InFlight
  BY <1>4, Flying DEF Flies
<1>5. ASSUME NEW h \in serving', c = h.request.capture PROVE c \in InFlight
  BY <1>5, Flying DEF Flies
<1> QED BY <1>1, <1>2, <1>3, <1>4, <1>5, PartOfItself DEF InFlight, Flies

LEMMA Queued ==
  ASSUME TypeOK, NEW b \in Browsers, NEW n \in 1..Len(outbox[b])
  PROVE  outbox[b][n] \in InFlight
  BY Flying DEF Flies

LEMMA CaptureCarries ==
  ASSUME TypeOK, NEW b \in Browsers,
         \/ \E c \in observed[b] : Begin(b, c)
         \/ \E resend \in BOOLEAN : Enqueue(b, resend)
         \/ Skip(b)
  PROVE  Carried
<1> USE DEF TypeOK, IngestTypeOK
<1>0. \A n \in 1..Len(outbox[b]) : \E d \in InFlight : Part(outbox[b][n], d)
  BY Queued, PartOfItself
<1>1. ASSUME NEW c \in observed[b], Begin(b, c)
      PROVE  Carried
  <2>1. c \in InFlight BY Flying DEF Flies
  <2>2. UNCHANGED outbox /\ UNCHANGED <<wire, serving>>
    BY <1>1 DEF Begin, ingestVars
  <2>3. \A a \in Browsers \ {b} : observed'[a] = observed[a] /\ handling'[a] = handling[a]
    BY <1>1 DEF Begin
  <2>4. observed'[b] \subseteq observed[b] /\ handling'[b].capture = c BY <1>1 DEF Begin
  <2> QED BY <1>0, <2>1, <2>2, <2>3, <2>4, BrowserCarries
<1>2. ASSUME NEW resend \in BOOLEAN, Enqueue(b, resend)
      PROVE  Carried
  <2>1. handling[b] \in Handlings /\ handling[b] # None BY <1>2 DEF Enqueue
  <2>2. handling[b].capture \in InFlight BY <2>1, Flying DEF Flies
  <2> DEFINE payload == Payload(handling[b].capture, handling[b].state.seen, resend)
  <2>a. handling[b].capture \in Captures /\ handling[b].state.seen \in [Messages -> Nat]
    BY <2>1 DEF Handlings, SyncStates
  <2>3. payload \in Captures /\ Part(payload, handling[b].capture)
    BY <2>a, PayloadType, PayloadPart
  <2>4. outbox'[b] \in {outbox[b], Append(outbox[b], payload)} BY <1>2 DEF Enqueue
  <2> HIDE DEF payload
  <2>5. \A n \in 1..Len(outbox'[b]) : \E d \in InFlight : Part(outbox'[b][n], d)
    <3>1. CASE outbox'[b] = outbox[b] BY <1>0, <3>1
    <3>2. CASE outbox'[b] = Append(outbox[b], payload)
      BY <1>0, <2>2, <2>3, <3>2, AppendElements
    <3> QED BY <2>4, <3>1, <3>2
  <2>6. /\ UNCHANGED <<wire, serving>> /\ UNCHANGED observed /\ handling'[b] = None
        /\ \A a \in Browsers \ {b} : handling'[a] = handling[a] /\ outbox'[a] = outbox[a]
    BY <1>2 DEF Enqueue, ingestVars
  <2> QED BY <2>5, <2>6, BrowserCarries
<1>3. CASE Skip(b)
  <2>1. /\ UNCHANGED <<wire, serving>> /\ UNCHANGED <<observed, outbox>> /\ handling'[b] = None
        /\ \A a \in Browsers \ {b} : handling'[a] = handling[a]
    BY <1>3 DEF Skip, ingestVars
  <2> QED BY <1>0, <2>1, BrowserCarries
<1> QED BY <1>1, <1>2, <1>3

LEMMA DeliveryCarries ==
  ASSUME TypeOK, NEW b \in Browsers, DeliveryStep(b)
  PROVE  Carried
<1> USE DEF TypeOK, IngestTypeOK
<1>1. CASE Send(b)
  <2> SUFFICES ASSUME NEW c \in InFlight'
               PROVE  c \in InFlight
    BY PartOfItself DEF Carried
  <2>1. /\ UNCHANGED <<observed, handling, outbox>> /\ UNCHANGED serving
        /\ outbox[b] # <<>>
        /\ \A request \in wire' : request \in wire \/ request.capture = Head(outbox[b])
    BY <1>1 DEF Send, ingestVars
  <2>2. 1 \in 1..Len(outbox[b]) /\ Head(outbox[b]) = outbox[b][1] BY <2>1
  <2>3. Head(outbox[b]) \in InFlight BY <2>2, Queued
  <2> QED BY <2>1, <2>3, Flying DEF InFlight, Flies
<1>2. CASE Timeout(b) \/ LoadSync(b) \/ SaveSync(b)
  <2>1. UNCHANGED <<observed, handling, outbox, wire, serving>>
    BY <1>2 DEF Timeout, LoadSync, SaveSync, ingestVars
  <2>2. InFlight' = InFlight BY <2>1 DEF InFlight, Flies
  <2> QED BY <2>2, PartOfItself DEF Carried
<1>3. CASE Remove(b)
  <2>1. outbox[b] # <<>> BY <1>3 DEF Remove
  <2>2. outbox'[b] = Tail(outbox[b]) BY <1>3 DEF Remove
  <2>3. \A n \in 1..Len(outbox'[b]) : n+1 \in 1..Len(outbox[b]) /\ outbox'[b][n] = outbox[b][n+1]
    BY <2>1, <2>2
  <2>4. \A n \in 1..Len(outbox'[b]) : \E d \in InFlight : Part(outbox'[b][n], d)
    BY <2>3, Queued, PartOfItself
  <2>5. handling[b] # None => handling[b].capture \in InFlight BY Flying DEF Flies
  <2>6. /\ UNCHANGED <<wire, serving>> /\ UNCHANGED <<observed, handling>>
        /\ \A a \in Browsers \ {b} : outbox'[a] = outbox[a]
    BY <1>3 DEF Remove, ingestVars
  <2> QED BY <2>4, <2>5, <2>6, BrowserCarries
<1> QED BY <1>1, <1>2, <1>3 DEF DeliveryStep

LEMMA KillCarries ==
  ASSUME TypeOK, NEW b \in Browsers, Kill(b)
  PROVE  Carried
<1> USE DEF TypeOK, IngestTypeOK
<1>1. \A n \in 1..Len(outbox[b]) : \E d \in InFlight : Part(outbox[b][n], d)
  BY Queued, PartOfItself
<1>2. /\ UNCHANGED <<wire, serving>> /\ UNCHANGED outbox
      /\ observed'[b] = {} /\ handling'[b] = None
      /\ \A a \in Browsers \ {b} : observed'[a] = observed[a] /\ handling'[a] = handling[a]
  BY DEF Kill, ingestVars
<1> QED BY <1>1, <1>2, BrowserCarries

LEMMA BackendCarries ==
  ASSUME TypeOK, BackendStep
  PROVE  Carried
<1> SUFFICES ASSUME NEW c \in InFlight'
             PROVE  c \in InFlight
  BY PartOfItself DEF Carried
<1>1. UNCHANGED <<observed, handling, outbox>>
  BY DEF BackendStep, Receive, Ingested, Failed, browsers
<1>2. /\ wire' \subseteq wire
      /\ \A h \in serving' : h \in serving \/ h.request \in wire
  BY DEF BackendStep, Receive, Serve, Ingested, Commit, Quarantine, Accept, Failed, Rollback
<1> QED BY <1>1, <1>2, Flying DEF InFlight, Flies

------------------------------------------------------------------------------
(* The invariant is inductive. *)

LEMMA InvInit == Init => SyncInv
<1> SUFFICES ASSUME Init
             PROVE  SyncInv
  OBVIOUS
<1> USE DEF Init, IngestInit
<1>1. \A b \in Browsers : observed[b] = {} /\ handling[b] = None /\ Len(outbox[b]) = 0
  OBVIOUS
<1>2. InFlight = {} BY <1>1 DEF InFlight, Flies
<1> QED BY <1>2 DEF SyncInv, CapturesTrue, Watermarked, RowsCurrent

\* A part of a capture is as true as the capture.
LEMMA PartCovers ==
  ASSUME NEW c \in Captures, NEW d \in Captures, Part(c, d), NEW t, Covers(d, t)
  PROVE  Covers(c, t)
  BY CaptureFields DEF Covers, Part

LEMMA PartCovered ==
  ASSUME NEW c \in Captures, NEW d \in Captures, NEW e \in Captures, Part(d, e),
         Covers(c, e.text)
  PROVE  Covers(c, d.text)
  BY CaptureFields DEF Covers, Part

LEMMA PartAsOfItsTime ==
  ASSUME TypeOK, NEW c \in Captures, NEW d \in Captures, Part(c, d), AsOfItsTime(d)
  PROVE  AsOfItsTime(c)
<1>1. Covers(c, text) /\ Covers(c, transcript) BY PartCovers DEF AsOfItsTime
<1>2. c.at <= now BY DEF AsOfItsTime, Part
<1>3. ASSUME NEW m \in Messages
      PROVE  c.text[m] <= text[m]
  <2>1. d.text[m] \in Nat /\ text[m] \in Nat /\ d.text[m] <= text[m]
    BY CaptureFields, StateFields DEF AsOfItsTime
  <2>2. c.text[m] \in {0, d.text[m]} BY DEF Part
  <2> QED BY <2>1, <2>2
<1>4. c.kind = "complete" => \A m \in Messages : c.text[m] = 0 => Missing(m) >= c.at
  BY DEF AsOfItsTime, Part
<1> QED BY <1>1, <1>2, <1>3, <1>4 DEF AsOfItsTime

\* What the provider and the transcript do not do, no capture in flight disturbs.
LEMMA CarriedStaysTrue ==
  ASSUME TypeOK, TypeOK', SyncInv, Carried, UNCHANGED provider, UNCHANGED transcript
  PROVE  CapturesTrue'
<1>0. /\ InFlight \subseteq Captures /\ InFlight' \subseteq Captures
      /\ UNCHANGED <<now, text, shown, left>>
  BY DEF InFlight, provider
<1>1. ASSUME NEW c \in InFlight'
      PROVE  AsOfItsTime(c)'
  <2>1. PICK d \in InFlight : Part(c, d) BY DEF Carried
  <2>2. AsOfItsTime(c) BY <1>0, <2>1, PartAsOfItsTime DEF SyncInv, CapturesTrue
  <2>3. \A m \in Messages : Missing(m)' = Missing(m) BY <1>0 DEF Missing
  <2> QED BY <1>0, <2>2, <2>3 DEF AsOfItsTime, Covers
<1>2. ASSUME NEW c \in InFlight', NEW d \in InFlight'
      PROVE  Covers(c, d.text)
  <2>1. PICK p \in InFlight : Part(c, p) BY DEF Carried
  <2>2. PICK q \in InFlight : Part(d, q) BY DEF Carried
  <2>3. Covers(p, q.text) BY DEF SyncInv, CapturesTrue
  <2> QED BY <1>0, <2>1, <2>2, <2>3, PartCovers, PartCovered
<1> QED BY <1>1, <1>2 DEF CapturesTrue, Covers

\* Steps that leave the provider, the transcript and the handlers alone.
LEMMA QuietStep ==
  ASSUME TypeOK, TypeOK', SyncInv, Carried, UNCHANGED provider,
         UNCHANGED <<transcript, watermark, heldAt, asked>>,
         serving' \subseteq serving
  PROVE  SyncInv'
<1>1. CapturesTrue' BY CarriedStaysTrue
<1>2. Watermarked' BY DEF SyncInv, Watermarked, provider
<1>3. RowsCurrent' BY DEF SyncInv, RowsCurrent
<1> QED BY <1>1, <1>2, <1>3 DEF SyncInv

LEMMA InvCapture ==
  ASSUME TypeOK, TypeOK', SyncInv, NEW b \in Browsers,
         \/ \E c \in observed[b] : Begin(b, c)
         \/ \E resend \in BOOLEAN : Enqueue(b, resend)
         \/ Skip(b)
  PROVE  SyncInv'
<1>1. Carried BY CaptureCarries
<1>2. UNCHANGED provider /\ UNCHANGED <<transcript, watermark, heldAt, asked, serving>>
  BY DEF Begin, Enqueue, Skip, ingestVars
<1> QED BY <1>1, <1>2, QuietStep

LEMMA InvDelivery ==
  ASSUME TypeOK, TypeOK', SyncInv, NEW b \in Browsers, DeliveryStep(b)
  PROVE  SyncInv'
<1>1. Carried BY DeliveryCarries
<1>2. UNCHANGED provider /\ UNCHANGED <<transcript, watermark, heldAt, asked, serving>>
  BY DEF DeliveryStep, Send, Timeout, LoadSync, SaveSync, Remove, ingestVars
<1> QED BY <1>1, <1>2, QuietStep

LEMMA InvKill ==
  ASSUME TypeOK, TypeOK', SyncInv, NEW b \in Browsers, Kill(b)
  PROVE  SyncInv'
<1>1. Carried BY KillCarries
<1>2. UNCHANGED provider /\ UNCHANGED <<transcript, watermark, heldAt, asked, serving>>
  BY DEF Kill, ingestVars
<1> QED BY <1>1, <1>2, QuietStep

\* The provider moves on: what was captured stays as of its time.
LEMMA InvProvider ==
  ASSUME TypeOK, TypeOK', SyncInv, ProviderStep
  PROVE  SyncInv'
<1>0. InFlight \subseteq Captures BY DEF InFlight
<1>1. /\ now' = now + 1
      /\ UNCHANGED ingestVars /\ UNCHANGED browsers /\ UNCHANGED <<wire, heldAt>>
      /\ \A m \in Messages : /\ text'[m] \in {text[m], now + 1}
                             /\ m \in shown' => text'[m] # 0
                             /\ left'[m] = IF m \in shown' \ shown THEN now ELSE left[m]
  <2> USE DEF TypeOK, IngestTypeOK
  <2>1. CASE \E part \in SUBSET Messages : Write(part)
    BY <2>1 DEF Write, Tick, Show, SyncInv, Watermarked
  <2>2. CASE \E branch \in SUBSET Messages : Switch(branch)
    BY <2>2 DEF Switch, Tick, Show
  <2> QED BY <2>1, <2>2 DEF ProviderStep
<1>2. InFlight' = InFlight BY <1>1 DEF InFlight, Flies, ingestVars, browsers
<1>3. \A m \in Messages : text[m] <= now /\ text[m] <= text'[m] /\ text'[m] <= now'
  BY <1>1, StateFields DEF SyncInv, Watermarked
<1>4. ASSUME NEW c \in InFlight
      PROVE  AsOfItsTime(c)'
  <2>1. AsOfItsTime(c) /\ c \in Captures BY <1>0 DEF SyncInv, CapturesTrue
  <2>2. transcript' = transcript BY <1>1 DEF ingestVars
  <2>3. \A m \in Messages : Missing(m) >= c.at => Missing(m)' >= c.at
    BY <1>1, <2>1, CaptureFields, StateFields DEF Missing, AsOfItsTime
  <2>4. c.at <= now /\ c.at <= now'
    BY <1>1, <2>1, CaptureFields, StateFields DEF AsOfItsTime
  <2>5. Covers(c, text)'
    <3> SUFFICES ASSUME NEW m \in Messages, c.text[m] # 0, text'[m] <= c.at
                 PROVE  text'[m] <= c.text[m]
      BY DEF Covers
    <3>1. text'[m] = text[m]
      BY <1>1, <2>1, <2>4, CaptureFields, StateFields
    <3> QED BY <2>1, <3>1 DEF AsOfItsTime, Covers
  <2>6. \A m \in Messages : c.text[m] <= text'[m]
    <3> SUFFICES ASSUME NEW m \in Messages
                 PROVE  c.text[m] <= text'[m]
      OBVIOUS
    <3>1. text'[m] \in Nat BY <1>1, StateFields
    <3> QED BY <1>3, <2>1, <3>1, CaptureFields, StateFields DEF AsOfItsTime
  <2>7. Covers(c, transcript)'
    BY <2>1, <2>2 DEF AsOfItsTime, Covers
  <2> QED BY <2>1, <2>3, <2>4, <2>5, <2>6, <2>7 DEF AsOfItsTime
<1>5. CapturesTrue' BY <1>2, <1>4 DEF SyncInv, CapturesTrue, Covers
<1>6. Watermarked'
  <2>1. UNCHANGED <<transcript, watermark, heldAt, asked>> BY <1>1 DEF ingestVars, browsers
  <2>a. \A ask \in asked : ask.at <= now'
    <3>1. \A ask \in asked : ask.at \in Nat BY DEF TypeOK, Asks
    <3> QED BY <1>1, <3>1, StateFields DEF SyncInv, Watermarked
  <2>2. watermark' <= now' BY <1>1, <2>1, StateFields DEF SyncInv, Watermarked
  <2>3. ASSUME NEW m \in Messages
        PROVE  transcript'[m] <= text'[m]
    <3>1. transcript[m] <= text[m] BY DEF SyncInv, Watermarked
    <3>2. text'[m] \in Nat BY <1>1, StateFields
    <3> QED BY <1>3, <2>1, <3>1, <3>2, StateFields
  <2> QED BY <1>1, <1>3, <2>1, <2>2, <2>3, <2>a DEF SyncInv, Watermarked
<1>7. RowsCurrent' BY <1>1 DEF SyncInv, RowsCurrent, ingestVars
<1> QED BY <1>5, <1>6, <1>7 DEF SyncInv

\* A new capture shows the conversation as it is, after it was asked for.
LEMMA NewCaptureTrue ==
  ASSUME TypeOK, TypeOK', SyncInv, NEW c \in Captures, NEW part \in SUBSET Messages,
         now' \in {now, now + 1}, c.at <= now', c.text = Seen(part),
         c.kind = "complete" => part = shown,
         InFlight' \subseteq InFlight \cup {c}, asked' \subseteq asked,
         UNCHANGED ingestVars, UNCHANGED <<text, shown, left, heldAt>>
  PROVE  SyncInv'
<1>0. /\ InFlight \subseteq Captures
      /\ UNCHANGED <<transcript, watermark, serving, text, shown, left, heldAt>>
      /\ now \in Nat /\ now' \in Nat /\ now <= now'
  BY StateFields DEF InFlight, ingestVars
<1>1. \A m \in Messages : /\ text[m] <= now /\ transcript[m] <= text[m]
                          /\ c.text[m] \in {0, text[m]}
                          /\ c.text[m] = 0 /\ c.kind = "complete" => m \notin shown
  BY DEF Seen, SyncInv, Watermarked
<1>2. AsOfItsTime(c)'
  <2>1. Covers(c, text)' /\ Covers(c, transcript)'
    BY <1>0, <1>1, StateFields DEF Covers
  <2>2. \A m \in Messages : c.text[m] <= text'[m]
    BY <1>0, <1>1, StateFields
  <2>3. \A m \in Messages : m \notin shown => Missing(m)' = now'
    BY <1>0 DEF Missing
  <2>4. \A m \in Messages : Missing(m)' = now' => Missing(m)' >= c.at
    BY <1>0, CaptureFields
  <2> QED BY <1>1, <2>1, <2>2, <2>3, <2>4 DEF AsOfItsTime
<1>3. ASSUME NEW d \in InFlight
      PROVE  AsOfItsTime(d)' /\ Covers(c, d.text) /\ Covers(d, c.text)
  <2>1. AsOfItsTime(d) /\ d \in Captures BY <1>0 DEF SyncInv, CapturesTrue
  <2>2. AsOfItsTime(d)'
    <3>1. \A m \in Messages : Missing(m) >= d.at => Missing(m)' >= d.at
      BY <1>0, <2>1, CaptureFields, StateFields DEF Missing, AsOfItsTime
    <3>2. d.at <= now' BY <1>0, <2>1, CaptureFields DEF AsOfItsTime
    <3> QED BY <1>0, <2>1, <3>1, <3>2 DEF AsOfItsTime, Covers
  <2>3. Covers(c, d.text)
    BY <1>1, <2>1, CaptureFields, StateFields DEF AsOfItsTime, Covers
  <2>4. Covers(d, c.text)
    BY <1>1, <2>1, CaptureFields, StateFields DEF AsOfItsTime, Covers
  <2> QED BY <2>2, <2>3, <2>4
<1>4. Covers(c, c.text) BY CaptureFields DEF Covers
<1>5. CapturesTrue' BY <1>2, <1>3, <1>4 DEF SyncInv, CapturesTrue, Covers
<1>6. Watermarked'
  <2>1. \A ask \in asked : ask.at \in Nat BY DEF TypeOK, Asks
  <2>2. \A ask \in asked' : ask.at <= now' BY <1>0, <2>1 DEF SyncInv, Watermarked
  <2> QED BY <1>0, <2>2, StateFields DEF SyncInv, Watermarked
<1>7. RowsCurrent' BY <1>0 DEF SyncInv, RowsCurrent
<1> QED BY <1>5, <1>6, <1>7 DEF SyncInv

\* Time passes.
LEMMA InvAsk ==
  ASSUME TypeOK, TypeOK', SyncInv, NEW b \in Browsers, Ask(b)
  PROVE  SyncInv'
<1>0. /\ InFlight \subseteq Captures /\ now' = now + 1 /\ now \in Nat
      /\ UNCHANGED <<transcript, watermark, serving, text, shown, left, heldAt>>
      /\ UNCHANGED <<observed, handling, outbox, wire>>
      /\ \A ask \in asked' : ask \in asked \/ ask.at = now + 1
  BY StateFields DEF InFlight, Ask, Tick, ingestVars
<1>1. InFlight' = InFlight BY <1>0 DEF InFlight, Flies
<1>2. ASSUME NEW d \in InFlight
      PROVE  AsOfItsTime(d)'
  <2>1. AsOfItsTime(d) /\ d \in Captures BY <1>0 DEF SyncInv, CapturesTrue
  <2>2. \A m \in Messages : Missing(m) >= d.at => Missing(m)' >= d.at
    BY <1>0, <2>1, CaptureFields, StateFields DEF Missing, AsOfItsTime
  <2>3. d.at <= now' BY <1>0, <2>1, CaptureFields DEF AsOfItsTime
  <2> QED BY <1>0, <2>1, <2>2, <2>3 DEF AsOfItsTime, Covers
<1>3. CapturesTrue' BY <1>1, <1>2 DEF SyncInv, CapturesTrue, Covers
<1>4. Watermarked'
  <2>1. \A ask \in asked : ask.at \in Nat BY DEF TypeOK, Asks
  <2>2. \A ask \in asked' : ask.at <= now' BY <1>0, <2>1 DEF SyncInv, Watermarked
  <2> QED BY <1>0, <2>2, StateFields DEF SyncInv, Watermarked
<1>5. RowsCurrent' BY <1>0 DEF SyncInv, RowsCurrent
<1> QED BY <1>3, <1>4, <1>5 DEF SyncInv

LEMMA InvObserve ==
  ASSUME TypeOK, TypeOK', SyncInv, NEW b \in Browsers, NEW ask \in asked, NEW kind \in Modes,
         NEW part \in SUBSET Messages, NEW suspect \in BOOLEAN,
         Observe(b, ask, kind, part, suspect)
  PROVE  SyncInv'
<1> USE DEF TypeOK, IngestTypeOK
<1> DEFINE c == [kind |-> kind, dated |-> TRUE, at |-> ask.at, text |-> Seen(part),
                 suspect |-> suspect]
<1>1. Seen(part) \in [Messages -> Nat] /\ ask.at \in Nat BY DEF Seen, Asks
<1>2. c \in Captures BY <1>1 DEF Captures
<1>3. observed' = [observed EXCEPT ![b] = @ \cup {c}] BY DEF Observe
<1>4. UNCHANGED <<handling, outbox, wire, serving>> BY DEF Observe, ingestVars
<1>5. \A a \in Browsers : observed'[a] \subseteq observed[a] \cup {c}
  BY <1>3
<1>6. InFlight' \subseteq InFlight \cup {c} BY <1>4, <1>5 DEF InFlight, Flies
<1>7. c.at = ask.at /\ c.text = Seen(part) /\ (c.kind = "complete" => part = shown)
  BY DEF Observe
<1>8. /\ now' = now /\ UNCHANGED ingestVars /\ UNCHANGED <<text, shown, left, heldAt>>
      /\ asked' \subseteq asked
  BY DEF Observe, provider
<1>9. ask.at <= now BY DEF SyncInv, Watermarked
<1> HIDE DEF c
<1> QED BY <1>2, <1>6, <1>7, <1>8, <1>9, NewCaptureTrue

LEMMA InvImport ==
  ASSUME TypeOK, TypeOK', SyncInv, NEW part \in SUBSET Messages, Import(part)
  PROVE  SyncInv'
<1> USE DEF TypeOK, IngestTypeOK
<1> DEFINE c == [kind |-> "partial", dated |-> FALSE, at |-> now + 1, text |-> Seen(part),
                 suspect |-> FALSE]
<1>1. Seen(part) \in [Messages -> Nat] BY DEF Seen
<1>2. c \in Captures BY <1>1 DEF Captures, Kinds
<1>3. wire' = wire \cup {[attempt |-> 0, capture |-> c]} BY DEF Import
<1>4. UNCHANGED <<observed, handling, outbox, serving>> BY DEF Import, browsers, ingestVars
<1>5. \A request \in wire' : request \in wire \/ request.capture = c
  <2> HIDE DEF c
  <2> QED BY <1>3
<1>6. InFlight' \subseteq InFlight \cup {c} BY <1>4, <1>5 DEF InFlight, Flies
<1>7. c.at = now + 1 /\ c.text = Seen(part) /\ c.kind = "partial" OBVIOUS
<1>8. /\ now' = now + 1 /\ UNCHANGED ingestVars /\ UNCHANGED <<text, shown, left, heldAt>>
      /\ asked' \subseteq asked
  BY DEF Import, Tick, browsers
<1>9. c.at <= now' BY <1>7, <1>8, StateFields
<1> HIDE DEF c
<1> QED BY <1>2, <1>6, <1>7, <1>8, <1>9, NewCaptureTrue

------------------------------------------------------------------------------
(* The backend. *)

LEMMA InvReceive ==
  ASSUME TypeOK, TypeOK', SyncInv, NEW request \in wire, Receive(request)
  PROVE  SyncInv'
<1>1. Carried BY BackendCarries DEF BackendStep
<1>2. UNCHANGED provider /\ UNCHANGED <<transcript, watermark, heldAt, asked>>
  BY DEF Receive, Serve, browsers
<1>3. CapturesTrue' BY <1>1, <1>2, CarriedStaysTrue
<1>4. Watermarked' BY <1>2 DEF SyncInv, Watermarked, provider
<1>5. RowsCurrent' BY <1>2 DEF Receive, Serve, Unlocked, RowsCurrent
<1> QED BY <1>3, <1>4, <1>5 DEF SyncInv

LEMMA InvFailed ==
  ASSUME TypeOK, TypeOK', SyncInv, NEW h \in serving, Failed(h)
  PROVE  SyncInv'
<1>1. Carried BY BackendCarries DEF BackendStep
<1>2. /\ UNCHANGED provider /\ UNCHANGED <<transcript, watermark, heldAt, asked>>
      /\ serving' \subseteq serving
  BY DEF Failed, Rollback
<1> QED BY <1>1, <1>2, QuietStep

\* What accepting a capture does to each message and to the watermark.
LEMMA Accepting ==
  ASSUME TypeOK, SyncInv, NEW h \in serving, Accept(h, now), NEW m \in Messages
  PROVE  LET c == h.request.capture IN
         /\ c \in InFlight
         /\ \/ transcript'[m] = transcript[m]
            \/ /\ transcript'[m] = c.text[m] /\ c.text[m] # 0
               /\ transcript[m] # 0 => c.dated /\ c.at > watermark
            \/ /\ transcript'[m] = 0 /\ c.text[m] = 0 /\ c.kind = "complete"
               /\ c.dated /\ c.at > watermark
         /\ watermark <= watermark' /\ watermark' <= now
         /\ c.dated => c.at <= watermark'
<1> USE DEF TypeOK, IngestTypeOK
<1> DEFINE c == h.request.capture
<1>1. c \in InFlight /\ h \in Handlers /\ c \in Captures
  BY Flying DEF Flies, Handlers, Requests
<1>2. h.transcript = transcript /\ h.watermark = watermark /\ watermark <= now
  BY DEF SyncInv, RowsCurrent, Watermarked
<1>3. c.at <= now BY <1>1 DEF SyncInv, CapturesTrue, AsOfItsTime
<1>4. transcript' = Merged(h)
  BY <1>2, <1>1, MergedType DEF Accept
<1>5. watermark' = Marked(h, now) BY <1>2 DEF Accept
<1>6. /\ watermark <= watermark' /\ watermark' <= now
      /\ c.dated => c.at <= watermark'
  BY <1>1, <1>2, <1>3, <1>5 DEF Marked, Stale, Later, Captures
<1>8. \/ Merged(h)[m] = transcript[m]
      \/ /\ Merged(h)[m] = c.text[m] /\ c.text[m] # 0
         /\ transcript[m] # 0 => c.dated /\ c.at > watermark
      \/ /\ Merged(h)[m] = 0 /\ c.text[m] = 0 /\ c.kind = "complete"
         /\ c.dated /\ c.at > watermark
  BY <1>2 DEF Merged, Newer, DeletesMissing
<1> QED BY <1>1, <1>4, <1>6, <1>8

LEMMA InvIngested ==
  ASSUME TypeOK, TypeOK', SyncInv, NEW h \in serving, Ingested(h)
  PROVE  SyncInv'
<1> USE DEF TypeOK, IngestTypeOK
<1>1. Carried BY BackendCarries DEF BackendStep
<1>2. UNCHANGED <<now, text, shown, left, asked>> /\ UNCHANGED provider
  BY DEF Ingested, provider
<1>3. serving' = {}
  <2>1. serving' = serving \ {h} BY DEF Ingested, Commit, Quarantine, Accept
  <2> QED BY <2>1 DEF SyncInv, RowsCurrent
<1>4. RowsCurrent' BY <1>3 DEF RowsCurrent
<1>5. CASE Quarantine(h)
  <2>1. UNCHANGED <<transcript, watermark, heldAt>> BY <1>5 DEF Quarantine, Ingested
  <2> QED BY <1>1, <1>2, <1>3, <2>1, QuietStep
<1>6. CASE Accept(h, now)
  <2> DEFINE c == h.request.capture
  <2>0. /\ InFlight \subseteq Captures /\ InFlight' \subseteq Captures
        /\ c \in InFlight /\ c \in Captures
    BY Flying DEF InFlight, Flies, Handlers, Requests
  <2>1. AsOfItsTime(c) /\ \A d \in InFlight : Covers(d, c.text)
    BY <2>0 DEF SyncInv, CapturesTrue
  <2>2. ASSUME NEW d \in InFlight
        PROVE  Covers(d, transcript')
    <3>1. AsOfItsTime(d) /\ d \in Captures BY <2>0 DEF SyncInv, CapturesTrue
    <3>2. \A m \in Messages : transcript'[m] \in {transcript[m], c.text[m], 0}
      BY <1>6, Accepting
    <3>3. SUFFICES ASSUME NEW m \in Messages, d.text[m] # 0, transcript'[m] <= d.at
                   PROVE  transcript'[m] <= d.text[m]
      BY DEF Covers
    <3>4. CASE transcript'[m] = transcript[m] BY <3>1, <3>3, <3>4 DEF AsOfItsTime, Covers
    <3>5. CASE transcript'[m] = c.text[m] BY <2>1, <3>3, <3>5 DEF Covers
    <3>6. CASE transcript'[m] = 0 BY <3>1, <3>6 DEF Captures
    <3> QED BY <3>2, <3>4, <3>5, <3>6
  <2>3. ASSUME NEW e \in InFlight'
        PROVE  AsOfItsTime(e)' /\ \A d \in InFlight' : Covers(e, d.text)
    <3>1. PICK d \in InFlight : Part(e, d) BY <1>1 DEF Carried
    <3>2. AsOfItsTime(d) /\ Covers(d, transcript') /\ d \in Captures /\ e \in Captures
      BY <2>0, <2>2 DEF SyncInv, CapturesTrue
    <3>a. AsOfItsTime(e) BY <3>1, <3>2, PartAsOfItsTime
    <3>b. Covers(e, transcript') BY <3>1, <3>2, PartCovers
    <3>c. \A m \in Messages : Missing(m)' = Missing(m) BY <1>2 DEF Missing
    <3>3. AsOfItsTime(e)'
      BY <1>2, <3>a, <3>b, <3>c DEF AsOfItsTime, Covers
    <3>4. ASSUME NEW f \in InFlight' PROVE Covers(e, f.text)
      <4>1. PICK g \in InFlight : Part(f, g) BY <1>1 DEF Carried
      <4>2. Covers(d, g.text) /\ f \in Captures /\ g \in Captures
        BY <2>0 DEF SyncInv, CapturesTrue
      <4> QED BY <3>1, <3>2, <4>1, <4>2, PartCovers, PartCovered
    <3> QED BY <3>3, <3>4
  <2>4. CapturesTrue' BY <2>3 DEF CapturesTrue, Covers
  <2>5. ASSUME NEW m \in Messages
        PROVE  /\ heldAt'[m] <= watermark'
               /\ transcript'[m] <= text[m] /\ watermark' <= now
    <3>1. c.text[m] <= text[m] /\ c.at <= now
      BY <2>1 DEF AsOfItsTime
    <3>2. heldAt[m] <= watermark /\ transcript[m] <= text[m] /\ text[m] <= now
      BY DEF SyncInv, Watermarked
    <3>3. /\ watermark <= watermark' /\ watermark' <= now
          /\ c.dated => c.at <= watermark'
      BY <1>6, Accepting
    <3>a. transcript'[m] \in {0, transcript[m], c.text[m]} BY <1>6, Accepting
    <3>4. transcript'[m] <= text[m] BY <3>1, <3>2, <3>a, StateFields
    <3>5. heldAt'[m] \in {heldAt[m], c.at} /\ (heldAt'[m] # heldAt[m] => c.dated)
      BY DEF Ingested, Held, Later
    <3>6. heldAt'[m] <= watermark' BY <2>0, <3>2, <3>3, <3>5 DEF Captures
    <3> QED BY <3>3, <3>4, <3>6
  <2>6. watermark' <= now
    <3>1. CASE Messages = {}
      <4>1. Merged(h) = h.transcript BY <3>1, MergedType DEF Handlers
      <4>2. h \in Handlers /\ h.watermark = watermark BY DEF SyncInv, RowsCurrent
      <4>3. watermark' = Marked(h, now) BY <1>6, <4>2 DEF Accept
      <4> QED BY <2>0, <2>1, <4>1, <4>2, <4>3
              DEF Marked, Later, AsOfItsTime, SyncInv, Watermarked, Captures
    <3>2. CASE Messages # {} BY <2>5, <3>2
    <3> QED BY <3>1, <3>2
  <2>7. Watermarked' BY <1>2, <2>5, <2>6 DEF SyncInv, Watermarked
  <2> QED BY <1>4, <2>4, <2>7 DEF SyncInv
<1> QED BY <1>5, <1>6 DEF Ingested, Commit

LEMMA InvStep == TypeOK /\ TypeOK' /\ SyncInv /\ [Next]_vars => SyncInv'
<1> SUFFICES ASSUME TypeOK, TypeOK', SyncInv, [Next]_vars
             PROVE  SyncInv'
  OBVIOUS
<1>1. CASE ProviderStep BY <1>1, InvProvider
<1>2. ASSUME NEW b \in Browsers, CaptureStep(b) PROVE SyncInv'
  BY <1>2, InvCapture, InvAsk, InvObserve DEF CaptureStep
<1>3. ASSUME NEW b \in Browsers, DeliveryStep(b) \/ Kill(b) PROVE SyncInv'
  BY <1>3, InvDelivery, InvKill
<1>4. ASSUME NEW part \in SUBSET Messages, Import(part) PROVE SyncInv'
  BY <1>4, InvImport
<1>5. CASE BackendStep BY <1>5, InvReceive, InvIngested, InvFailed DEF BackendStep
<1>6. CASE UNCHANGED vars
  <2>1. InFlight' = InFlight BY <1>6 DEF InFlight, Flies, vars, ingestVars
  <2>2. Carried BY <2>1, PartOfItself DEF Carried
  <2>3. UNCHANGED provider /\ UNCHANGED <<transcript, watermark, heldAt, asked, serving>>
    BY <1>6 DEF vars, ingestVars, provider
  <2> QED BY <2>2, <2>3, QuietStep
<1> QED BY <1>1, <1>2, <1>3, <1>4, <1>5, <1>6 DEF Next

\* A capture in flight shows the conversation as of its time, and loaded rows are current.
THEOREM SyncCorrect == Spec => []SyncInv
<1>1. Init => TypeOK /\ SyncInv BY TypeInit, InvInit
<1>2. TypeOK /\ SyncInv /\ [Next]_vars => (TypeOK /\ SyncInv)' BY TypeStep, InvStep
<1> QED BY <1>1, <1>2, PTL DEF Spec

------------------------------------------------------------------------------
(* What follows. *)

\* Only the acceptance of a capture changes the transcript.
LEMMA TranscriptChanges ==
  ASSUME [Next]_vars, transcript' # transcript
  PROVE  /\ \E h \in serving : Ingested(h) /\ Accept(h, now)
         /\ UNCHANGED provider
<1>1. CASE BackendStep
  BY <1>1 DEF BackendStep, Receive, Serve, Ingested, Commit, Quarantine, Failed, Rollback
<1>2. CASE ProviderStep
  BY <1>2 DEF ProviderStep, Write, Switch, Show, ingestVars
<1>3. ASSUME NEW b \in Browsers, CaptureStep(b) \/ DeliveryStep(b) \/ Kill(b) PROVE FALSE
  BY <1>3 DEF CaptureStep, Ask, Observe, Begin, Enqueue, Skip, DeliveryStep, Send, Timeout,
              LoadSync, SaveSync, Remove, Kill, ingestVars
<1>4. CASE \E part \in SUBSET Messages : Import(part) BY <1>4 DEF Import, ingestVars
<1>5. CASE UNCHANGED vars BY <1>5 DEF vars, ingestVars
<1> QED BY <1>1, <1>2, <1>3, <1>4, <1>5 DEF Next

\* No order of arrival, repetition, retry or crash replaces stored text by older text, but
\* for a capture asked for before that text was written and after the other accepted ones,
\* for any number of messages, browsers and captures.
THEOREM NeverRolledBack == Spec => NotRolledBack
<1>1. TypeOK /\ SyncInv /\ [Next]_vars =>
        [\A m \in Messages : transcript[m] # 0 /\ transcript'[m] # 0
           => transcript'[m] >= transcript[m] \/ transcript[m] > heldAt'[m]]_vars
  <2> SUFFICES ASSUME TypeOK, SyncInv, [Next]_vars,
                      NEW m \in Messages, transcript[m] # 0, transcript'[m] # 0
               PROVE  transcript'[m] >= transcript[m] \/ transcript[m] > heldAt'[m]
    OBVIOUS
  <2>1. CASE transcript' = transcript BY <2>1 DEF TypeOK, IngestTypeOK
  <2>2. CASE transcript' # transcript
    <3>1. PICK h \in serving : Ingested(h) /\ Accept(h, now) BY <2>2, TranscriptChanges
    <3> DEFINE c == h.request.capture
    <3>2. /\ c \in InFlight /\ c \in Captures /\ c.at \in Nat /\ c.text[m] \in Nat
          /\ transcript[m] \in Nat /\ watermark \in Nat /\ heldAt[m] \in Nat
      BY <3>1, Accepting, CaptureFields, StateFields DEF InFlight
    <3>3. Covers(c, transcript) /\ heldAt[m] <= watermark
      BY <3>2 DEF SyncInv, CapturesTrue, AsOfItsTime, Watermarked
    <3>4. \/ transcript'[m] = transcript[m]
          \/ transcript'[m] = c.text[m] /\ c.text[m] # 0 /\ c.dated /\ c.at > watermark
      BY <3>1, Accepting
    <3>5. CASE transcript'[m] = transcript[m] BY <3>2, <3>5
    <3>6. CASE transcript'[m] = c.text[m] /\ c.text[m] # 0 /\ c.dated /\ c.at > watermark
      <4>1. ~c.suspect BY <3>1 DEF Accept
      <4>2. heldAt'[m] = Held(c)[m] BY <3>1, <4>1 DEF Ingested
      <4>3. heldAt'[m] = c.at BY <3>2, <3>3, <3>6, <4>2 DEF Held, Later
      <4>4. transcript[m] <= c.at => transcript[m] <= c.text[m]
        BY <3>3, <3>6 DEF Covers
      <4> QED BY <3>2, <3>6, <4>3, <4>4
    <3> QED BY <3>4, <3>5, <3>6
  <2> QED BY <2>1, <2>2
<1> QED BY <1>1, TranscriptTypeCorrect, SyncCorrect, PTL DEF Spec, NotRolledBack

\* A message leaves the transcript only if the provider's branch lacked it after the last
\* accepted capture of it was asked for.
THEOREM RemovalsJustified == Spec => RemovedAtProvider
<1>1. TypeOK /\ SyncInv /\ [Next]_vars =>
        [\A m \in Messages : transcript[m] # 0 /\ transcript'[m] = 0
           => Missing(m) > heldAt[m]]_vars
  <2> SUFFICES ASSUME TypeOK, SyncInv, [Next]_vars,
                      NEW m \in Messages, transcript[m] # 0, transcript'[m] = 0
               PROVE  Missing(m) > heldAt[m]
    OBVIOUS
  <2>1. PICK h \in serving : Ingested(h) /\ Accept(h, now) BY TranscriptChanges
  <2> DEFINE c == h.request.capture
  <2>2. c \in InFlight /\ c.text[m] = 0 /\ c.kind = "complete" /\ c.at > watermark
    BY <2>1, Accepting
  <2>3. Missing(m) >= c.at /\ heldAt[m] <= watermark
    BY <2>2 DEF SyncInv, CapturesTrue, AsOfItsTime, Watermarked
  <2>4. c \in Captures /\ heldAt[m] \in Nat /\ watermark \in Nat /\ Missing(m) \in Nat
    BY <2>2 DEF InFlight, TypeOK, IngestTypeOK, Missing
  <2> QED BY <2>2, <2>3, <2>4 DEF Captures
<1> QED BY <1>1, TranscriptTypeCorrect, SyncCorrect, PTL DEF Spec, RemovedAtProvider

------------------------------------------------------------------------------
(* Releases. *)

\* The capture whose receipt a drain holds is durable.
Receipted ==
  \A b \in Browsers : drain[b].pc \in {"acked", "saving", "saved"}
    => Head(outbox[b]) \in events \cup quarantine

LEMMA AppendHead ==
  ASSUME NEW s \in Seq(Captures), NEW c \in Captures, s # <<>>
  PROVE  Head(Append(s, c)) = Head(s) /\ Len(Append(s, c)) > Len(s)
  OBVIOUS

LEMMA ReceiptedStep == TypeOK /\ Receipted /\ [Next]_vars => Receipted'
<1> SUFFICES ASSUME TypeOK, Receipted, [Next]_vars,
                    NEW b \in Browsers, drain'[b].pc \in {"acked", "saving", "saved"}
             PROVE  Head(outbox'[b]) \in events' \cup quarantine'
  BY DEF Receipted
<1> USE DEF TypeOK, IngestTypeOK
<1>1. CASE ProviderStep
  BY <1>1 DEF Receipted, ProviderStep, Write, Switch, Show, ingestVars, browsers
<1>2. ASSUME NEW a \in Browsers, CaptureStep(a)
      PROVE  Head(outbox'[b]) \in events' \cup quarantine'
  <2>1. UNCHANGED drain /\ UNCHANGED <<events, quarantine>>
    BY <1>2 DEF CaptureStep, Ask, Observe, Begin, Enqueue, Skip, ingestVars
  <2>2. outbox[b] # <<>> /\ Head(outbox[b]) \in events \cup quarantine
    BY <2>1 DEF Receipted
  <2>3. Head(outbox'[b]) = Head(outbox[b])
    <3>1. CASE UNCHANGED outbox BY <3>1
    <3>2. ASSUME NEW resend \in BOOLEAN, Enqueue(a, resend)
          PROVE  Head(outbox'[b]) = Head(outbox[b])
      <4>1. handling[a] \in Handlings BY <3>2 DEF Enqueue
      <4>2. PICK payload \in Captures :
              payload = Payload(handling[a].capture, handling[a].state.seen, resend)
        BY <4>1, PayloadType DEF Handlings, SyncStates
      <4>3. outbox'[b] \in {outbox[b], Append(outbox[b], payload)} BY <3>2, <4>2 DEF Enqueue
      <4> QED BY <2>2, <4>2, <4>3, AppendHead
    <3> QED BY <1>2, <3>1, <3>2 DEF CaptureStep, Ask, Observe, Begin, Skip
  <2> QED BY <2>1, <2>2, <2>3
<1>3. ASSUME NEW a \in Browsers, DeliveryStep(a) \/ Kill(a)
      PROVE  Head(outbox'[b]) \in events' \cup quarantine'
  <2>1. UNCHANGED <<events, quarantine>>
    BY <1>3 DEF DeliveryStep, Send, Timeout, LoadSync, SaveSync, Remove, Kill, ingestVars
  <2>2. /\ outbox'[b] = outbox[b]
        /\ drain[b].pc \in {"acked", "saving", "saved"}
    <3>0. Idle.pc = "idle" BY DEF Idle
    <3>1. CASE Send(a) BY <3>1 DEF Send, Idle
    <3>2. CASE Timeout(a) \/ Kill(a) BY <3>0, <3>2 DEF Timeout, Kill
    <3>3. CASE LoadSync(a) BY <3>3 DEF LoadSync, Drains
    <3>4. CASE SaveSync(a) BY <3>4 DEF SaveSync, Drains
    <3>5. CASE Remove(a) BY <3>0, <3>5 DEF Remove
    <3> QED BY <1>3, <3>1, <3>2, <3>3, <3>4, <3>5 DEF DeliveryStep
  <2> QED BY <2>1, <2>2 DEF Receipted
<1>4. ASSUME NEW part \in SUBSET Messages, Import(part)
      PROVE  Head(outbox'[b]) \in events' \cup quarantine'
  BY <1>4 DEF Receipted, Import, browsers, ingestVars
<1>5. ASSUME NEW request \in wire, Receive(request)
      PROVE  Head(outbox'[b]) \in events' \cup quarantine'
  BY <1>5 DEF Receipted, Receive, Serve, browsers
<1>6. ASSUME NEW h \in serving, Ingested(h)
      PROVE  Head(outbox'[b]) \in events' \cup quarantine'
  <2>1. /\ outbox' = outbox /\ events \subseteq events' /\ quarantine \subseteq quarantine'
        /\ h.request.capture \in events' \cup quarantine'
    BY <1>6 DEF Ingested, Commit, Quarantine, Accept, Recorded
  <2>2. CASE Awaits(b, h.request) BY <2>1, <2>2 DEF Awaits
  <2>3. CASE ~Awaits(b, h.request)
    <3>1. drain'[b] = drain[b] BY <1>6, <2>3 DEF Ingested, Respond
    <3> QED BY <2>1, <3>1 DEF Receipted
  <2> QED BY <2>2, <2>3
<1>7. ASSUME NEW h \in serving, Failed(h)
      PROVE  Head(outbox'[b]) \in events' \cup quarantine'
  <2>1. drain'[b] = drain[b] BY <1>7 DEF Failed, Respond, Drains
  <2> QED BY <1>7, <2>1 DEF Receipted, Failed, Rollback
<1>8. CASE UNCHANGED vars BY <1>8 DEF Receipted, vars, ingestVars
<1> QED BY <1>1, <1>2, <1>3, <1>4, <1>5, <1>6, <1>7, <1>8 DEF Next, BackendStep

\* A browser forgets a capture only when the backend has its evidence for good, for any
\* number of browsers, faults and captures.
THEOREM ReleasesStored == Spec => ReleasedIsStored
<1>1. Init => Receipted BY DEF Init, Idle, Receipted
<1>2. TypeOK /\ Receipted /\ [Next]_vars =>
        [\A b \in Browsers : outbox[b] # <<>> /\ Len(outbox'[b]) < Len(outbox[b])
           => Head(outbox[b]) \in events \cup quarantine]_vars
  <2> SUFFICES ASSUME TypeOK, Receipted, [Next]_vars, NEW b \in Browsers,
                      outbox[b] # <<>>, Len(outbox'[b]) < Len(outbox[b])
               PROVE  Head(outbox[b]) \in events \cup quarantine
    OBVIOUS
  <2> USE DEF TypeOK, IngestTypeOK
  <2>1. ASSUME NEW a \in Browsers, Remove(a)
        PROVE  Head(outbox[b]) \in events \cup quarantine
    BY <2>1 DEF Remove, Receipted
  <2>2. ASSUME NEW a \in Browsers, NEW resend \in BOOLEAN, Enqueue(a, resend)
        PROVE  FALSE
    <3>1. handling[a] \in Handlings BY <2>2 DEF Enqueue
    <3>2. PICK payload \in Captures :
            payload = Payload(handling[a].capture, handling[a].state.seen, resend)
      BY <3>1, PayloadType DEF Handlings, SyncStates
    <3>3. outbox'[b] \in {outbox[b], Append(outbox[b], payload)} BY <2>2, <3>2 DEF Enqueue
    <3>4. Len(outbox[b]) \in Nat OBVIOUS
    <3> QED BY <3>2, <3>3, <3>4, AppendHead
  <2>3. CASE UNCHANGED outbox BY <2>3
  <2>4. CASE ProviderStep \/ BackendStep
    BY <2>3, <2>4 DEF ProviderStep, Write, Switch, Show, BackendStep, Receive, Ingested, Failed,
                      browsers
  <2>5. ASSUME NEW a \in Browsers, CaptureStep(a) \/ DeliveryStep(a) \/ Kill(a)
        PROVE  Head(outbox[b]) \in events \cup quarantine
    BY <2>1, <2>2, <2>3, <2>5 DEF CaptureStep, Ask, Observe, Begin, Skip, DeliveryStep, Send,
                                  Timeout, LoadSync, SaveSync, Kill
  <2>6. CASE \E part \in SUBSET Messages : Import(part) BY <2>3, <2>6 DEF Import, browsers
  <2>7. CASE UNCHANGED vars BY <2>3, <2>7 DEF vars
  <2> QED BY <2>4, <2>5, <2>6, <2>7 DEF Next
<1> QED BY <1>1, <1>2, ReceiptedStep, TranscriptTypeCorrect, PTL DEF Spec, ReleasedIsStored

------------------------------------------------------------------------------
(* The sync state. *)

\* What handleCapture has read is not newer than the sync state, and what the drain has read
\* is not older, although a skipped capture may take it back in between.
ReadsOrdered ==
  \A b \in Browsers :
    /\ handling[b] # None => handling[b].state.last <= sync[b].last
    /\ drain[b].pc = "saving" => sync[b].last <= drain[b].loaded.last

\* A receipt advances the sync state.
LEMMA SaveAdvances ==
  ASSUME TypeOK, ReadsOrdered, NEW a \in Browsers, SaveSync(a), NEW b \in Browsers
  PROVE  sync'[b].last >= sync[b].last
<1> USE DEF TypeOK, ReadsOrdered
<1>1. sync[b].last \in Nat /\ drain[b].loaded.last \in Nat BY DEF SyncStates, Drains
<1>2. CASE sync'[b] = sync[b] BY <1>1, <1>2
<1>3. CASE sync'[b] # sync[b]
  <2>1. a = b BY <1>3 DEF SaveSync
  <2>2. /\ MayAdvance(drain[b].loaded, Head(outbox[b]))
        /\ sync'[b] = Advanced(drain[b].loaded, Head(outbox[b]))
        /\ drain[b].pc = "saving"
    BY <1>3, <2>1 DEF SaveSync
  <2>3. outbox[b] # <<>> BY <2>2
  <2>4. Head(outbox[b]) \in Captures BY <2>3
  <2>5. Head(outbox[b]).at \in Nat BY <2>4 DEF Captures
  <2> QED BY <1>1, <2>2, <2>5 DEF MayAdvance, Advanced
<1> QED BY <1>2, <1>3

LEMMA ReadsStep == TypeOK /\ ReadsOrdered /\ [Next]_vars => ReadsOrdered'
<1> SUFFICES ASSUME TypeOK, ReadsOrdered, [Next]_vars, NEW b \in Browsers
             PROVE  /\ handling'[b] # None => handling'[b].state.last <= sync'[b].last
                    /\ drain'[b].pc = "saving" => sync'[b].last <= drain'[b].loaded.last
  BY DEF ReadsOrdered
<1> DEFINE Goal == /\ handling'[b] # None => handling'[b].state.last <= sync'[b].last
                   /\ drain'[b].pc = "saving" => sync'[b].last <= drain'[b].loaded.last
<1>0. sync[b].last \in Nat /\ drain[b].loaded.last \in Nat BY DEF TypeOK, SyncStates, Drains
<1>1. CASE UNCHANGED <<sync, handling>> /\ drain'[b] = drain[b]
  BY <1>1 DEF ReadsOrdered
<1>2. CASE UNCHANGED <<sync, handling>> /\ drain'[b].pc # "saving"
  BY <1>2 DEF ReadsOrdered
<1>3. ASSUME NEW a \in Browsers, CaptureStep(a) PROVE Goal
  <2>1. CASE Skip(a)
    <3>1. CASE a = b BY <1>0, <2>1, <3>1 DEF Skip, ReadsOrdered, TypeOK, Handlings, SyncStates
    <3>2. CASE a # b BY <2>1, <3>2 DEF Skip, ReadsOrdered, TypeOK
    <3> QED BY <3>1, <3>2
  <2>2. ASSUME NEW c \in observed[a], Begin(a, c) PROVE Goal
    BY <1>0, <2>2 DEF Begin, ReadsOrdered, TypeOK
  <2>3. ASSUME NEW resend \in BOOLEAN, Enqueue(a, resend) PROVE Goal
    BY <2>3 DEF Enqueue, ReadsOrdered, TypeOK
  <2>4. CASE UNCHANGED <<sync, handling, drain>> BY <1>1, <2>4
  <2> QED BY <1>3, <2>1, <2>2, <2>3, <2>4 DEF CaptureStep, Ask, Observe
<1>4. ASSUME NEW a \in Browsers, DeliveryStep(a) \/ Kill(a) PROVE Goal
  <2>0. Idle.pc = "idle" BY DEF Idle
  <2>1. CASE LoadSync(a) BY <1>0, <2>1 DEF LoadSync, ReadsOrdered, TypeOK, Drains
  <2>2. CASE SaveSync(a)
    <3>1. sync'[b].last >= sync[b].last BY <2>2, SaveAdvances
    <3>2. sync'[b].last \in Nat
      <4>1. CASE sync'[b] = sync[b] BY <1>0, <4>1
      <4>2. CASE sync'[b] # sync[b]
        <5>1. drain[b].pc = "saving" /\ sync'[b] = Advanced(drain[b].loaded, Head(outbox[b]))
          BY <2>2, <4>2 DEF SaveSync, TypeOK
        <5>2. Head(outbox[b]) \in Captures BY <5>1 DEF TypeOK
        <5> QED BY <5>1, <5>2 DEF Advanced, Captures
      <4> QED BY <4>1, <4>2
    <3>3. handling' = handling BY <2>2 DEF SaveSync
    <3>4. handling[b] # None => handling[b].state.last \in Nat
      BY DEF TypeOK, Handlings, SyncStates
    <3>5. CASE a = b BY <1>0, <2>0, <2>2, <3>1, <3>2, <3>3, <3>4, <3>5
      DEF SaveSync, ReadsOrdered, TypeOK
    <3>6. CASE a # b BY <2>2, <3>3, <3>6 DEF SaveSync, ReadsOrdered, TypeOK
    <3> QED BY <3>5, <3>6
  <2>3. CASE Send(a)
    BY <2>3 DEF Send, Idle, ReadsOrdered, TypeOK
  <2>4. CASE Timeout(a) \/ Remove(a)
    BY <2>0, <2>4 DEF Timeout, Remove, ReadsOrdered, TypeOK
  <2>5. CASE Kill(a) BY <2>0, <2>5 DEF Kill, ReadsOrdered, TypeOK
  <2> QED BY <1>4, <2>1, <2>2, <2>3, <2>4, <2>5 DEF DeliveryStep
<1>5. CASE ProviderStep
  BY <1>1, <1>5 DEF ProviderStep, Write, Switch, Show, browsers
<1>6. CASE \E part \in SUBSET Messages : Import(part) BY <1>1, <1>6 DEF Import, browsers
<1>7. CASE BackendStep
  <2>1. UNCHANGED <<sync, handling>> /\ (drain'[b] = drain[b] \/ drain'[b].pc # "saving")
    BY <1>7 DEF BackendStep, Receive, Ingested, Failed, Respond, Drains, browsers, TypeOK
  <2> QED BY <1>1, <1>2, <2>1
<1>8. CASE UNCHANGED vars BY <1>1, <1>8 DEF vars
<1> QED BY <1>3, <1>4, <1>5, <1>6, <1>7, <1>8 DEF Next

\* Late, repeated and lost receipts never rewind the sync state of a browser, even beside
\* skipped captures that do.
THEOREM SyncAdvances == Spec => NeverRewound
<1>1. Init => ReadsOrdered BY DEF Init, Idle, ReadsOrdered
<1>2. TypeOK /\ ReadsOrdered /\ [Next]_vars =>
        [skips' = skips => \A b \in Browsers : sync'[b].last >= sync[b].last]_vars
  <2> SUFFICES ASSUME TypeOK, ReadsOrdered, [Next]_vars, skips' = skips, NEW b \in Browsers
               PROVE  sync'[b].last >= sync[b].last
    OBVIOUS
  <2>1. CASE UNCHANGED sync BY <2>1 DEF TypeOK, SyncStates
  <2>2. ASSUME NEW a \in Browsers, Skip(a) PROVE FALSE
    BY <2>2 DEF Skip, TypeOK
  <2>3. ASSUME NEW a \in Browsers, CaptureStep(a) \/ DeliveryStep(a) \/ Kill(a)
        PROVE  sync'[b].last >= sync[b].last
    BY <2>1, <2>2, <2>3, SaveAdvances DEF CaptureStep, Ask, Observe, Begin, Enqueue,
                                          DeliveryStep, Send, Timeout, LoadSync, Remove, Kill
  <2>4. CASE ProviderStep \/ BackendStep
    BY <2>1, <2>4 DEF ProviderStep, Write, Switch, Show, BackendStep, Receive, Ingested, Failed,
                      browsers
  <2>5. CASE \E part \in SUBSET Messages : Import(part) BY <2>1, <2>5 DEF Import, browsers
  <2>6. CASE UNCHANGED vars BY <2>1, <2>6 DEF vars
  <2> QED BY <2>3, <2>4, <2>5, <2>6 DEF Next
<1>3. Spec => []ReadsOrdered
  BY <1>1, ReadsStep, TranscriptTypeCorrect, PTL DEF Spec
<1> QED BY <1>2, <1>3, TranscriptTypeCorrect, PTL DEF Spec, NeverRewound

------------------------------------------------------------------------------
(* The invariant behind SeenByLive, where one browser makes live captures and skips   *)
(* none: an edit that the backend passes over is one that the browser holds for late. *)

OneBrowser == \A a, b \in Browsers : a = b

Live(c) == c.kind = "live" /\ c.dated = TRUE

Settled(c) == \A m \in Messages : c.text[m] <= transcript[m]

\* No two captures of a browser are of one time.
Distinct(b) ==
  /\ \A n, k \in 1..Len(outbox[b]) : outbox[b][n].at = outbox[b][k].at => n = k
  /\ \A c, d \in observed[b] : c.at = d.at => c = d
  /\ \A c \in observed[b] : \A n \in 1..Len(outbox[b]) : c.at # outbox[b][n].at
  /\ handling[b] # None =>
       /\ \A c \in observed[b] : c.at # handling[b].capture.at
       /\ \A n \in 1..Len(outbox[b]) : outbox[b][n].at # handling[b].capture.at
  /\ \A ask \in asked : ask.by = b =>
       /\ \A c \in observed[b] : c.at # ask.at
       /\ handling[b] # None => handling[b].capture.at # ask.at
       /\ \A n \in 1..Len(outbox[b]) : outbox[b][n].at # ask.at

\* Of what a browser holds only the head of its outbox can have made the watermark.
Unserved(b) ==
  /\ \A ask \in asked : ask.by = b => ask.at # watermark
  /\ \A c \in observed[b] : c.at # watermark
  /\ handling[b] # None => handling[b].capture.at # watermark
  /\ \A n \in 1..Len(outbox[b]) :
       outbox[b][n].at = watermark => n = 1 /\ ~outbox[b][n].suspect /\ Settled(outbox[b][n])

\* The watermark is the sync state's, but for the head of the outbox.
Level(b) ==
  /\ sync[b].last <= watermark
  /\ \/ watermark <= sync[b].last
     \/ outbox[b] # <<>> /\ ~outbox[b][1].suspect /\ watermark = outbox[b][1].at

\* A request repeats what has been served, or sends the head of the outbox.
Old(b, c) == c.suspect \/ c.at <= watermark \/ (outbox[b] # <<>> /\ c = outbox[b][1])
Sent(b) ==
  /\ \A request \in wire : Old(b, request.capture)
  /\ \A h \in serving : Old(b, h.request.capture)

\* A receipt says that the capture is stored, or that it comes late.
Drained(b) ==
  /\ drain[b].pc \in {"acked", "saving"} =>
       /\ ~outbox[b][1].suspect /\ outbox[b][1].at <= watermark
       /\ outbox[b][1].at < sync[b].last \/ Settled(outbox[b][1])
  /\ drain[b].pc = "saving" => drain[b].loaded = sync[b]
  /\ drain[b].pc = "saved" =>
       /\ outbox[b][1].suspect \/ outbox[b][1].at <= watermark
       /\ watermark <= sync[b].last
       /\ \A m \in Messages : sync[b].seen[m] <= transcript[m]

\* Only the head of the outbox can have taken a text back that the browser has seen.
SeenHeld(b) ==
  \A m \in Messages :
    \/ sync[b].seen[m] <= transcript[m]
    \/ outbox[b] # <<>> /\ outbox[b][1].at = watermark /\ outbox[b][1].text[m] # 0

ClientInv(b) == Distinct(b) /\ Unserved(b) /\ Level(b) /\ Sent(b) /\ Drained(b) /\ SeenHeld(b)

LEMMA ClientFields ==
  ASSUME TypeOK, NEW b \in Browsers
  PROVE  /\ observed[b] \subseteq Captures
         /\ handling[b] # None => handling[b].capture \in Captures /\ handling[b].state \in SyncStates
         /\ outbox[b] \in Seq(Captures)
         /\ outbox[b] # <<>> => /\ Len(outbox[b]) >= 1 /\ Head(outbox[b]) = outbox[b][1]
                                /\ outbox[b][1] \in Captures
         /\ sync[b] \in SyncStates /\ sync[b].last \in Nat
         /\ drain[b] \in Drains /\ (drain[b].pc # "idle" => outbox[b] # <<>>)
         /\ watermark \in Nat
  BY DEF TypeOK, IngestTypeOK, Handlings, SyncStates

LEMMA AppendAt ==
  ASSUME NEW s \in Seq(Captures), NEW c \in Captures
  PROVE  /\ Len(Append(s, c)) = Len(s) + 1 /\ Len(s) \in Nat
         /\ Append(s, c)[Len(s) + 1] = c
         /\ \A n \in 1..Len(s) : Append(s, c)[n] = s[n]
  OBVIOUS

\* A step that takes nothing from a browser but what it works on.
LEMMA ClientRests ==
  ASSUME TypeOK, NEW b \in Browsers, ClientInv(b), UNCHANGED <<transcript, watermark>>,
         sync'[b] = sync[b], outbox'[b] = outbox[b],
         observed'[b] \subseteq observed[b], asked' = asked,
         handling'[b] = handling[b] \/ handling'[b] = None,
         drain'[b] = drain[b] \/ drain'[b].pc \in {"idle", "waiting"}, Sent(b)'
  PROVE  ClientInv(b)'
<1>1. Distinct(b)'
  BY DEF ClientInv, Distinct
<1>2. Unserved(b)'
  BY DEF ClientInv, Unserved, Settled
<1>3. Level(b)' /\ SeenHeld(b)'
  BY DEF ClientInv, Level, SeenHeld
<1>4. Drained(b)'
  BY DEF ClientInv, Drained, Settled
<1> QED BY <1>1, <1>2, <1>3, <1>4 DEF ClientInv

\* All that a browser holds was asked for by now.
LEMMA HeldByNow ==
  ASSUME TypeOK, SyncInv, NEW b \in Browsers
  PROVE  /\ now \in Nat /\ watermark <= now
         /\ \A c \in observed[b] : c.at \in Nat /\ c.at <= now
         /\ handling[b] # None => handling[b].capture.at \in Nat /\ handling[b].capture.at <= now
         /\ \A n \in 1..Len(outbox[b]) : outbox[b][n].at \in Nat /\ outbox[b][n].at <= now
<1>1. watermark <= now
  BY DEF SyncInv, Watermarked
<1>2. ASSUME NEW d, Flies(d) PROVE d.at <= now
  BY <1>2, Flying DEF SyncInv, CapturesTrue, AsOfItsTime
<1> QED BY <1>1, <1>2, ClientFields, CaptureFields, StateFields DEF Flies

LEMMA ClientAsk ==
  ASSUME TypeOK, SyncInv, NEW b \in Browsers, ClientInv(b), Ask(b)
  PROVE  ClientInv(b)'
<1>1. /\ \A ask \in asked' : ask \in asked \/ ask.at = now + 1
      /\ UNCHANGED <<transcript, watermark, serving, observed, sync, handling, outbox, drain, wire>>
  BY DEF Ask, ingestVars
<1>2. /\ now + 1 # watermark /\ \A d \in observed[b] : d.at # now + 1
      /\ handling[b] # None => handling[b].capture.at # now + 1
      /\ \A n \in 1..Len(outbox[b]) : outbox[b][n].at # now + 1
  BY HeldByNow, StateFields
<1>3. Distinct(b)'
  BY <1>1, <1>2 DEF ClientInv, Distinct
<1>4. Unserved(b)'
  BY <1>1, <1>2 DEF ClientInv, Unserved, Settled
<1>5. Level(b)' /\ Sent(b)' /\ Drained(b)' /\ SeenHeld(b)'
  BY <1>1 DEF ClientInv, Level, Sent, Old, Drained, Settled, SeenHeld
<1> QED BY <1>3, <1>4, <1>5 DEF ClientInv

LEMMA ClientObserve ==
  ASSUME TypeOK, NEW b \in Browsers, ClientInv(b), NEW ask \in asked, NEW kind \in Modes,
         NEW part \in SUBSET Messages, NEW suspect \in BOOLEAN,
         Observe(b, ask, kind, part, suspect)
  PROVE  ClientInv(b)'
<1>1. PICK c : c = [kind |-> kind, dated |-> TRUE, at |-> ask.at, text |-> Seen(part),
                    suspect |-> suspect]
  OBVIOUS
<1>2. /\ observed'[b] = observed[b] \cup {c} /\ c.at = ask.at /\ ask.by = b
      /\ asked' = asked \ {ask}
      /\ UNCHANGED <<transcript, watermark, serving, sync, handling, outbox, drain, wire>>
  BY <1>1 DEF Observe, ingestVars, TypeOK
<1>3. \A other \in asked : other.by = b /\ other.at = ask.at => other = ask
  <2>1. \A r \in Asks : r = [by |-> r.by, at |-> r.at] BY DEF Asks
  <2>2. asked \subseteq Asks BY DEF TypeOK
  <2>3. ask = [by |-> b, at |-> ask.at] BY <1>2, <2>1, <2>2
  <2> QED BY <2>1, <2>2, <2>3
<1>4. /\ c.at # watermark /\ \A d \in observed[b] : d.at # c.at
      /\ handling[b] # None => handling[b].capture.at # c.at
      /\ \A n \in 1..Len(outbox[b]) : outbox[b][n].at # c.at
  BY <1>2 DEF ClientInv, Distinct, Unserved
<1>5. \A other \in asked' : other.by = b => other.at # c.at
  BY <1>2, <1>3
<1>6. Distinct(b)'
  BY <1>2, <1>4, <1>5 DEF ClientInv, Distinct
<1>7. Unserved(b)'
  BY <1>2, <1>4 DEF ClientInv, Unserved, Settled
<1>8. Level(b)' /\ Sent(b)' /\ Drained(b)' /\ SeenHeld(b)'
  BY <1>2 DEF ClientInv, Level, Sent, Old, Drained, Settled, SeenHeld
<1> QED BY <1>6, <1>7, <1>8 DEF ClientInv

LEMMA ClientBegin ==
  ASSUME TypeOK, NEW b \in Browsers, ClientInv(b), NEW c \in observed[b], Begin(b, c)
  PROVE  ClientInv(b)'
<1>1. /\ observed'[b] = observed[b] \ {c} /\ handling'[b].capture = c /\ handling[b] = None
      /\ UNCHANGED <<transcript, watermark, serving, asked, sync, outbox, drain, wire>>
  BY DEF Begin, ingestVars, TypeOK
<1>2. Distinct(b)'
  BY <1>1 DEF ClientInv, Distinct
<1>3. Unserved(b)'
  BY <1>1 DEF ClientInv, Unserved, Settled
<1>4. Level(b)' /\ Sent(b)' /\ Drained(b)' /\ SeenHeld(b)'
  BY <1>1 DEF ClientInv, Level, Sent, Old, Drained, Settled, SeenHeld
<1> QED BY <1>2, <1>3, <1>4 DEF ClientInv

LEMMA ClientEnqueue ==
  ASSUME TypeOK, NEW b \in Browsers, ClientInv(b), NEW resend \in BOOLEAN, Enqueue(b, resend)
  PROVE  ClientInv(b)'
<1>1. PICK d : d = Payload(handling[b].capture, handling[b].state.seen, resend)
  OBVIOUS
<1>2. /\ handling[b] # None /\ handling'[b] = None
      /\ UNCHANGED <<transcript, watermark, serving, asked, observed, sync, drain, wire>>
      /\ outbox'[b] = outbox[b] \/ outbox'[b] = Append(outbox[b], d)
  BY <1>1 DEF Enqueue, ingestVars, TypeOK
<1>3. d \in Captures /\ d.at = handling[b].capture.at
  <2>1. handling[b].capture \in Captures /\ handling[b].state.seen \in [Messages -> Nat]
    BY <1>2, ClientFields DEF SyncStates
  <2> QED BY <1>1, <2>1, PayloadType
<1>4. CASE outbox'[b] = outbox[b]
  <2>1. Sent(b)'
    BY <1>2, <1>4 DEF ClientInv, Sent, Old
  <2> QED BY <1>2, <1>4, <2>1, ClientRests
<1>5. CASE outbox'[b] = Append(outbox[b], d)
  <2>1. /\ Len(outbox'[b]) = Len(outbox[b]) + 1 /\ outbox'[b][Len(outbox[b]) + 1] = d
        /\ \A n \in 1..Len(outbox[b]) : outbox'[b][n] = outbox[b][n]
        /\ Len(outbox[b]) \in Nat /\ outbox'[b] # <<>>
    BY <1>3, <1>5, ClientFields, AppendAt, AppendType
  <2>2. outbox[b] # <<>> => outbox'[b][1] = outbox[b][1]
    BY <2>1, ClientFields
  <2>3. /\ d.at # watermark /\ \A c \in observed[b] : c.at # d.at
        /\ \A n \in 1..Len(outbox[b]) : outbox[b][n].at # d.at
        /\ \A ask \in asked : ask.by = b => ask.at # d.at
    BY <1>2, <1>3 DEF ClientInv, Distinct, Unserved
  <2>4. Distinct(b)'
    <3>1. ASSUME NEW n \in 1..Len(outbox'[b]), NEW k \in 1..Len(outbox'[b]),
                 outbox'[b][n].at = outbox'[b][k].at
          PROVE  n = k
      <4>a. n \in 1..Len(outbox[b]) \cup {Len(outbox[b]) + 1} /\ k \in 1..Len(outbox[b]) \cup {Len(outbox[b]) + 1}
        BY <2>1
      <4>b. \A i \in 1..Len(outbox[b]) : outbox'[b][i].at # d.at
        BY <2>1, <2>3
      <4>1. CASE n \in 1..Len(outbox[b]) /\ k \in 1..Len(outbox[b])
        BY <2>1, <3>1, <4>1 DEF ClientInv, Distinct
      <4>2. CASE n = Len(outbox[b]) + 1
        BY <2>1, <3>1, <4>a, <4>b, <4>2
      <4>3. CASE k = Len(outbox[b]) + 1
        BY <2>1, <3>1, <4>a, <4>b, <4>3
      <4> QED BY <4>a, <4>1, <4>2, <4>3
    <3>2. ASSUME NEW c \in observed[b], NEW n \in 1..Len(outbox'[b]) PROVE c.at # outbox'[b][n].at
      <4>1. CASE n <= Len(outbox[b])
        BY <2>1, <3>2, <4>1 DEF ClientInv, Distinct
      <4>2. CASE n = Len(outbox[b]) + 1
        BY <2>1, <2>3, <3>2, <4>2
      <4> QED BY <2>1, <4>1, <4>2
    <3>3. ASSUME NEW ask \in asked, ask.by = b, NEW n \in 1..Len(outbox'[b])
          PROVE  outbox'[b][n].at # ask.at
      <4>1. CASE n <= Len(outbox[b])
        BY <2>1, <3>3, <4>1 DEF ClientInv, Distinct
      <4>2. CASE n = Len(outbox[b]) + 1
        BY <2>1, <2>3, <3>3, <4>2
      <4> QED BY <2>1, <4>1, <4>2
    <3> QED BY <1>2, <3>1, <3>2, <3>3 DEF ClientInv, Distinct
  <2>5. Unserved(b)'
    <3>1. ASSUME NEW n \in 1..Len(outbox'[b]), outbox'[b][n].at = watermark
          PROVE  n = 1 /\ ~outbox'[b][n].suspect /\ Settled(outbox'[b][n])
      <4>1. n <= Len(outbox[b])
        BY <2>1, <2>3, <3>1
      <4> QED BY <2>1, <3>1, <4>1 DEF ClientInv, Unserved
    <3> QED BY <1>2, <3>1 DEF ClientInv, Unserved, Settled
  <2>6. Level(b)' /\ Sent(b)' /\ SeenHeld(b)'
    BY <1>2, <2>1, <2>2 DEF ClientInv, Level, Sent, Old, SeenHeld
  <2>7. Drained(b)'
    <3>1. drain[b].pc # "idle" => outbox'[b][1] = outbox[b][1]
      BY <2>2, ClientFields
    <3> QED BY <1>2, <3>1 DEF ClientInv, Drained, Settled
  <2> QED BY <2>4, <2>5, <2>6, <2>7 DEF ClientInv
<1> QED BY <1>2, <1>4, <1>5

LEMMA ClientSend ==
  ASSUME TypeOK, NEW b \in Browsers, ClientInv(b), Send(b)
  PROVE  ClientInv(b)'
<1>1. /\ outbox[b] # <<>> /\ UNCHANGED <<transcript, watermark, serving, asked, observed, handling, sync, outbox>>
      /\ drain'[b].pc = "waiting"
      /\ \A request \in wire' : request \in wire \/ request.capture = Head(outbox[b])
  BY DEF Send, ingestVars, TypeOK, Idle
<1>2. Sent(b)'
  BY <1>1, ClientFields DEF ClientInv, Sent, Old
<1> QED BY <1>1, <1>2, ClientRests

LEMMA ClientLeaves ==
  ASSUME TypeOK, NEW b \in Browsers, ClientInv(b), Timeout(b) \/ Kill(b)
  PROVE  ClientInv(b)'
<1>1. /\ UNCHANGED <<transcript, watermark, serving, asked, sync, outbox, wire>> /\ drain'[b].pc = "idle"
      /\ observed'[b] \subseteq observed[b] /\ (handling'[b] = handling[b] \/ handling'[b] = None)
  BY DEF Timeout, Kill, ingestVars, TypeOK, Idle
<1>2. Sent(b)'
  BY <1>1 DEF ClientInv, Sent, Old
<1> QED BY <1>1, <1>2, ClientRests

LEMMA ClientLoads ==
  ASSUME TypeOK, NEW b \in Browsers, ClientInv(b), LoadSync(b)
  PROVE  ClientInv(b)'
<1>1. /\ UNCHANGED <<transcript, watermark, serving, asked, observed, handling, sync, outbox, wire>>
      /\ drain[b].pc = "acked" /\ drain'[b].pc = "saving" /\ drain'[b].loaded = sync[b]
  BY DEF LoadSync, ingestVars, TypeOK, Drains
<1>2. Drained(b)'
  BY <1>1 DEF ClientInv, Drained, Settled
<1> QED BY <1>1, <1>2 DEF ClientInv, Distinct, Unserved, Settled, Level, Sent, Old, SeenHeld

LEMMA ClientSaves ==
  ASSUME TypeOK, NEW b \in Browsers, ClientInv(b), SaveSync(b)
  PROVE  ClientInv(b)'
<1>1. PICK c : c = Head(outbox[b])
  OBVIOUS
<1>2. /\ UNCHANGED <<transcript, watermark, serving, asked, observed, handling, outbox, wire>>
      /\ drain[b].pc = "saving" /\ drain'[b].pc = "saved"
      /\ sync'[b] = (IF MayAdvance(drain[b].loaded, c) THEN Advanced(drain[b].loaded, c) ELSE sync[b])
  BY <1>1 DEF SaveSync, ingestVars, TypeOK, Idle
<1>3. /\ c = outbox[b][1] /\ c \in Captures /\ outbox[b] # <<>> /\ c.at \in Nat
      /\ sync[b].last \in Nat /\ watermark \in Nat
  BY <1>1, <1>2, ClientFields, CaptureFields
<1>4. /\ drain[b].loaded = sync[b] /\ ~c.suspect /\ c.at <= watermark
      /\ c.at < sync[b].last \/ Settled(c)
  BY <1>2, <1>3 DEF ClientInv, Drained
<1>a. sync[b].last <= watermark /\ (watermark <= sync[b].last \/ watermark = c.at)
  BY <1>3 DEF ClientInv, Level
<1>5. CASE MayAdvance(sync[b], c)
  <2>1. sync'[b].last = c.at /\ c.at >= sync[b].last
    BY <1>2, <1>4, <1>5 DEF MayAdvance, Advanced
  <2>2. Settled(c)
    BY <1>3, <1>4, <2>1
  <2>3. watermark <= sync'[b].last
    BY <1>3, <1>a, <2>1
  <2>4. \A m \in Messages : sync'[b].seen[m] <= transcript[m]
    <3>1. ASSUME NEW m \in Messages PROVE sync'[b].seen[m] <= transcript[m]
      <4>1. sync'[b].seen[m] = IF c.text[m] # 0 THEN c.text[m] ELSE sync[b].seen[m]
        BY <1>2, <1>4, <1>5 DEF Advanced
      <4> QED BY <1>3, <2>2, <4>1 DEF Settled, ClientInv, SeenHeld
    <3> QED BY <1>2, <3>1
  <2>5. Level(b)' /\ Drained(b)' /\ SeenHeld(b)'
    BY <1>2, <1>3, <1>4, <2>1, <2>3, <2>4 DEF Level, Drained, SeenHeld
  <2> QED BY <1>2, <2>5 DEF ClientInv, Distinct, Unserved, Settled, Sent, Old
<1>6. CASE ~MayAdvance(sync[b], c)
  <2>1. sync'[b] = sync[b] /\ c.at < sync[b].last
    BY <1>2, <1>3, <1>4, <1>6 DEF MayAdvance
  <2>2. watermark <= sync[b].last /\ c.at # watermark
    BY <1>3, <1>a, <2>1
  <2>3. \A m \in Messages : sync[b].seen[m] <= transcript[m]
    BY <1>3, <2>2 DEF ClientInv, SeenHeld
  <2>4. Level(b)' /\ Drained(b)' /\ SeenHeld(b)'
    BY <1>2, <1>3, <1>4, <1>a, <2>1, <2>2, <2>3 DEF Level, Drained, SeenHeld
  <2> QED BY <1>2, <2>4 DEF ClientInv, Distinct, Unserved, Settled, Sent, Old
<1> QED BY <1>5, <1>6

LEMMA ClientRemoves ==
  ASSUME TypeOK, NEW b \in Browsers, ClientInv(b), Remove(b)
  PROVE  ClientInv(b)'
<1>1. /\ UNCHANGED <<transcript, watermark, serving, asked, observed, handling, sync, wire>>
      /\ drain[b].pc = "saved" /\ drain'[b].pc = "idle" /\ outbox'[b] = Tail(outbox[b])
  BY DEF Remove, ingestVars, TypeOK, Idle
<1>2. /\ outbox[b] # <<>> /\ Len(outbox[b]) \in Nat
      /\ \A n \in 1..Len(outbox'[b]) : n + 1 \in 1..Len(outbox[b]) /\ outbox'[b][n] = outbox[b][n + 1]
      /\ Len(outbox'[b]) \in Nat
  BY <1>1, ClientFields
<1>3. outbox[b][1].suspect \/ outbox[b][1].at <= watermark
  BY <1>1 DEF ClientInv, Drained
<1>4. Distinct(b)'
  <2>1. ASSUME NEW n \in 1..Len(outbox'[b]), NEW k \in 1..Len(outbox'[b]),
               outbox'[b][n].at = outbox'[b][k].at
        PROVE  n = k
    <3>1. PICK i \in 1..Len(outbox[b]) : i = n + 1 /\ outbox'[b][n] = outbox[b][i]
      BY <1>2
    <3>2. PICK j \in 1..Len(outbox[b]) : j = k + 1 /\ outbox'[b][k] = outbox[b][j]
      BY <1>2
    <3>3. i = j
      BY <2>1, <3>1, <3>2 DEF ClientInv, Distinct
    <3> QED BY <3>1, <3>2, <3>3
  <2>2. ASSUME NEW ask \in asked, ask.by = b, NEW n \in 1..Len(outbox'[b])
        PROVE  outbox'[b][n].at # ask.at
    BY <1>2, <2>2 DEF ClientInv, Distinct
  <2> QED BY <1>1, <1>2, <2>1, <2>2 DEF ClientInv, Distinct
<1>5. Unserved(b)'
  <2>1. ASSUME NEW n \in 1..Len(outbox'[b]) PROVE outbox'[b][n].at # watermark
    <3>1. n + 1 # 1
      BY <1>2
    <3> QED BY <1>2, <3>1 DEF ClientInv, Unserved
  <2> QED BY <1>1, <2>1 DEF ClientInv, Unserved, Settled
<1>6. Level(b)' /\ Drained(b)' /\ SeenHeld(b)'
  BY <1>1 DEF ClientInv, Level, Drained, SeenHeld
<1>7. Sent(b)'
  BY <1>1, <1>3 DEF ClientInv, Sent, Old
<1> QED BY <1>4, <1>5, <1>6, <1>7 DEF ClientInv

\* The backend answers: a receipt comes to a drain that waits for it.
LEMMA Responses ==
  ASSUME TypeOK, NEW b \in Browsers, NEW request, NEW pc, Respond(request, pc)
  PROVE  \/ drain'[b] = drain[b]
         \/ drain[b].pc = "waiting" /\ drain'[b].pc = pc /\ request.capture = Head(outbox[b])
  BY DEF Respond, Awaits, TypeOK, Drains

LEMMA ClientReceive ==
  ASSUME TypeOK, NEW b \in Browsers, ClientInv(b), NEW request \in wire, Receive(request)
  PROVE  ClientInv(b)'
<1>1. /\ UNCHANGED <<transcript, watermark, asked, observed, handling, sync, outbox, drain>>
      /\ wire' \subseteq wire /\ \A h \in serving' : h \in serving \/ h.request = request
  BY DEF Receive, Serve, browsers
<1>2. Sent(b)'
  BY <1>1 DEF ClientInv, Sent, Old
<1> QED BY <1>1, <1>2, ClientRests

LEMMA ClientFailed ==
  ASSUME TypeOK, NEW b \in Browsers, ClientInv(b), NEW h \in serving, Failed(h)
  PROVE  ClientInv(b)'
<1>1. /\ UNCHANGED <<transcript, watermark, asked, observed, handling, sync, outbox, wire>>
      /\ serving' \subseteq serving /\ Respond(h.request, "idle")
  BY DEF Failed, Rollback
<1>2. Sent(b)'
  BY <1>1 DEF ClientInv, Sent, Old
<1>3. drain'[b] = drain[b] \/ drain'[b].pc = "idle"
  BY <1>1, Responses
<1> QED BY <1>1, <1>2, <1>3, ClientRests

\* A suspect capture is set aside; the browser goes on to the next.
LEMMA ClientQuarantined ==
  ASSUME TypeOK, NEW b \in Browsers, ClientInv(b), NEW h \in serving, Ingested(h), Quarantine(h)
  PROVE  ClientInv(b)'
<1>1. /\ UNCHANGED <<transcript, watermark, asked, observed, handling, sync, outbox, wire>>
      /\ serving' \subseteq serving /\ h.request.capture.suspect /\ Respond(h.request, "saved")
  BY DEF Ingested, Quarantine
<1>2. Sent(b)'
  BY <1>1 DEF ClientInv, Sent, Old
<1>3. CASE drain'[b] = drain[b]
  BY <1>1, <1>2, <1>3, ClientRests
<1>4. CASE drain[b].pc = "waiting" /\ drain'[b].pc = "saved" /\ h.request.capture = Head(outbox[b])
  <2>1. outbox[b] # <<>> /\ outbox[b][1].suspect
    BY <1>1, <1>4, ClientFields
  <2>2. watermark <= sync[b].last
    BY <2>1 DEF ClientInv, Level
  <2>a. outbox[b][1].at # watermark
    <3>1. 1 \in 1..Len(outbox[b]) BY <2>1, ClientFields
    <3> QED BY <2>1, <3>1 DEF ClientInv, Unserved
  <2>b. \A m \in Messages : sync[b].seen[m] <= transcript[m]
    BY <2>a DEF ClientInv, SeenHeld
  <2>3. Drained(b)'
    BY <1>1, <1>4, <2>1, <2>2, <2>b DEF Drained
  <2> QED BY <1>1, <1>2, <2>3 DEF ClientInv, Distinct, Unserved, Settled, Level, SeenHeld
<1> QED BY <1>1, <1>3, <1>4, Responses

\* A live capture that is accepted: a newer one is stored, and no other one takes text back.
LEMMA LiveAccepted ==
  ASSUME TypeOK, SyncInv, NEW h \in serving, Accept(h, now), Live(h.request.capture)
  PROVE  LET c == h.request.capture IN
         /\ c \in Captures /\ transcript' \in [Messages -> Nat]
         /\ watermark' = IF c.at > watermark THEN c.at ELSE watermark
         /\ c.at <= watermark => \A m \in Messages : transcript[m] <= transcript'[m]
         /\ c.at > watermark => \A m \in Messages :
              c.text[m] <= transcript'[m] /\ (c.text[m] = 0 => transcript'[m] = transcript[m])
<1>1. PICK c : c = h.request.capture
  OBVIOUS
<1>2. /\ c \in Captures /\ c \in InFlight /\ c.at \in Nat /\ watermark \in Nat
      /\ h.transcript = transcript /\ h.watermark = watermark
      /\ \A m \in Messages : c.text[m] \in Nat /\ transcript[m] \in Nat
  <2>1. c \in InFlight
    BY <1>1, Flying DEF Flies
  <2>2. c \in Captures
    BY <2>1 DEF InFlight
  <2> QED BY <2>1, <2>2, CaptureFields, StateFields DEF SyncInv, RowsCurrent
<1>3. ~Stale(h) /\ ~DeletesMissing(h) /\ (Newer(h) <=> c.at > watermark)
  BY <1>1, <1>2 DEF Stale, DeletesMissing, Newer, Live
<1>4. watermark' = IF c.at > watermark THEN c.at ELSE watermark
  <2>1. Marked(h, now) = IF watermark >= c.at THEN watermark ELSE c.at
    BY <1>1, <1>2, <1>3 DEF Marked, Later, Live
  <2> QED BY <1>2, <2>1 DEF Accept
<1>5. ASSUME NEW m \in Messages
      PROVE  transcript'[m] = IF c.text[m] # 0 /\ (transcript[m] = 0 \/ c.at > watermark)
                              THEN c.text[m] ELSE transcript[m]
  <2>1. Merged(h)[m] = IF c.text[m] # 0 /\ (transcript[m] = 0 \/ c.at > watermark)
                       THEN c.text[m] ELSE transcript[m]
    BY <1>1, <1>2, <1>3 DEF Merged
  <2>2. transcript'[m] = IF Merged(h)[m] # transcript[m] THEN Merged(h)[m] ELSE transcript[m]
    BY <1>2 DEF Accept
  <2> QED BY <2>1, <2>2
<1>6. transcript' \in [Messages -> Nat]
  BY <1>2, <1>5 DEF Accept
<1>7. c.at <= watermark => \A m \in Messages : transcript[m] <= transcript'[m]
  BY <1>2, <1>5
<1>8. c.at > watermark => \A m \in Messages :
        c.text[m] <= transcript'[m] /\ (c.text[m] = 0 => transcript'[m] = transcript[m])
  BY <1>2, <1>5
<1> QED BY <1>1, <1>2, <1>4, <1>6, <1>7, <1>8

\* A capture that is accepted is the head of the outbox, or has been served before.
LEMMA ClientAccepted ==
  ASSUME TypeOK, SyncInv, NEW b \in Browsers, ClientInv(b), NEW h \in serving, Ingested(h),
         Accept(h, now), Live(h.request.capture)
  PROVE  ClientInv(b)'
<1>1. PICK c : c = h.request.capture
  OBVIOUS
<1>2. /\ UNCHANGED <<asked, observed, handling, sync, outbox, wire>> /\ serving' \subseteq serving
      /\ ~c.suspect /\ Respond(h.request, "acked")
  BY <1>1 DEF Ingested, Accept
<1>3. /\ c \in Captures /\ c.at \in Nat /\ watermark \in Nat
      /\ transcript' \in [Messages -> Nat]
      /\ watermark' = IF c.at > watermark THEN c.at ELSE watermark
      /\ c.at <= watermark => \A m \in Messages : transcript[m] <= transcript'[m]
      /\ c.at > watermark => \A m \in Messages :
           c.text[m] <= transcript'[m] /\ (c.text[m] = 0 => transcript'[m] = transcript[m])
  BY <1>1, LiveAccepted, CaptureFields, StateFields
<1>4. c.at > watermark => outbox[b] # <<>> /\ c = outbox[b][1]
  BY <1>1, <1>2, <1>3 DEF ClientInv, Sent, Old
<1>5. watermark <= watermark' /\ c.at <= watermark' /\ watermark' \in Nat
  BY <1>3
<1>6. ASSUME NEW d \in Captures, Settled(d), c.at <= watermark PROVE Settled(d)'
  <2>1. ASSUME NEW m \in Messages PROVE d.text[m] <= transcript'[m]
    BY <1>3, <1>6, CaptureFields, StateFields DEF Settled
  <2> QED BY <2>1 DEF Settled
<1>7. Distinct(b)'
  BY <1>2 DEF ClientInv, Distinct
<1>8. outbox[b] # <<>> =>
        outbox[b][1] \in Captures /\ outbox[b][1].at \in Nat /\ 1 \in 1..Len(outbox[b])
  BY ClientFields, CaptureFields
<1>9. Unserved(b)'
  <2>1. CASE c.at > watermark
    <3>1. /\ \A d \in observed[b] : d.at # c.at
          /\ handling[b] # None => handling[b].capture.at # c.at
          /\ \A n \in 1..Len(outbox[b]) : outbox[b][n].at = c.at => n = 1
          /\ \A ask \in asked : ask.by = b => ask.at # c.at
      BY <1>4, <1>8, <2>1 DEF ClientInv, Distinct
    <3>2. Settled(c)'
      BY <1>3, <2>1 DEF Settled
    <3>3. watermark' = c.at /\ outbox[b][1] = c
      BY <1>3, <1>4, <2>1
    <3> QED BY <1>2, <3>1, <3>2, <3>3 DEF Unserved, Settled
  <2>2. CASE ~(c.at > watermark)
    <3>1. watermark' = watermark /\ c.at <= watermark
      BY <1>3, <2>2
    <3>2. \A n \in 1..Len(outbox[b]) : outbox[b][n] \in Captures
      BY ClientFields
    <3> QED BY <1>2, <1>6, <3>1, <3>2 DEF ClientInv, Unserved
  <2> QED BY <2>1, <2>2
<1>10. Level(b)'
  <2>1. sync[b].last \in Nat BY ClientFields
  <2> QED BY <1>2, <1>3, <1>4, <1>5, <2>1 DEF ClientInv, Level
<1>11. Sent(b)'
  <2>1. ASSUME NEW d \in Captures, Old(b, d) PROVE Old(b, d)'
    BY <1>2, <1>3, <1>5, <2>1, CaptureFields DEF Old
  <2>2. /\ \A request \in wire : request.capture \in Captures
        /\ \A g \in serving : g.request.capture \in Captures
    BY DEF TypeOK, IngestTypeOK, Requests, Handlers
  <2> QED BY <1>2, <2>1, <2>2 DEF ClientInv, Sent
<1>12. SeenHeld(b)'
  <2>1. \A m \in Messages : sync[b].seen[m] \in Nat
    BY ClientFields DEF SyncStates
  <2>2. CASE c.at > watermark
    <3>1. outbox[b] # <<>> /\ c = outbox[b][1] /\ watermark' = c.at /\ c.at # watermark
      BY <1>3, <1>4, <2>2
    <3>2. ASSUME NEW m \in Messages, c.text[m] = 0 PROVE sync[b].seen[m] <= transcript'[m]
      BY <1>3, <2>2, <3>1, <3>2 DEF ClientInv, SeenHeld
    <3> QED BY <1>2, <3>1, <3>2 DEF SeenHeld
  <2>3. CASE c.at <= watermark
    <3>1. watermark' = watermark BY <1>3, <2>3
    <3>2. ASSUME NEW m \in Messages, sync[b].seen[m] <= transcript[m]
          PROVE  sync[b].seen[m] <= transcript'[m]
      BY <1>3, <2>1, <2>3, <3>2, StateFields
    <3> QED BY <1>2, <3>1, <3>2 DEF ClientInv, SeenHeld
  <2> QED BY <1>3, <2>2, <2>3
<1>13. Drained(b)'
  <2>1. CASE drain'[b] = drain[b]
    <3>1. ASSUME drain[b].pc \in {"acked", "saving", "saved"}
          PROVE  outbox[b] # <<>> /\ c.at <= watermark /\ watermark' = watermark
      <4>1. outbox[b] # <<>> BY <3>1, ClientFields
      <4>2. outbox[b][1].suspect \/ outbox[b][1].at <= watermark
        BY <3>1 DEF ClientInv, Drained
      <4>3. c.at <= watermark BY <1>2, <1>3, <1>4, <1>8, <4>1, <4>2
      <4> QED BY <1>3, <4>1, <4>3
    <3>2. CASE drain[b].pc \in {"acked", "saving"}
      <4>1. Settled(outbox[b][1]) => Settled(outbox[b][1])' BY <1>2, <1>6, <1>8, <3>1, <3>2
      <4> QED BY <1>2, <2>1, <3>1, <3>2, <4>1 DEF ClientInv, Drained
    <3>3. CASE drain[b].pc = "saved"
      <4>1. \A m \in Messages : sync[b].seen[m] \in Nat
        BY ClientFields DEF SyncStates
      <4>2. \A m \in Messages : sync[b].seen[m] <= transcript'[m]
        BY <1>3, <3>1, <3>3, <4>1, StateFields DEF ClientInv, Drained
      <4> QED BY <1>2, <2>1, <3>1, <3>3, <4>2 DEF ClientInv, Drained
    <3>4. CASE drain[b].pc \notin {"acked", "saving", "saved"}
      BY <2>1, <3>4 DEF Drained
    <3> QED BY <3>2, <3>3, <3>4
  <2>2. CASE drain[b].pc = "waiting" /\ drain'[b].pc = "acked" /\ h.request.capture = Head(outbox[b])
    <3>1. outbox[b] # <<>> /\ c = outbox[b][1]
      BY <1>1, <2>2, ClientFields
    <3>2. c.at < sync[b].last \/ Settled(c)'
      <4>1. CASE c.at > watermark
        BY <1>3, <4>1 DEF Settled
      <4>2. CASE c.at = watermark
        BY <1>3, <1>6, <1>8, <3>1, <4>2 DEF ClientInv, Unserved
      <4>3. CASE c.at < watermark
        BY <1>3, <3>1, <4>3, ClientFields DEF ClientInv, Level
      <4> QED BY <1>3, <4>1, <4>2, <4>3
    <3> QED BY <1>2, <1>5, <2>2, <3>1, <3>2 DEF Drained
  <2> QED BY <1>2, <2>1, <2>2, Responses
<1> QED BY <1>7, <1>9, <1>10, <1>11, <1>12, <1>13 DEF ClientInv

------------------------------------------------------------------------------
(* Every capture in flight is live, and every step keeps the invariant. *)

LiveFlight == \A c \in InFlight : Live(c)

LEMMA FlightKeeps == LiveFlight /\ Carried => LiveFlight'
  BY DEF LiveFlight, Carried, Part, Live

LEMMA ObserveFlies ==
  ASSUME TypeOK, OnlyLive', LiveFlight, NEW b \in Browsers, NEW ask \in asked, NEW kind \in Modes,
         NEW part \in SUBSET Messages, NEW suspect \in BOOLEAN,
         Observe(b, ask, kind, part, suspect)
  PROVE  LiveFlight'
<1>1. PICK c : c = [kind |-> kind, dated |-> TRUE, at |-> ask.at, text |-> Seen(part),
                    suspect |-> suspect]
  OBVIOUS
<1>2. UNCHANGED <<handling, outbox, wire, serving>>
      /\ c \in observed'[b] /\ \A a \in Browsers : observed'[a] \subseteq observed[a] \cup {c}
  BY <1>1 DEF Observe, ingestVars, TypeOK
<1>3. InFlight' \subseteq InFlight \cup {c}
  BY <1>2 DEF InFlight, Flies
<1>4. c.kind = "live"
  BY <1>2 DEF OnlyLive
<1>5. Live(c)
  BY <1>1, <1>4 DEF Live
<1> QED BY <1>3, <1>5 DEF LiveFlight

LiveInv == LiveFlight /\ \A b \in Browsers : ClientInv(b)

LEMMA LiveStart == Init => LiveInv
<1> SUFFICES ASSUME Init PROVE LiveInv
  OBVIOUS
<1>1. /\ watermark = 0 /\ wire = {} /\ asked = {} /\ serving = {} /\ \A m \in Messages : transcript[m] = 0
  BY DEF Init, IngestInit
<1>2. ASSUME NEW b \in Browsers
      PROVE  /\ observed[b] = {} /\ handling[b] = None /\ outbox[b] = <<>> /\ Len(outbox[b]) = 0
             /\ drain[b].pc = "idle" /\ sync[b].last = 0 /\ \A m \in Messages : sync[b].seen[m] = 0
  BY <1>2 DEF Init, Idle, NoSync
<1>3. InFlight = {}
  BY <1>1, <1>2 DEF InFlight, Flies
<1>4. ASSUME NEW b \in Browsers PROVE ClientInv(b)
  BY <1>1, <1>2 DEF ClientInv, Distinct, Unserved, Level, Sent, Drained, SeenHeld
<1> QED BY <1>3, <1>4 DEF LiveInv, LiveFlight

LEMMA LiveStep ==
  ASSUME OneBrowser, TypeOK, SyncInv, LiveInv, (Next /\ OnlyLive') \/ UNCHANGED vars
  PROVE  LiveInv'
<1>1. ASSUME NEW a \in Browsers, CaptureStep(a), OnlyLive' PROVE LiveInv'
  <2>1. ASSUME NEW b \in Browsers PROVE b = a
    BY DEF OneBrowser
  <2>2. ASSUME NEW ask \in asked, NEW kind \in Modes, NEW part \in SUBSET Messages,
               NEW suspect \in BOOLEAN, Observe(a, ask, kind, part, suspect)
        PROVE  LiveInv'
    BY <1>1, <2>1, <2>2, ObserveFlies, ClientObserve DEF LiveInv
  <2>a. ASSUME Ask(a) PROVE LiveInv'
    <3>1. InFlight' = InFlight BY <2>a DEF Ask, ingestVars, InFlight, Flies
    <3> QED BY <2>1, <2>a, <3>1, ClientAsk DEF LiveInv, LiveFlight
  <2>3. ASSUME NEW c \in observed[a], Begin(a, c) PROVE LiveInv'
    <3>1. LiveFlight'
      BY <2>3, CaptureCarries, FlightKeeps DEF LiveInv
    <3> QED BY <2>1, <2>3, <3>1, ClientBegin DEF LiveInv
  <2>4. ASSUME NEW resend \in BOOLEAN, Enqueue(a, resend) PROVE LiveInv'
    <3>1. LiveFlight'
      BY <2>4, CaptureCarries, FlightKeeps DEF LiveInv
    <3> QED BY <2>1, <2>4, <3>1, ClientEnqueue DEF LiveInv
  <2>5. ~Skip(a)
    BY <1>1 DEF Skip, OnlyLive, TypeOK
  <2> QED BY <1>1, <2>2, <2>3, <2>4, <2>5, <2>a DEF CaptureStep
<1>2. ASSUME NEW a \in Browsers, DeliveryStep(a) \/ Kill(a) PROVE LiveInv'
  <2>1. ASSUME NEW b \in Browsers PROVE b = a
    BY DEF OneBrowser
  <2>2. LiveFlight'
    BY <1>2, DeliveryCarries, KillCarries, FlightKeeps DEF LiveInv
  <2>3. ClientInv(a)'
    BY <1>2, ClientSend, ClientLeaves, ClientLoads, ClientSaves, ClientRemoves
       DEF LiveInv, DeliveryStep
  <2> QED BY <2>1, <2>2, <2>3 DEF LiveInv
<1>3. CASE BackendStep
  <2>1. LiveFlight'
    BY <1>3, BackendCarries, FlightKeeps DEF LiveInv
  <2>2. ASSUME NEW b \in Browsers, NEW request \in wire, Receive(request) PROVE ClientInv(b)'
    BY <2>2, ClientReceive DEF LiveInv
  <2>3. ASSUME NEW b \in Browsers, NEW h \in serving, Failed(h) PROVE ClientInv(b)'
    BY <2>3, ClientFailed DEF LiveInv
  <2>4. ASSUME NEW b \in Browsers, NEW h \in serving, Ingested(h) PROVE ClientInv(b)'
    <3>1. Live(h.request.capture)
      BY Flying DEF LiveInv, LiveFlight, Flies
    <3>2. Quarantine(h) \/ Accept(h, now)
      BY <2>4 DEF Ingested, Commit
    <3> QED BY <2>4, <3>1, <3>2, ClientQuarantined, ClientAccepted DEF LiveInv
  <2> QED BY <1>3, <2>1, <2>2, <2>3, <2>4 DEF BackendStep, LiveInv
<1>4. CASE ProviderStep \/ UNCHANGED vars
  <2>1. /\ UNCHANGED <<transcript, watermark, serving, asked, observed, handling, sync, outbox,
                    drain, wire>>
    BY <1>4 DEF ProviderStep, Write, Switch, Show, browsers, ingestVars, vars
  <2>2. InFlight' = InFlight
    BY <2>1 DEF InFlight, Flies
  <2>3. LiveFlight'
    BY <2>2 DEF LiveInv, LiveFlight
  <2>4. ASSUME NEW b \in Browsers PROVE ClientInv(b)'
    <3>1. Sent(b)'
      BY <2>1 DEF LiveInv, ClientInv, Sent, Old
    <3> QED BY <2>1, <3>1, ClientRests DEF LiveInv
  <2> QED BY <2>3, <2>4 DEF LiveInv
<1>5. ASSUME NEW part \in SUBSET Messages, Import(part), OnlyLive' PROVE FALSE
  <2> DEFINE new == [kind |-> "partial", dated |-> FALSE, at |-> now + 1, text |-> Seen(part),
                     suspect |-> FALSE]
  <2>1. [attempt |-> 0, capture |-> new] \in wire' /\ new.kind = "partial"
    BY <1>5 DEF Import
  <2> QED BY <1>5, <2>1 DEF OnlyLive
<1> QED BY <1>1, <1>2, <1>3, <1>4, <1>5 DEF Next

LEMMA HeldIsStored == LiveInv => SeenIsStored
<1> SUFFICES ASSUME LiveInv, NEW b \in Browsers, NEW m \in Messages
             PROVE  \/ sync[b].seen[m] <= transcript[m]
                    \/ outbox[b] # <<>> /\ outbox[b][1].text[m] # 0
  BY DEF SeenIsStored
<1> QED BY DEF LiveInv, ClientInv, SeenHeld

\* What one browser with live captures has seen is stored, or is in the capture it delivers,
\* whatever is lost, repeated, late or interrupted: what the backend passes over is sent again. (With two browsers it is not;
\* extension: mayAdvanceSyncState, buildIngestPayload; services/ingest.py: _ingest_incremental)
THEOREM SeenStaysStored ==
  ASSUME OneBrowser
  PROVE  Transcripts => []SeenByLive
<1> DEFINE Inv == TypeOK /\ SyncInv /\ (instance = "live" => LiveInv)
<1>1. TranscriptsInit => Inv
  BY TypeInit, InvInit, LiveStart DEF TranscriptsInit
<1>2. Inv /\ [MixedNext \/ LiveNext]_<<vars, instance>> => Inv'
  <2> SUFFICES ASSUME Inv, [MixedNext \/ LiveNext]_<<vars, instance>> PROVE Inv'
    OBVIOUS
  <2>1. [Next]_vars
    BY DEF MixedNext, LiveNext
  <2>2. TypeOK' /\ SyncInv'
    BY <2>1, TypeStep, InvStep
  <2>3. ASSUME instance' = "live" PROVE LiveInv'
    <3>1. instance = "live" /\ ((Next /\ OnlyLive') \/ UNCHANGED vars)
      BY <2>3 DEF MixedNext, LiveNext
    <3> QED BY <3>1, LiveStep
  <2> QED BY <2>2, <2>3
<1>3. Inv => SeenByLive
  BY HeldIsStored DEF SeenByLive
<1> QED BY <1>1, <1>2, <1>3, PTL DEF Transcripts
===========================================================================
