---------------------------- MODULE SourceCapture ----------------------------
(***************************************************************************)
(* Saving a page or a selection.  The client chooses a key and repeats its *)
(* request until it is answered; the backend stores the source first and   *)
(* then, unless the workspace takes it from there, enriches it and writes  *)
(* its files.  Files are written at once and are not rolled back.          *)
(*                                                                         *)
(* Requests with one key queue up inside a server process.  Between the    *)
(* processes of an installation on postgres, the unique key and the lock   *)
(* of the row decide; on sqlite there is one process.  The lock does not   *)
(* bring the row up to date in the session that waited for it: a process   *)
(* that waited for another's enrichment enriches the source again.         *)
(***************************************************************************)
EXTENDS Naturals, FiniteSets

CONSTANTS
  Keys,
  Payloads,
  Requests,    \* bound: requests
  Processes,   \* server processes
  Enrichments, \* what the model may answer: a title, and the rest
  Sent,        \* the title as the client sent it
  Modes,       \* "workspace", "legacy"
  None

VARIABLES
  mode,
  row,       \* source_captures by key; a complete one has the path of its files
  file,      \* what the files of a source show, by the title that they are named after
  sources,   \* the sources the workspace was given
  request,   \* each request
  served,    \* history: the processes that received a key
  repeated   \* history: the keys whose complete source was taken up again

vars == <<mode, row, file, sources, request, served, repeated>>

Titles == {e.title : e \in Enrichments}
Rows == [payload : Payloads, title : Titles \cup {Sent},
         rest : {e.rest : e \in Enrichments} \cup {None}, path : Titles \cup {None}]
Idle == [pc |-> "idle"]
Pcs == {"find", "insert", "complete", "answer", "commit", "answered"}
Statuses == {"saved", "conflict", "retry"}

Running(r) == request[r] # Idle /\ request[r].pc # "answered"

\* Types, and a process serves one request with a key at a time.
TypeOK ==
  /\ mode \in Modes
  /\ row \in [Keys -> Rows \cup {None}]
  /\ file \in [Keys -> [Titles -> Enrichments \cup {None}]]
  /\ sources \subseteq Keys /\ repeated \subseteq Keys
  /\ served \in [Keys -> SUBSET Processes]
  /\ \A r \in Requests : request[r] # Idle =>
       /\ request[r].pc \in Pcs
       /\ request[r].key \in Keys /\ request[r].payload \in Payloads
       /\ request[r].process \in Processes
       /\ request[r].written \in Enrichments \cup {None}
       /\ request[r].result \in Statuses \cup {None}
  /\ \A q, r \in Requests :
       Running(q) /\ Running(r) /\ q # r /\ request[q].key = request[r].key =>
         request[q].process # request[r].process

Init ==
  /\ mode \in Modes
  /\ row = [k \in Keys |-> None]
  /\ file = [k \in Keys |-> [t \in Titles |-> None]]
  /\ sources = {} /\ repeated = {}
  /\ served = [k \in Keys |-> {}]
  /\ request = [r \in Requests |-> Idle]

------------------------------------------------------------------------------
\* Faulty: requests do not queue up.
Unordered(p, k) == {}
\* _CAPTURE_LOCKS.
Serving(p, k) == {r \in Requests : Running(r) /\ request[r].process = p /\ request[r].key = k}

\* Faulty: the row is read without a lock.
NoHolders(k) == {}
\* The requests that have locked the row of a key, FOR UPDATE.
Holders(k) == {r \in Requests : Running(r) /\ request[r].key = k
                                /\ request[r].pc \in {"answer", "commit"}}

Goto(r, pc) == request' = [request EXCEPT ![r].pc = pc]
Answer(r, status) ==
  request' = [request EXCEPT ![r].pc = "answered", ![r].result = status]

Receive(r, k, p, process) ==
  /\ request[r] = Idle
  /\ Serving(process, k) = {}
  /\ request' = [request EXCEPT ![r] =
       [pc |-> "find", key |-> k, payload |-> p, process |-> process,
        written |-> None, result |-> None]]
  /\ served' = [served EXCEPT ![k] = @ \cup {process}]
  /\ UNCHANGED <<mode, row, file, sources, repeated>>

\* Faulty: the key alone identifies a capture.
AnyMatches(w, p) == TRUE
\* capture_payload_hash.
Matches(w, p) == w.payload = p

IsComplete(w) == w.path # None

\* A source that is there already.
Existing(r) ==
  LET w == row[request[r].key] IN
  IF ~Matches(w, request[r].payload) THEN Answer(r, "conflict")
  ELSE IF mode = "workspace" \/ IsComplete(w) THEN Answer(r, "saved")
  ELSE Goto(r, "complete")

Find(r) ==
  /\ request[r].pc = "find"
  /\ IF row[request[r].key] = None THEN Goto(r, "insert") ELSE Existing(r)
  /\ UNCHANGED <<mode, row, file, sources, served, repeated>>

\* The source is committed; or the key was taken meanwhile, by another process.
Insert(r) ==
  LET k == request[r].key IN
  /\ request[r].pc = "insert"
  /\ IF row[k] = None
     THEN /\ row' = [row EXCEPT ![k] = [payload |-> request[r].payload, title |-> Sent,
                                        rest |-> None, path |-> None]]
          /\ IF mode = "workspace"
             THEN Answer(r, "saved") /\ sources' = sources \cup {k}
             ELSE Goto(r, "complete") /\ UNCHANGED sources
     ELSE Existing(r) /\ UNCHANGED <<row, sources>>
  /\ UNCHANGED <<mode, file, served, repeated>>

------------------------------------------------------------------------------
(* _complete_capture. *)

\* Who comes here has an incomplete source in its session, and the SELECT ... FOR UPDATE
\* leaves that object as it is: _projection_is_complete is false of it, whatever the row is.
Lock(r) ==
  LET k == request[r].key IN
  /\ request[r].pc = "complete"
  /\ Holders(k) = {}
  /\ Goto(r, "answer")
  /\ repeated' = IF IsComplete(row[k]) THEN repeated \cup {k} ELSE repeated
  /\ UNCHANGED <<mode, row, file, sources, served>>

\* The enrichment, by the model or without it, and the files, which its title names.
Write(r, e) ==
  /\ request[r].pc = "answer"
  /\ file' = [file EXCEPT ![request[r].key][e.title] = e]
  /\ request' = [request EXCEPT ![r].pc = "commit", ![r].written = e]
  /\ UNCHANGED <<mode, row, sources, served, repeated>>

\* The UPDATE sets what differs from the source in the session, whose title is the one sent.
Commit(r) ==
  LET e == request[r].written IN
  /\ request[r].pc = "commit"
  /\ row' = [row EXCEPT ![request[r].key].title = IF e.title = Sent THEN @ ELSE e.title,
                        ![request[r].key].rest = e.rest,
                        ![request[r].key].path = e.title]
  /\ Answer(r, "saved")
  /\ UNCHANGED <<mode, file, sources, served, repeated>>

\* Phase two fails and is rolled back: the client is to try again.
Fail(r) ==
  /\ request[r].pc \in {"answer", "commit"}
  /\ Answer(r, "retry")
  /\ UNCHANGED <<mode, row, file, sources, served, repeated>>

\* The answer arrives, or is lost on the way, or the process dies before.
Leave(r) ==
  /\ request[r] # Idle
  /\ request' = [request EXCEPT ![r] = Idle]
  /\ UNCHANGED <<mode, row, file, sources, served, repeated>>

Next ==
  \E r \in Requests :
    \/ \E k \in Keys, p \in Payloads, process \in Processes : Receive(r, k, p, process)
    \/ request[r] # Idle /\ (Find(r) \/ Insert(r) \/ Lock(r) \/ Commit(r) \/ Fail(r) \/ Leave(r))
    \/ request[r] # Idle /\ \E e \in Enrichments : Write(r, e)

Spec == Init /\ [][Next]_vars

------------------------------------------------------------------------------
(* Properties. *)

\* "The source is durable": whoever is told that her capture is saved finds under its key
\* what she sent, and it is with the workspace or has its files; whichever of several
\* requests with this key, in whichever process, stored it.
SavedIsStored ==
  \A r \in Requests :
    request[r] # Idle /\ request[r].pc = "answered" /\ request[r].result = "saved" =>
      LET k == request[r].key IN
      /\ row[k] # None /\ row[k].payload = request[r].payload
      /\ IF mode = "workspace" THEN k \in sources ELSE IsComplete(row[k])

\* The row of a complete source and its files are of one enrichment, although the files are
\* written before the row and stay when the row is rolled back; except for a source that was
\* taken up again when it was complete.
FilesShowRow ==
  \A k \in Keys \ repeated : row[k] # None /\ IsComplete(row[k]) =>
    file[k][row[k].path] = [title |-> row[k].title, rest |-> row[k].rest]

\* Only another server process takes a complete source up again: inside one, whoever repeats
\* a request waits for the whole of the earlier one and finds its result.
RepeatedAcross == \A k \in repeated : \E p, q \in served[k] : p # q
=============================================================================
