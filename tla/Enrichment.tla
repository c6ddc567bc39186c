----------------------------- MODULE Enrichment -----------------------------
(***************************************************************************)
(* The pile pipeline of the backend outside workspace mode.  A capture is  *)
(* committed first; a second phase then sorts the conversation into a pile *)
(* and exports it as Markdown.  The owner assigns, discards and recovers   *)
(* conversations and edits the to-do list; with browser processing, an     *)
(* extension fetches pending conversations and delivers results later.     *)
(*                                                                         *)
(* Every request holds one transaction.  A row it has written is locked    *)
(* until it ends; postgres also locks the rows of SELECT ... FOR UPDATE,   *)
(* sqlite ignores that but has one writer at a time.  Files (the export,   *)
(* the to-do list) are written at once and never rolled back.              *)
(***************************************************************************)
EXTENDS Naturals, Sequences, FiniteSets, SequencesExt

CONSTANTS
  Sessions,
  Piles,        \* what the model can choose; "todo" writes the list, "discarded"
  Requests,     \* bound: requests served at a time
  BatchSize,    \* processing_batch_size
  MaxSource,    \* bound: revisions of a conversation
  Engines,      \* databases: "postgres", "sqlite"
  Modes,        \* "immediate" or "browser" processing
  None

VARIABLES
  engine, mode,  \* the installation
  row,           \* chat_sessions; derived: the revision the output is made from
  todo,          \* who has an item on the to-do list
  copy,          \* the list as the owner has it open, or None
  task,          \* the batch the extension works on, or None
  tx             \* the requests being served

tables == <<row, todo>>
vars == <<engine, mode, tables, copy, task, tx>>

Owner == "owner"
Todos == SUBSET (Sessions \cup {Owner})

Rows == [source : 0..MaxSource, pending : BOOLEAN, projection : BOOLEAN,
         locked : BOOLEAN, pile : Piles \cup {None}, derived : 0..MaxSource]

Idle == [pc |-> "idle"]
PCs == {"captured", "loaded", "answering", "item", "itemized", "exported"}

Batches == {b \in SeqOf(Sessions, BatchSize) : b # <<>> /\ IsInjective(b)}
Tasks == [batch : Batches, source : [Sessions -> 0..MaxSource],
          pile : [Sessions -> Piles], list : Todos]

Busy(r) == tx[r] # Idle
Discarded(w) == w.pile = "discarded"

Init ==
  /\ engine \in Engines /\ mode \in Modes
  /\ row = [s \in Sessions |->
       [source |-> 0, pending |-> FALSE, projection |-> FALSE,
        locked |-> FALSE, pile |-> None, derived |-> 0]]
  /\ todo = {}
  /\ copy = None
  /\ task = None
  /\ tx = [r \in Requests |-> Idle]

------------------------------------------------------------------------------
(* Locks.  held: the rows a request has locked. *)

Holders(s) == {q \in Requests : Busy(q) /\ s \in tx[q].held}
Writers == {q \in Requests : Busy(q) /\ tx[q].held # {}}

\* Faulty: writes do not wait.
FreeAny(r, s) == TRUE
\* A write of row s waits for the others.
Free(r, s) ==
  IF engine = "postgres" THEN Holders(s) \subseteq {r} ELSE Writers \subseteq {r}

\* SELECT ... FOR UPDATE; NotHeld is faulty, a plain SELECT.
ForUpdate(r, S) == engine = "postgres" => \A s \in S : Holders(s) \subseteq {r}
NotHeld(S) == {}
HeldForUpdate(S) == IF engine = "postgres" THEN S ELSE {}

\* _INGEST_LOCKS, inside one server process; on sqlite there is only one.
Serving(s) ==
  {q \in Requests : Busy(q) /\ tx[q].kind = "capture" /\ tx[q].session = s}
Unserved(s) == engine = "sqlite" => Serving(s) = {}

------------------------------------------------------------------------------
(* Phase one: the capture is committed, with its flags. *)

Capture(r, s, new, discard) ==
  /\ tx[r] = Idle
  /\ Unserved(s) /\ Free(r, s)
  /\ new => row[s].source < MaxSource
  /\ new \/ row[s].source > 0
  /\ row' = [row EXCEPT
       ![s].source = IF new THEN @ + 1 ELSE @,
       ![s].pending = @ \/ new,
       ![s].projection = @ \/ new \/ (discard /\ (row[s].pending \/ ~Discarded(row[s])))]
  /\ tx' = [tx EXCEPT ![r] =
       [pc |-> "captured", kind |-> "capture", session |-> s, discard |-> discard,
        held |-> {}, new |-> <<>>]]
  /\ UNCHANGED <<engine, mode, todo, copy, task>>

------------------------------------------------------------------------------
(* Phase two. *)

RequestStep == UNCHANGED <<engine, mode, row, copy, task>>

\* should_route_to_discard.
ToDiscard(seen, discard) ==
  IF seen.locked
  THEN Discarded(seen) /\ seen.pending
  ELSE \/ discard /\ (seen.pending \/ ~Discarded(seen))
       \/ Discarded(seen) /\ seen.pending

Plan(seen, discard) ==
  IF ToDiscard(seen, discard) THEN "discard"
  ELSE IF ~seen.pending THEN "none"
  ELSE IF seen.locked
       THEN IF mode = "immediate" /\ seen.pile # None THEN "reassign" ELSE "none"
  ELSE IF mode = "immediate" THEN "process" ELSE "mark"

Load(r) ==
  /\ tx[r].pc = "captured"
  /\ LET s == tx[r].session  seen == row[s] IN
     /\ ForUpdate(r, {s})
     /\ tx' = [tx EXCEPT ![r] =
          [pc |-> "loaded", kind |-> "capture", session |-> s,
           plan |-> Plan(seen, tx[r].discard), manual |-> seen.locked, target |-> seen.pile,
           source |-> seen.source, marked |-> seen.projection,
           held |-> HeldForUpdate({s}), new |-> <<>>]]
  /\ RequestStep /\ UNCHANGED todo

------------------------------------------------------------------------------
(* The owner's requests. *)

Begin(r, s, plan, target) ==
  /\ tx[r] = Idle
  /\ row[s].source > 0
  /\ tx' = [tx EXCEPT ![r] =
       [pc |-> "loaded", kind |-> "owner", session |-> s,
        plan |-> plan, manual |-> plan # "recover", target |-> target,
        source |-> row[s].source, marked |-> row[s].projection,
        held |-> {}, new |-> <<>>]]
  /\ RequestStep /\ UNCHANGED todo

Assign(r, s, pile) == pile # "discarded" /\ Begin(r, s, "reassign", pile)
DiscardSession(r, s) == Begin(r, s, "discard", None)
\* Of a conversation that is not discarded, nothing but the export is left.
Recover(r, s) == Begin(r, s, IF Discarded(row[s]) THEN "recover" ELSE "none", None)

OpenList ==
  /\ copy = None
  /\ copy' = todo
  /\ UNCHANGED <<engine, mode, tables, task, tx>>

\* Faulty: the list is written whatever it has become.
Overwritable(revision) == TRUE
\* write_markdown with expected_revision.
Unchanged(revision) == todo = revision

SaveList(added) ==
  /\ copy # None
  /\ todo' = IF Unchanged(copy) THEN copy \cup added ELSE todo
  /\ copy' = None
  /\ UNCHANGED <<engine, mode, row, task, tx>>

------------------------------------------------------------------------------
(* SessionProcessor. *)

Rollback(r) ==
  /\ tx' = [tx EXCEPT ![r] = Idle]
  /\ RequestStep /\ UNCHANGED todo

\* Faulty: an assignment by the owner is not looked at.
ClaimableAny(s) == TRUE
\* _claim_automatic_assignment: a conditional update.
Claimable(s) == ~row[s].locked

Claims(r, s) ==
  CASE tx[r].manual -> TRUE
    [] tx[r].plan = "recover" -> Discarded(row[s])
    [] OTHER -> Claimable(s)

\* Which pile a claimed conversation comes to, and whether the list is written for it: the
\* model's choice, which may be several piles for its segments ...
Sorted(r, pile, lists) ==
  /\ tx[r].plan \in {"process", "recover"}
  /\ pile = "todo" => lists
  /\ pile = "discarded" => ~lists
\* ... the discard pile ...
RoutedToDiscard(r, pile, lists) ==
  tx[r].plan = "discard" /\ pile = "discarded" /\ ~lists
\* ... or the owner's choice.
Reassigned(r, pile, lists) ==
  tx[r].plan = "reassign" /\ pile = tx[r].target /\ (lists <=> pile = "todo")

\* The claim locks the row, and all that follows is made from the row as it is now.
Claim(r, pile, lists) ==
  /\ tx[r].pc = "loaded" /\ tx[r].plan \notin {"none", "mark"}
  /\ LET s == tx[r].session IN
     /\ Free(r, s)
     /\ Claims(r, s)
     /\ Sorted(r, pile, lists) \/ RoutedToDiscard(r, pile, lists) \/ Reassigned(r, pile, lists)
     /\ tx' = [tx EXCEPT ![r] =
          [pc |-> "answering", kind |-> tx[r].kind, session |-> s, plan |-> "claimed",
           source |-> tx[r].source, held |-> {s},
           new |-> [d \in {s} |-> [row[s] EXCEPT !.pile = pile, !.pending = FALSE,
                                    !.locked = tx[r].manual, !.derived = row[s].source]],
           lists |-> lists, list |-> IF lists THEN todo ELSE {}]]
  /\ RequestStep /\ UNCHANGED todo

\* The owner was first, or the conversation is no longer discarded.
LoseClaim(r) ==
  /\ tx[r].pc = "loaded" /\ tx[r].plan \notin {"none", "mark"}
  /\ Free(r, tx[r].session) /\ ~Claims(r, tx[r].session)
  /\ IF tx[r].plan = "recover"
     THEN /\ tx' = [tx EXCEPT ![r].plan = "none", ![r].source = row[tx[r].session].source,
                                ![r].marked = row[tx[r].session].projection]
          /\ RequestStep /\ UNCHANGED todo
     ELSE Rollback(r)

------------------------------------------------------------------------------
(* The export, and the end of a request for one conversation. *)

\* The row a request exports: the claimed one, the row read again under FOR UPDATE, or in
\* a recovery that had nothing to do, the row it first read.
Shown(r) ==
  IF tx[r].pc = "answering" THEN tx[r].new[tx[r].session].source
  ELSE IF tx[r].kind = "capture" THEN row[tx[r].session].source ELSE tx[r].source
Marked(r) ==
  IF tx[r].pc = "answering" THEN tx[r].new[tx[r].session].projection
  ELSE IF tx[r].kind = "capture" THEN row[tx[r].session].projection ELSE tx[r].marked

Attempted(r) == tx[r].plan # "none"
SourceChanged(r) == tx[r].kind = "capture" /\ Attempted(r) /\ Shown(r) # tx[r].source
ShouldExport(r) == tx[r].kind = "owner" \/ Attempted(r) \/ tx[r].marked

Exported(r) ==
  [pc |-> "exported", kind |-> tx[r].kind, session |-> tx[r].session, plan |-> tx[r].plan,
   held |-> tx[r].held, new |-> tx[r].new,
   clears |-> ShouldExport(r) /\ Marked(r), shows |-> Shown(r)]

\* Write the note, unless the conversation has changed.
ExportOrRollback(r) ==
  tx' = [tx EXCEPT ![r] = IF SourceChanged(r) THEN Idle ELSE Exported(r)]

\* The model has answered.  The list it was shown is written with its item, if it is still
\* the same, and stays written.
Answer(r) ==
  /\ tx[r].pc = "answering"
  /\ IF tx[r].lists /\ ~Unchanged(tx[r].list)
     THEN Rollback(r)
     ELSE /\ todo' = IF tx[r].lists THEN tx[r].list \cup {tx[r].session} ELSE todo
          /\ ExportOrRollback(r)
          /\ RequestStep

\* Nothing was claimed.
Export(r) ==
  /\ tx[r].pc = "loaded" /\ tx[r].plan \in {"none", "mark"}
  /\ tx[r].kind = "capture" => ForUpdate(r, {tx[r].session})
  /\ ExportOrRollback(r)
  /\ RequestStep /\ UNCHANGED todo

\* Only what a request has changed is written.
Commit(r) ==
  /\ tx[r].pc = "exported" /\ tx[r].kind # "complete"
  /\ LET s == tx[r].session
         written == IF s \in DOMAIN tx[r].new THEN tx[r].new[s] ELSE row[s]
     IN
     /\ tx[r].clears => Free(r, s)
     /\ row' = [row EXCEPT ![s] =
          IF tx[r].clears THEN [written EXCEPT !.projection = FALSE] ELSE written]
  /\ tx' = [tx EXCEPT ![r] = Idle]
  /\ UNCHANGED <<engine, mode, todo, copy, task>>

------------------------------------------------------------------------------
(* The extension's batches. *)

Eligible(s) == row[s].pending /\ ~row[s].locked

\* next_task, and what the model makes of it.
Fetch(batch, pile) ==
  /\ mode = "browser" /\ task = None
  /\ \A s \in Range(batch) : Eligible(s)
  /\ task' = [batch |-> batch, source |-> [s \in Sessions |-> row[s].source],
              pile |-> pile, list |-> todo]
  /\ UNCHANGED <<engine, mode, tables, copy, tx>>

DropTask == task # None /\ task' = None /\ UNCHANGED <<engine, mode, tables, copy, tx>>

\* Faulty: the source revisions are not compared.
SameSourceAny(t) == TRUE
SameSource(t) == \A s \in Range(t.batch) : row[s].source = t.source[s]

WritesList(t) == \E s \in Range(t.batch) : t.pile[s] = "todo"

\* complete_task up to _lock_completion_sessions and the comparison of the list.
Complete(r) ==
  /\ tx[r] = Idle /\ task # None
  /\ LET S == Range(task.batch) IN
     /\ ForUpdate(r, S)
     /\ \A s \in S : Eligible(s)
     /\ SameSource(task)
     /\ WritesList(task) => Unchanged(task.list)
     /\ tx' = [tx EXCEPT ![r] =
          [pc |-> "item", kind |-> "complete", task |-> [task EXCEPT !.list = {}], next |-> 1, session |-> None,
           list |-> IF WritesList(task) THEN task.list ELSE {},
           revision |-> IF WritesList(task) THEN task.list ELSE {},
           held |-> HeldForUpdate(S), new |-> <<>>]]
  /\ RequestStep /\ UNCHANGED todo

\* A row as the task's result leaves it, and the request that has written it.
ResultRow(r, s) ==
  [row[s] EXCEPT !.pile = tx[r].task.pile[s], !.pending = FALSE, !.locked = FALSE,
                 !.derived = tx[r].task.source[s]]
Itemized(r, s, list) ==
  [tx[r] EXCEPT !.pc = "itemized", !.list = list, !.held = @ \cup {s},
     !.new = [d \in DOMAIN @ \cup {s} |-> IF d = s THEN ResultRow(r, s) ELSE @[d]]]

\* apply_pipeline_result of one item.  The results of one answer build on each other.
ApplyItem(r) ==
  /\ tx[r].pc = "item"
  /\ LET s == tx[r].task.batch[tx[r].next]
         pile == tx[r].task.pile[s]
         list == IF pile = "todo" THEN tx[r].list \cup {s} ELSE tx[r].list
     IN
     /\ Free(r, s)
     /\ IF ~Claimable(s) \/ (pile = "todo" /\ ~Unchanged(tx[r].revision))
        THEN Rollback(r)
        ELSE /\ todo' = IF pile = "todo" THEN list ELSE todo
             /\ tx' = [tx EXCEPT ![r] = Itemized(r, s, list)]
             /\ RequestStep

\* The list's revision is read again for the next item, and the note exported.
ExportItem(r) ==
  /\ tx[r].pc = "itemized"
  /\ tx' = [tx EXCEPT
       ![r].revision = IF tx[r].task.pile[tx[r].task.batch[tx[r].next]] = "todo" THEN todo ELSE @,
       ![r].next = @ + 1,
       ![r].pc = IF tx[r].next < Len(tx[r].task.batch) THEN "item" ELSE "exported"]
  /\ RequestStep /\ UNCHANGED todo

CommitBatch(r) ==
  /\ tx[r].pc = "exported" /\ tx[r].kind = "complete"
  /\ row' = [s \in Sessions |-> IF s \in DOMAIN tx[r].new THEN tx[r].new[s] ELSE row[s]]
  /\ tx' = [tx EXCEPT ![r] = Idle]
  /\ UNCHANGED <<engine, mode, todo, copy, task>>

------------------------------------------------------------------------------
\* An exception, or the process stops.
Fail(r) == Busy(r) /\ Rollback(r)

Process(r) ==
  \/ Load(r)
  \/ \E pile \in Piles, lists \in BOOLEAN : Claim(r, pile, lists)
  \/ LoseClaim(r)
  \/ Answer(r) \/ Export(r) \/ Commit(r)
  \/ ApplyItem(r) \/ ExportItem(r) \/ CommitBatch(r)

OwnerNext ==
  \/ \E r \in Requests, s \in Sessions :
       \/ \E pile \in Piles : Assign(r, s, pile)
       \/ DiscardSession(r, s) \/ Recover(r, s)
  \/ OpenList
  \/ \E added \in SUBSET {Owner} : SaveList(added)

ExtensionNext ==
  \/ \E batch \in Batches, pile \in [Sessions -> Piles] : Fetch(batch, pile)
  \/ DropTask
  \/ \E r \in Requests : Complete(r)

Next ==
  \/ \E r \in Requests, s \in Sessions, new, discard \in BOOLEAN : Capture(r, s, new, discard)
  \/ \E r \in Requests : Busy(r) /\ (Process(r) \/ Fail(r))
  \/ OwnerNext
  \/ ExtensionNext

Spec == Init /\ [][Next]_vars

------------------------------------------------------------------------------
(* Properties. *)

\* Types, and a row is locked by one request at a time, on sqlite the database.
TypeOK ==
  /\ engine \in Engines /\ mode \in Modes
  /\ row \in [Sessions -> Rows]
  /\ todo \in Todos
  /\ copy \in Todos \cup {None}
  /\ task \in Tasks \cup {None}
  /\ \A r \in Requests : Busy(r) =>
       /\ tx[r].pc \in PCs
       /\ tx[r].held \subseteq Sessions
       /\ DOMAIN tx[r].new \subseteq tx[r].held /\ tx[r].new \in [DOMAIN tx[r].new -> Rows]
  /\ \A s \in Sessions : Cardinality(Holders(s)) <= 1
  /\ engine = "sqlite" => Cardinality(Writers) <= 1

\* A conversation that is not pending is sorted as its latest revision asks: no result of
\* an earlier revision, nor a failed request, takes the flag from a newer capture.  On
\* sqlite with browser processing one can (see WaitingCaptureWins).
PendingHonest ==
  engine = "postgres" \/ mode = "immediate" =>
    \A s \in Sessions : ~row[s].pending => row[s].derived = row[s].source

\* "So the waiting capture always wins": the same of every installation.
WaitingCaptureWins ==
  \A s \in Sessions : ~row[s].pending => row[s].derived = row[s].source

\* The pile the owner has chosen is never changed by automatic sorting, whenever that began;
\* on sqlite a capture that found an earlier choice of the owner may renew that one.
KeepsPile ==
  \A s \in Sessions : row[s].locked /\ row'[s].pile # row[s].pile =>
    \/ \E r \in Requests : Busy(r) /\ ~Busy(r)' /\ tx[r].kind = "owner"
    \/ engine = "sqlite" /\ row'[s].locked
ManualWins == [][KeepsPile]_vars

\* No writer of the to-do list drops what another has put there while it worked; except
\* the later items of a batch (see TodoUntouched).
KeepsList ==
  (\A r \in Requests : Busy(r) /\ tx[r].kind = "complete" =>
     tx[r].next = 1 \/ tx[r].pc = "exported")
  => todo \subseteq todo'
TodoKept == [][KeepsList]_vars

\* "The shared list changed after a processor read it" is a conflict: the same of every
\* writer.
TodoUntouched == [][todo \subseteq todo']_vars

\* A request takes the mark for export from a conversation only if the note it wrote shows
\* the latest revision; except a recovery of one that is not, or no longer, discarded,
\* which exports what it first read.
ExportsLatest ==
  \A s \in Sessions : row[s].projection /\ ~row'[s].projection =>
    \E r \in Requests :
      /\ Busy(r) /\ ~Busy(r)' /\ tx[r].session = s
      /\ tx[r].shows = row'[s].source \/ (tx[r].kind = "owner" /\ tx[r].plan = "none")
ExportCurrent == [][ExportsLatest]_vars
=============================================================================
