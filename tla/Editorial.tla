----------------------------- MODULE Editorial -----------------------------
(***************************************************************************)
(* Private drafts, and the approval that lets one exact copy of a draft    *)
(* leave the workspace.  A handler reads the draft, decides, and writes    *)
(* with a compare-and-swap on the draft's version: two steps, between which *)
(* other requests run.  A hash stands for the destination and the public   *)
(* payload it digests.                                                     *)
(***************************************************************************)
EXTENDS Naturals, Sequences

CONSTANTS
  Drafts, Sources, Destinations,
  Copies,       \* public payloads
  Unsafe,       \* the payloads with an empty body or privacy findings
  Callers,      \* clients of the endpoints
  MaxVersion,   \* bound: versions of a draft
  MaxRevision   \* bound: revisions of a source

ASSUME EditorialAssumption ==
  /\ Unsafe \subseteq Copies
  /\ MaxVersion \in Nat /\ MaxRevision \in Nat \ {0}

VARIABLES
  source,     \* the sources of the ledger
  draft,
  revisions,  \* the draft's history, by version
  exports,    \* publication receipts
  view,       \* what each caller previewed last
  request     \* the request each caller waits for, with the row it has read

editorialVars == <<source, draft, revisions, exports, view, request>>

Hash(copy, dest) == <<dest, copy>>
Hashes == Destinations \X Copies
NoHash == <<>>

\* refs pins a revision of each supporting source, 0 for none.  The status is "approved"
\* where there is an approval_hash, and "draft" elsewhere.
Rows == [version : Nat, copy : Copies, dest : Destinations, refs : [Sources -> Nat],
         approval : Hashes \cup {NoHash}]

NoRow == [version |-> 0]
Exists(d) == draft[d] # NoRow

Exports == [draft : Drafts, hash : Hashes]

Views == [draft : Drafts, version : Nat, hash : Hashes]

Ops == {"edit", "approve", "export"}
Requests == [op : Ops, view : Views, row : Rows]
Quiet == [op |-> "none"]
NoView == [version |-> 0]

EditorialTypeOK ==
  /\ source \in [Sources -> [revision : Nat, archived : BOOLEAN]]
  /\ draft \in [Drafts -> Rows \cup {NoRow}]
  /\ revisions \in [Drafts -> Seq(Rows)]
  /\ exports \in SUBSET Exports
  /\ view \in [Callers -> Views \cup {NoView}]
  /\ request \in [Callers -> Requests \cup {Quiet}]

EditorialInit ==
  /\ source = [s \in Sources |-> [revision |-> 1, archived |-> FALSE]]
  /\ draft = [d \in Drafts |-> NoRow]
  /\ revisions = [d \in Drafts |-> <<>>]
  /\ exports = {}
  /\ view = [c \in Callers |-> NoView]
  /\ request = [c \in Callers |-> Quiet]

------------------------------------------------------------------------------
(* The ledger: captures revise sources, also back to an earlier content, and the owner *)
(* archives them.                                                                      *)

Revise(s, revision) ==
  /\ revision # source[s].revision
  /\ source' = [source EXCEPT ![s].revision = revision]
  /\ UNCHANGED <<draft, revisions, exports, view, request>>

Archive(s) ==
  /\ source' = [source EXCEPT ![s].archived = ~@]
  /\ UNCHANGED <<draft, revisions, exports, view, request>>

------------------------------------------------------------------------------
(* The endpoints. *)

\* source_refs: supporting sources must exist and be active.
Active(part) == \A s \in part : ~source[s].archived

Pinned(part) == [s \in Sources |-> IF s \in part THEN source[s].revision ELSE 0]

\* draft_detail: stale_sources.
Stale(row) ==
  {s \in Sources : row.refs[s] # 0
                   /\ (source[s].archived \/ source[s].revision # row.refs[s])}

PublicationHash(row) == Hash(row.copy, row.dest)

\* The write of a handler and save_revision.
Store(d, row) ==
  /\ draft' = [draft EXCEPT ![d] = row]
  /\ revisions' = [revisions EXCEPT ![d] = Append(@, row)]

CreateDraft(c, d, copy, dest, part) ==
  /\ request[c] = Quiet
  /\ ~Exists(d)
  /\ Active(part)
  /\ Store(d, [version |-> 1, copy |-> copy, dest |-> dest, refs |-> Pinned(part),
               approval |-> NoHash])
  /\ UNCHANGED <<source, exports, view, request>>

Preview(c, d) ==
  /\ request[c] = Quiet
  /\ Exists(d)
  /\ view' = [view EXCEPT ![c] = [draft |-> d, version |-> draft[d].version,
                                  hash |-> PublicationHash(draft[d])]]
  /\ UNCHANGED <<source, draft, revisions, exports, request>>

\* A request on the strength of a view, once its handler has read the row.
Take(c, op, asked, row) ==
  /\ request[c] = Quiet
  /\ request' = [request EXCEPT ![c] = [op |-> op, view |-> asked, row |-> row]]
  /\ UNCHANGED <<source, draft, revisions, exports, view>>

\* The references of an edit: a kept source keeps its pinned revision.
BeginEdit(c, copy, dest, part) ==
  LET old == draft[view[c].draft] IN
  /\ view[c] # NoView
  /\ old.version < MaxVersion
  /\ Active(part)
  /\ Take(c, "edit", view[c],
          [old EXCEPT !.copy = copy, !.dest = dest, !.approval = NoHash,
                      !.refs = [s \in Sources |->
                                  IF s \in part /\ old.refs[s] # 0 THEN old.refs[s]
                                  ELSE Pinned(part)[s]]])

\* Faulty: the privacy checks are left to the owner's eyes.
ReadyIfFresh(row) == Stale(row) = {}
\* Nothing is ready to leave that the privacy checks object to or whose evidence changed.
Ready(row) == row.copy \notin Unsafe /\ Stale(row) = {}

\* What is approved must be what was previewed.
BeginApprove(c) ==
  LET row == draft[view[c].draft] IN
  /\ view[c] # NoView
  /\ row.version < MaxVersion
  /\ Ready(row)
  /\ view[c].hash = PublicationHash(row)
  /\ Take(c, "approve", view[c], row)

BeginExport(c, asked) ==
  LET row == draft[asked.draft] IN
  /\ row.approval = asked.hash
  /\ PublicationHash(row) = asked.hash
  /\ Take(c, "export", asked, row)

\* Faulty: the write trusts the row the handler has read.
CurrentRow(r) == TRUE
\* The compare-and-swap of the version.
Current(r) == draft[r.view.draft].version = r.view.version

Finish(c) ==
  /\ request' = [request EXCEPT ![c] = Quiet]
  /\ UNCHANGED <<source, view>>

\* edit_draft writes every column anew, approve the approval only.
Written(r) ==
  LET now == draft[r.view.draft] IN
  IF r.op = "edit" THEN [r.row EXCEPT !.version = now.version + 1]
  ELSE [now EXCEPT !.version = @ + 1, !.approval = r.view.hash]

Save(c) ==
  LET r == request[c] IN
  /\ r.op \in {"edit", "approve"}
  /\ Current(r)
  /\ Store(r.view.draft, Written(r))
  /\ Finish(c)
  /\ UNCHANGED exports

\* Faulty: the row the handler has read is checked again, not the draft.
MayExportRow(r) == Ready(r.row)
\* export_draft: under the writer's lock, the draft must still be approved and fresh.
MayExport(r) ==
  /\ Current(r)
  /\ draft[r.view.draft].approval = r.view.hash
  /\ Ready(r.row)

Export(c) ==
  LET r == request[c] IN
  /\ r.op = "export"
  /\ MayExport(r)
  /\ exports' = exports \cup {[draft |-> r.view.draft, hash |-> PublicationHash(r.row)]}
  /\ Finish(c)
  /\ UNCHANGED <<draft, revisions>>

\* The handler answers with a conflict.
Refuse(c) ==
  LET r == request[c] IN
  /\ r.op \in Ops
  /\ IF r.op = "export" THEN ~MayExport(r) ELSE ~Current(r)
  /\ Finish(c)
  /\ UNCHANGED <<draft, revisions, exports>>

------------------------------------------------------------------------------
(* Next: the endpoints by themselves; Publisher has its own next-state relation. *)

LedgerStep ==
  \E s \in Sources : Archive(s) \/ \E revision \in 1..MaxRevision : Revise(s, revision)

OwnerStep(c) ==
  \/ \E d \in Drafts : Preview(c, d)
  \/ \E copy \in Copies, dest \in Destinations, part \in SUBSET Sources :
       BeginEdit(c, copy, dest, part) \/ \E d \in Drafts : CreateDraft(c, d, copy, dest, part)
  \/ BeginApprove(c)
  \/ view[c] # NoView /\ BeginExport(c, view[c])

ServerStep(c) == Save(c) \/ Refuse(c)

EditorialNext ==
  \/ LedgerStep
  \/ \E c \in Callers : OwnerStep(c) \/ ServerStep(c) \/ Export(c)

------------------------------------------------------------------------------
\* Every receipt is for a copy and a destination that were approved, as they are, in some
\* version of that draft, at which no finding of the privacy checks was open.
ExportsApproved ==
  \A e \in exports :
    /\ e.hash[2] \notin Unsafe
    /\ \E i \in DOMAIN revisions[e.draft] :
         /\ revisions[e.draft][i].approval = e.hash
         /\ PublicationHash(revisions[e.draft][i]) = e.hash

\* A receipt is given only while the draft itself, not the row the handler read, is approved
\* for exactly that copy and destination and rests on sources as they are.
ExportsCurrent ==
  [][\A e \in exports' \ exports :
       /\ draft[e.draft].approval = e.hash
       /\ PublicationHash(draft[e.draft]) = e.hash
       /\ Stale(draft[e.draft]) = {}]_editorialVars

\* An approval in force is for the copy the draft holds: no edit, in whatever order
\* handlers read and write, leaves an older approval on a newer copy.
ApprovalIsExact ==
  \A d \in Drafts : Exists(d) /\ draft[d].approval # NoHash
    => draft[d].approval = PublicationHash(draft[d])
=============================================================================
