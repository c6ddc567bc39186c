-------------------------- MODULE PublisherProofs --------------------------
(***************************************************************************)
(* The approval of drafts and the publication of their copies, for any     *)
(* numbers of drafts, sources, destinations and clients.                   *)
(***************************************************************************)
EXTENDS MCPublisher, SequenceTheorems, TLAPS

------------------------------------------------------------------------------
(* Types. *)

\* A written row is not the row of a draft that does not exist.
LEMMA RowExists == \A row \in Rows : row # NoRow
BY DEF Rows, NoRow

\* The same of views, requests and runs.
LEMMA NotQuiet ==
  /\ \A v \in Views : v # NoView
  /\ \A r \in Requests : r # Quiet
  /\ \A r \in Runs : r # NoRun /\ r.pc # "none"
BY DEF Views, NoView, Requests, Ops, Quiet, Runs, NoRun

\* A draft that exists has a row.
LEMMA DraftRow ==
  ASSUME EditorialTypeOK, NEW d \in Drafts, Exists(d)
  PROVE  draft[d] \in Rows
BY DEF EditorialTypeOK, Exists

\* The steps of the endpoints, with a request for an export that need not come from a view.
Move ==
  \/ LedgerStep
  \/ \E c \in Callers :
       \/ OwnerStep(c) \/ Save(c) \/ Refuse(c) \/ Export(c)
       \/ \E asked \in Views : Exists(asked.draft) /\ asked.version <= draft[asked.draft].version
                               /\ BeginExport(c, asked)

\* A view is of a draft that exists, and not newer than it.
ViewHolds(c) ==
  view[c] # NoView =>
    Exists(view[c].draft) /\ view[c].version <= draft[view[c].draft].version

\* A request of a handler is not older than the view it answers.  An edit takes the approval
\* away; the others hold the copy that was seen, and while the version stands, the draft.
RequestHolds(c) ==
  LET r == request[c]
      row == draft[r.view.draft]
  IN r # Quiet =>
       /\ Exists(r.view.draft)
       /\ r.view.version <= r.row.version /\ r.row.version <= row.version
       /\ r.op = "edit" => r.row.approval = NoHash
       /\ r.op # "edit" => /\ PublicationHash(r.row) = r.view.hash
                           /\ r.row.version = row.version => r.row = row

\* The history of a draft has its row.
HistoryHolds(d) == Exists(d) => \E i \in DOMAIN revisions[d] : revisions[d][i] = draft[d]

EditorialInv ==
  /\ EditorialTypeOK
  /\ \A c \in Callers : ViewHolds(c) /\ RequestHolds(c)
  /\ \A d \in Drafts : HistoryHolds(d)
  /\ ApprovalIsExact
  /\ ExportsApproved

\* The hash of a row is one, and shows the copy.
LEMMA HashOfRow ==
  \A row \in Rows : PublicationHash(row) \in Hashes /\ PublicationHash(row)[2] = row.copy
BY DEF PublicationHash, Hash, Hashes, Rows

\* A stored row keeps the types.
LEMMA StoreType ==
  ASSUME EditorialTypeOK, NEW d \in Drafts, NEW row \in Rows, Store(d, row)
  PROVE  draft' \in [Drafts -> Rows \cup {NoRow}] /\ revisions' \in [Drafts -> Seq(Rows)]
BY DEF EditorialTypeOK, Store

\* What Save writes is a row.
LEMMA WrittenType ==
  ASSUME EditorialInv, NEW c \in Callers, request[c] # Quiet, request[c].op \in {"edit", "approve"}
  PROVE  /\ request[c].view.draft \in Drafts
         /\ Written(request[c]) \in Rows
         /\ Written(request[c]).version = draft[request[c].view.draft].version + 1
<1>. DEFINE r == request[c]
            now == draft[r.view.draft]
<1>1. r \in Requests /\ r.view \in Views /\ r.row \in Rows /\ r.view.draft \in Drafts
  BY DEF EditorialInv, EditorialTypeOK, Requests, Views
<1>2. now \in Rows
  BY <1>1, DraftRow DEF EditorialInv, RequestHolds
<1>3. now.version + 1 \in Nat /\ r.view.hash \in Hashes
  BY <1>1, <1>2 DEF Rows, Views
<1>. HIDE DEF r, now
<1>4. [r.row EXCEPT !.version = now.version + 1] \in Rows
  BY <1>1, <1>3 DEF Rows
<1>5. [now EXCEPT !.version = @ + 1, !.approval = r.view.hash] \in Rows
  BY <1>2, <1>3 DEF Rows
<1>6. QED
  BY <1>1, <1>2, <1>3, <1>4, <1>5 DEF Written, r, now, Rows

\* The row of a BeginEdit.
Edited(old, copy, dest, part) ==
  [old EXCEPT !.copy = copy, !.dest = dest, !.approval = NoHash,
              !.refs = [s \in Sources |-> IF s \in part /\ old.refs[s] # 0 THEN old.refs[s]
                                          ELSE Pinned(part)[s]]]

\* It is well typed and keeps the version.
LEMMA EditedType ==
  ASSUME EditorialTypeOK, NEW old \in Rows, NEW copy \in Copies, NEW dest \in Destinations,
         NEW part \in SUBSET Sources
  PROVE  /\ Edited(old, copy, dest, part) \in Rows
         /\ Edited(old, copy, dest, part).version = old.version
         /\ Edited(old, copy, dest, part).approval = NoHash
<1>1. Pinned(part) \in [Sources -> Nat]
  BY DEF Pinned, EditorialTypeOK
<1>2. [s \in Sources |-> IF s \in part /\ old.refs[s] # 0 THEN old.refs[s] ELSE Pinned(part)[s]]
        \in [Sources -> Nat]
  BY <1>1 DEF Rows
<1>3. QED
  BY <1>2 DEF Edited, Rows

\* What a request that begins holds: the row of its draft, edited or not.
LEMMA BegunRequest ==
  ASSUME EditorialInv, NEW c \in Callers,
         \/ \E copy \in Copies, dest \in Destinations, part \in SUBSET Sources :
              BeginEdit(c, copy, dest, part)
         \/ BeginApprove(c)
         \/ \E asked \in Views : Exists(asked.draft) /\ asked.version <= draft[asked.draft].version
                                 /\ BeginExport(c, asked)
  PROVE  \E op \in Ops, asked \in Views, row \in Rows :
           /\ request' = [request EXCEPT ![c] = [op |-> op, view |-> asked, row |-> row]]
           /\ UNCHANGED <<source, draft, revisions, exports, view>>
           /\ Exists(asked.draft) /\ asked.version <= row.version
           /\ row.version = draft[asked.draft].version
           /\ op = "edit" => row.approval = NoHash
           /\ op # "edit" => row = draft[asked.draft] /\ PublicationHash(row) = asked.hash
<1>1. CASE \E copy \in Copies, dest \in Destinations, part \in SUBSET Sources :
             BeginEdit(c, copy, dest, part)
  <2>1. PICK copy \in Copies, dest \in Destinations, part \in SUBSET Sources :
               BeginEdit(c, copy, dest, part)
    BY <1>1
  <2>. DEFINE old == draft[view[c].draft]
              row == Edited(old, copy, dest, part)
  <2>2. view[c] \in Views /\ view[c].draft \in Drafts /\ Exists(view[c].draft)
        /\ view[c].version <= old.version
    BY <2>1 DEF EditorialInv, EditorialTypeOK, ViewHolds, BeginEdit, Views
  <2>3. old \in Rows
    BY <2>2, DraftRow DEF EditorialInv
  <2>4. row \in Rows /\ row.version = old.version /\ row.approval = NoHash
    BY <2>3, EditedType DEF EditorialInv
  <2>5. Take(c, "edit", view[c], row)
    BY <2>1 DEF BeginEdit, Edited
  <2>. HIDE DEF row
  <2>6. QED
    BY <2>2, <2>4, <2>5 DEF Take, Ops
<1>2. CASE BeginApprove(c)
  <2>1. view[c] \in Views /\ view[c].draft \in Drafts /\ Exists(view[c].draft)
        /\ view[c].version <= draft[view[c].draft].version
    BY <1>2 DEF EditorialInv, EditorialTypeOK, ViewHolds, BeginApprove, Views
  <2>2. draft[view[c].draft] \in Rows
    BY <2>1, DraftRow DEF EditorialInv
  <2>3. QED
    BY <1>2, <2>1, <2>2 DEF BeginApprove, Take, Ops
<1>3. CASE \E asked \in Views : Exists(asked.draft) /\ asked.version <= draft[asked.draft].version
                                /\ BeginExport(c, asked)
  <2>1. PICK asked \in Views : Exists(asked.draft) /\ asked.version <= draft[asked.draft].version
                               /\ BeginExport(c, asked)
    BY <1>3
  <2>2. draft[asked.draft] \in Rows
    BY <2>1, DraftRow DEF EditorialInv, Views
  <2>3. QED
    BY <2>1, <2>2 DEF BeginExport, Take, Ops
<1>4. QED
  BY <1>1, <1>2, <1>3

\* Such a request keeps the invariant.
LEMMA BegunKeeps ==
  ASSUME EditorialInv, NEW c \in Callers, NEW op \in Ops, NEW asked \in Views, NEW row \in Rows,
         request' = [request EXCEPT ![c] = [op |-> op, view |-> asked, row |-> row]],
         UNCHANGED <<source, draft, revisions, exports, view>>,
         Exists(asked.draft), asked.version <= row.version,
         row.version = draft[asked.draft].version,
         op = "edit" => row.approval = NoHash,
         op # "edit" => row = draft[asked.draft] /\ PublicationHash(row) = asked.hash
  PROVE  EditorialInv'
<1>. DEFINE new == [op |-> op, view |-> asked, row |-> row]
<1>1. new \in Requests
  BY DEF Requests
<1>2. EditorialTypeOK'
  BY <1>1 DEF EditorialInv, EditorialTypeOK
<1>3. ASSUME NEW b \in Callers PROVE ViewHolds(b)'
  BY DEF EditorialInv, ViewHolds, Exists
<1>4. ASSUME NEW b \in Callers PROVE RequestHolds(b)'
  <2>1. CASE b = c
    <3>1. request'[b] = new /\ row.version \in Nat
      BY <2>1 DEF EditorialInv, EditorialTypeOK, Rows
    <3>2. QED
      BY <3>1 DEF RequestHolds, Exists, PublicationHash, Hash
  <2>2. CASE b # c
    <3>1. request'[b] = request[b]
      BY <2>2 DEF EditorialInv, EditorialTypeOK
    <3>2. QED
      BY <3>1 DEF EditorialInv, RequestHolds, Exists, PublicationHash, Hash
  <2>3. QED
    BY <2>1, <2>2
<1>5. ASSUME NEW d \in Drafts PROVE HistoryHolds(d)'
  BY DEF EditorialInv, HistoryHolds, Exists
<1>6. ApprovalIsExact' /\ ExportsApproved'
  BY DEF EditorialInv, ApprovalIsExact, ExportsApproved, Exists, PublicationHash, Hash
<1>7. QED
  BY <1>2, <1>3, <1>4, <1>5, <1>6 DEF EditorialInv

\* A write of a draft raises its version, so that no view and no request holds the new row.
LEMMA StoreKeeps ==
  ASSUME EditorialInv, NEW d \in Drafts, NEW row \in Rows, Store(d, row),
         row.version = draft[d].version + 1,
         row.approval # NoHash => row.approval = PublicationHash(row),
         UNCHANGED <<source, exports, view>>,
         request' = request \/ \E c \in Callers : request' = [request EXCEPT ![c] = Quiet]
  PROVE  EditorialInv'
<1>1. /\ draft' \in [Drafts -> Rows \cup {NoRow}] /\ draft'[d] = row
      /\ \A e \in Drafts : e # d => draft'[e] = draft[e]
  BY DEF EditorialInv, EditorialTypeOK, Store
<1>2. \A e \in Drafts : /\ draft[e].version \in Nat /\ draft'[e].version \in Nat
                        /\ Exists(e) => Exists(e)' /\ draft[e].version <= draft'[e].version
                        /\ draft'[e].version = draft[e].version => draft'[e] = draft[e]
  <2>1. \A e \in Drafts : draft[e].version \in Nat /\ draft'[e].version \in Nat
    <3>1. \A any \in Rows \cup {NoRow} : any.version \in Nat
      BY DEF Rows, NoRow
    <3>2. QED
      BY <1>1, <3>1 DEF EditorialInv, EditorialTypeOK
  <2>2. draft'[d].version > draft[d].version /\ draft'[d] # NoRow
    BY <1>1, <2>1, RowExists
  <2>3. QED
    BY <1>1, <2>1, <2>2 DEF Exists
<1>3. \A c \in Callers : request'[c] = request[c] \/ request'[c] = Quiet
  BY DEF EditorialInv, EditorialTypeOK
<1>4. EditorialTypeOK'
  BY StoreType DEF EditorialInv, EditorialTypeOK
<1>5. ASSUME NEW c \in Callers PROVE ViewHolds(c)'
  <2>1. view[c] # NoView => view[c].draft \in Drafts /\ view[c].version \in Nat
    BY DEF EditorialInv, EditorialTypeOK, Views
  <2>2. QED
    BY <1>2, <2>1 DEF EditorialInv, ViewHolds, Exists
<1>6. ASSUME NEW c \in Callers PROVE RequestHolds(c)'
  <2>. SUFFICES ASSUME request'[c] # Quiet
                PROVE  RequestHolds(c)'
    BY DEF RequestHolds
  <2>. DEFINE r == request[c]
              e == r.view.draft
  <2>1. request'[c] = r /\ r # Quiet
    BY <1>3
  <2>2. e \in Drafts /\ r.row.version \in Nat /\ r.view.version \in Nat
    BY <2>1 DEF EditorialInv, EditorialTypeOK, Requests, Views, Rows
  <2>3. RequestHolds(c)
    BY DEF EditorialInv
  <2>4. /\ Exists(e) /\ r.view.version <= r.row.version /\ r.row.version <= draft[e].version
        /\ r.op = "edit" => r.row.approval = NoHash
        /\ r.op # "edit" => PublicationHash(r.row) = r.view.hash
                            /\ (r.row.version = draft[e].version => r.row = draft[e])
    BY <2>1, <2>3 DEF RequestHolds
  <2>5. draft'[e] # NoRow /\ draft[e].version <= draft'[e].version /\ draft[e].version \in Nat
        /\ draft'[e].version \in Nat
        /\ (draft'[e].version = draft[e].version => draft'[e] = draft[e])
    BY <1>2, <2>2, <2>4 DEF Exists
  <2>6. r.row.version <= draft'[e].version
        /\ (r.row.version = draft'[e].version => draft'[e].version = draft[e].version)
    BY <2>2, <2>4, <2>5
  <2>. HIDE DEF r
  <2>7. QED
    BY <2>1, <2>4, <2>5, <2>6 DEF RequestHolds, Exists, PublicationHash, Hash
<1>7. \A e \in Drafts : /\ revisions[e] \in Seq(Rows)
                        /\ e # d => revisions'[e] = revisions[e]
                        /\ revisions'[d] = Append(revisions[d], row)
  BY DEF EditorialInv, EditorialTypeOK, Store
<1>8. ASSUME NEW e \in Drafts PROVE HistoryHolds(e)'
  <2>1. CASE e = d
    <3>1. Len(revisions[d]) + 1 \in DOMAIN revisions'[d]
          /\ revisions'[d][Len(revisions[d]) + 1] = row
      BY <1>7
    <3>2. QED
      BY <1>1, <2>1, <3>1 DEF HistoryHolds
  <2>2. CASE e # d
    BY <1>1, <1>7, <2>2 DEF EditorialInv, HistoryHolds, Exists
  <2>3. QED
    BY <2>1, <2>2
<1>9. ApprovalIsExact'
  BY <1>1 DEF EditorialInv, ApprovalIsExact, Exists, PublicationHash, Hash
<1>10. ExportsApproved'
  <2>1. \A e \in Drafts : \A i \in DOMAIN revisions[e] :
          i \in DOMAIN revisions'[e] /\ revisions'[e][i] = revisions[e][i]
    BY <1>7
  <2>2. \A e \in exports : e.draft \in Drafts
    BY DEF EditorialInv, EditorialTypeOK, Exports
  <2>3. QED
    BY <2>1, <2>2 DEF EditorialInv, ExportsApproved, PublicationHash, Hash
<1>11. QED
  BY <1>4, <1>5, <1>6, <1>8, <1>9, <1>10 DEF EditorialInv

\* A handler that finishes without a write keeps the invariant; what it exports is the row
\* of the draft, whose approval is for exactly that copy.
LEMMA ExportedRow ==
  ASSUME EditorialInv, NEW c \in Callers, Export(c)
  PROVE  LET r == request[c] IN
         /\ r # Quiet /\ r.view.draft \in Drafts /\ r.row \in Rows /\ r.row = draft[r.view.draft]
         /\ Exists(r.view.draft)
         /\ PublicationHash(r.row) = r.view.hash /\ r.row.approval = r.view.hash
         /\ Ready(r.row)
         /\ exports' = exports \cup {[draft |-> r.view.draft, hash |-> r.view.hash]}
<1>. DEFINE r == request[c]
            d == r.view.draft
<1>1. r.op = "export" /\ MayExport(r) /\ r # Quiet
  BY DEF Export, Quiet
<1>2. /\ d \in Drafts /\ r.row \in Rows /\ r.row.version \in Nat /\ r.view.version \in Nat
  BY <1>1 DEF EditorialInv, EditorialTypeOK, Requests, Views, Rows
<1>3. /\ Exists(d) /\ r.view.version <= r.row.version /\ r.row.version <= draft[d].version
      /\ PublicationHash(r.row) = r.view.hash
      /\ r.row.version = draft[d].version => r.row = draft[d]
  BY <1>1 DEF EditorialInv, RequestHolds
<1>4. draft[d].version = r.view.version /\ draft[d].approval = r.view.hash /\ Ready(r.row)
  BY <1>1 DEF MayExport, Current
<1>5. r.row = draft[d]
  BY <1>2, <1>3, <1>4
<1>6. QED
  BY <1>1, <1>2, <1>3, <1>4, <1>5 DEF Export

LEMMA FinishKeeps ==
  ASSUME EditorialInv, NEW c \in Callers, Export(c) \/ Refuse(c)
  PROVE  EditorialInv'
<1>1. UNCHANGED <<source, view, draft, revisions>> /\ request' = [request EXCEPT ![c] = Quiet]
  BY DEF Export, Refuse, Finish
<1>2. ASSUME NEW b \in Callers PROVE ViewHolds(b)' /\ RequestHolds(b)'
  <2>1. request'[b] = request[b] \/ request'[b] = Quiet
    BY <1>1 DEF EditorialInv, EditorialTypeOK
  <2>2. QED
    BY <1>1, <2>1 DEF EditorialInv, ViewHolds, RequestHolds, Exists, PublicationHash, Hash
<1>3. ASSUME NEW e \in Drafts PROVE HistoryHolds(e)'
  BY <1>1 DEF EditorialInv, HistoryHolds, Exists
<1>4. ApprovalIsExact'
  BY <1>1 DEF EditorialInv, ApprovalIsExact, Exists, PublicationHash, Hash
<1>5. EditorialTypeOK' /\ ExportsApproved'
  <2>1. CASE Export(c)
    <3>. DEFINE r == request[c]
                d == r.view.draft
    <3>1. /\ d \in Drafts /\ r.row \in Rows /\ r.row = draft[d] /\ Exists(d)
          /\ PublicationHash(r.row) = r.view.hash /\ r.row.approval = r.view.hash
          /\ Ready(r.row) /\ exports' = exports \cup {[draft |-> d, hash |-> r.view.hash]}
      BY <2>1, ExportedRow
    <3>2. r.view.hash \in Hashes /\ r.view.hash[2] = r.row.copy
      BY <3>1, HashOfRow
    <3>3. \E i \in DOMAIN revisions[d] : revisions[d][i] = r.row
      BY <3>1 DEF EditorialInv, HistoryHolds
    <3>. HIDE DEF r
    <3>4. EditorialTypeOK'
      BY <1>1, <3>1, <3>2 DEF EditorialInv, EditorialTypeOK, Exports
    <3>5. ExportsApproved'
      BY <1>1, <3>1, <3>2, <3>3 DEF EditorialInv, ExportsApproved, Ready, PublicationHash, Hash
    <3>6. QED
      BY <3>4, <3>5
  <2>2. CASE Refuse(c)
    BY <1>1, <2>2 DEF EditorialInv, EditorialTypeOK, ExportsApproved, Refuse, PublicationHash, Hash
  <2>3. QED
    BY <2>1, <2>2
<1>6. QED
  BY <1>2, <1>3, <1>4, <1>5 DEF EditorialInv

\* Captures and archiving change no draft.
LEMMA LedgerKeeps ==
  ASSUME EditorialInv, LedgerStep
  PROVE  EditorialInv' /\ UNCHANGED <<draft, revisions, exports, view, request>>
<1>1. UNCHANGED <<draft, revisions, exports, view, request>>
  BY DEF LedgerStep, Archive, Revise
<1>2. source' \in [Sources -> [revision : Nat, archived : BOOLEAN]]
  <2>1. PICK s \in Sources : Archive(s) \/ \E revision \in 1..MaxRevision : Revise(s, revision)
    BY DEF LedgerStep
  <2>2. CASE Archive(s)
    <3>1. source[s] \in [revision : Nat, archived : BOOLEAN]
      BY DEF EditorialInv, EditorialTypeOK
    <3>2. [source[s] EXCEPT !.archived = ~@] \in [revision : Nat, archived : BOOLEAN]
      BY <3>1
    <3>3. QED
      BY <2>2, <3>2 DEF EditorialInv, EditorialTypeOK, Archive
  <2>3. CASE \E revision \in 1..MaxRevision : Revise(s, revision)
    <3>1. PICK revision \in 1..MaxRevision : Revise(s, revision)
      BY <2>3
    <3>2. revision \in Nat
      BY EditorialAssumption
    <3>3. source[s] \in [revision : Nat, archived : BOOLEAN]
      BY DEF EditorialInv, EditorialTypeOK
    <3>4. [source[s] EXCEPT !.revision = revision] \in [revision : Nat, archived : BOOLEAN]
      BY <3>2, <3>3
    <3>5. QED
      BY <3>1, <3>4 DEF EditorialInv, EditorialTypeOK, Revise
  <2>4. QED
    BY <2>1, <2>2, <2>3
<1>3. EditorialTypeOK'
  BY <1>1, <1>2 DEF EditorialInv, EditorialTypeOK
<1>4. QED
  BY <1>1, <1>3 DEF EditorialInv, ViewHolds, RequestHolds, HistoryHolds, ApprovalIsExact,
                    ExportsApproved, Exists, PublicationHash, Hash

\* A new view is of the draft as it is.
LEMMA PreviewKeeps ==
  ASSUME EditorialInv, NEW c \in Callers, NEW d \in Drafts, Preview(c, d)
  PROVE  EditorialInv'
<1>. DEFINE new == [draft |-> d, version |-> draft[d].version, hash |-> PublicationHash(draft[d])]
<1>1. Exists(d) /\ UNCHANGED <<source, draft, revisions, exports, request>>
      /\ view' = [view EXCEPT ![c] = new]
  BY DEF Preview
<1>2. draft[d] \in Rows
  BY <1>1, DraftRow DEF EditorialInv
<1>3. new \in Views /\ draft[d].version \in Nat
  BY <1>2, HashOfRow DEF Views, Rows
<1>4. ASSUME NEW b \in Callers PROVE ViewHolds(b)'
  <2>1. view'[b] = view[b] \/ view'[b] = new
    BY <1>1 DEF EditorialInv, EditorialTypeOK
  <2>2. QED
    BY <1>1, <1>3, <2>1 DEF EditorialInv, ViewHolds, Exists
<1>5. EditorialTypeOK'
  BY <1>1, <1>3 DEF EditorialInv, EditorialTypeOK
<1>6. ASSUME NEW b \in Callers PROVE RequestHolds(b)'
  BY <1>1 DEF EditorialInv, RequestHolds, Exists, PublicationHash, Hash
<1>7. QED
  BY <1>1, <1>4, <1>5, <1>6 DEF EditorialInv, HistoryHolds, ApprovalIsExact, ExportsApproved,
                                Exists, PublicationHash, Hash

\* A draft begins unapproved.
LEMMA CreateKeeps ==
  ASSUME EditorialInv, NEW c \in Callers, NEW d \in Drafts, NEW copy \in Copies,
         NEW dest \in Destinations, NEW part \in SUBSET Sources,
         CreateDraft(c, d, copy, dest, part)
  PROVE  EditorialInv'
<1>. DEFINE row == [version |-> 1, copy |-> copy, dest |-> dest, refs |-> Pinned(part),
                    approval |-> NoHash]
<1>1. Pinned(part) \in [Sources -> Nat]
  BY DEF Pinned, EditorialInv, EditorialTypeOK
<1>2. row \in Rows
  BY <1>1 DEF Rows
<1>3. draft[d] = NoRow /\ Store(d, row) /\ UNCHANGED <<source, exports, view, request>>
  BY DEF CreateDraft, Exists
<1>4. row.version = draft[d].version + 1 /\ row.approval = NoHash
  BY <1>3 DEF NoRow
<1>. HIDE DEF row
<1>5. QED
  BY <1>2, <1>3, <1>4, StoreKeeps

\* A write of a handler carries no approval but that of the copy it leaves in the draft.
LEMMA SaveKeeps ==
  ASSUME EditorialInv, NEW c \in Callers, Save(c)
  PROVE  EditorialInv'
<1>. DEFINE r == request[c]
            d == r.view.draft
            row == Written(r)
<1>1. /\ r.op \in {"edit", "approve"} /\ r # Quiet /\ Current(r) /\ Store(d, row)
      /\ UNCHANGED <<source, exports, view>> /\ request' = [request EXCEPT ![c] = Quiet]
  BY DEF Save, Finish, Quiet
<1>2. d \in Drafts /\ row \in Rows /\ row.version = draft[d].version + 1
  BY <1>1, WrittenType
<1>3. row.approval # NoHash => row.approval = PublicationHash(row)
  <2>1. /\ r.row \in Rows /\ r.row.version \in Nat /\ r.view.version \in Nat /\ Exists(d)
        /\ r.view.version <= r.row.version /\ r.row.version <= draft[d].version
        /\ r.op = "edit" => r.row.approval = NoHash
        /\ r.op # "edit" => /\ PublicationHash(r.row) = r.view.hash
                            /\ r.row.version = draft[d].version => r.row = draft[d]
    BY <1>1 DEF EditorialInv, EditorialTypeOK, Requests, Views, Rows, RequestHolds
  <2>2. draft[d] \in Rows
    BY <1>2, <2>1, DraftRow DEF EditorialInv
  <2>3. CASE r.op = "edit"
    <3>1. row = [r.row EXCEPT !.version = draft[d].version + 1]
      BY <2>3 DEF Written
    <3>2. row.approval = r.row.approval
      BY <2>1, <3>1 DEF Rows
    <3>3. QED
      BY <2>1, <2>3, <3>2
  <2>4. CASE r.op # "edit"
    <3>1. row = [draft[d] EXCEPT !.version = @ + 1, !.approval = r.view.hash]
      BY <2>4 DEF Written
    <3>2. row.approval = r.view.hash /\ row.copy = draft[d].copy /\ row.dest = draft[d].dest
      BY <2>2, <3>1 DEF Rows
    <3>3. draft[d].version = r.view.version
      BY <1>1 DEF Current
    <3>4. r.row = draft[d]
      BY <2>1, <2>4, <3>3
    <3>5. QED
      BY <2>1, <2>4, <3>2, <3>4 DEF PublicationHash, Hash
  <2>5. QED
    BY <2>3, <2>4
<1>. HIDE DEF row
<1>4. QED
  BY <1>1, <1>2, <1>3, StoreKeeps

LEMMA MoveKeeps ==
  ASSUME EditorialInv, Move
  PROVE  EditorialInv'
<1>1. CASE LedgerStep
  BY <1>1, LedgerKeeps
<1>2. ASSUME NEW c \in Callers, OwnerStep(c)
      PROVE  EditorialInv'
  <2>1. CASE \E d \in Drafts : Preview(c, d)
    BY <2>1, PreviewKeeps
  <2>2. CASE \E copy \in Copies, dest \in Destinations, part \in SUBSET Sources, d \in Drafts :
               CreateDraft(c, d, copy, dest, part)
    BY <2>2, CreateKeeps
  <2>3. CASE view[c] # NoView /\ BeginExport(c, view[c])
    <3>1. view[c] \in Views /\ Exists(view[c].draft)
          /\ view[c].version <= draft[view[c].draft].version
      BY <2>3 DEF EditorialInv, EditorialTypeOK, ViewHolds
    <3>2. QED
      BY <2>3, <3>1, BegunRequest, BegunKeeps
  <2>4. CASE \/ \E copy \in Copies, dest \in Destinations, part \in SUBSET Sources :
                  BeginEdit(c, copy, dest, part)
             \/ BeginApprove(c)
    BY <2>4, BegunRequest, BegunKeeps
  <2>5. QED
    BY <1>2, <2>1, <2>2, <2>3, <2>4 DEF OwnerStep
<1>3. ASSUME NEW c \in Callers,
             \E asked \in Views : Exists(asked.draft) /\ asked.version <= draft[asked.draft].version
                                  /\ BeginExport(c, asked)
      PROVE  EditorialInv'
  BY <1>3, BegunRequest, BegunKeeps
<1>4. QED
  BY <1>1, <1>2, <1>3, SaveKeeps, FinishKeeps DEF Move

LEMMA EditorialStart == EditorialInit => EditorialInv
BY DEF EditorialInit, EditorialInv, EditorialTypeOK, ViewHolds, RequestHolds, HistoryHolds,
       ApprovalIsExact, ExportsApproved, Exists

LEMMA StutterKeeps ==
  ASSUME EditorialInv, UNCHANGED editorialVars
  PROVE  EditorialInv'
BY DEF editorialVars, EditorialInv, EditorialTypeOK, ViewHolds, RequestHolds, HistoryHolds,
       ApprovalIsExact, ExportsApproved, Exists, PublicationHash, Hash

\* Only Export gives receipts, and only for the draft as it is.
LEMMA MoveExports ==
  ASSUME EditorialInv, Move \/ UNCHANGED editorialVars
  PROVE  /\ exports \subseteq exports'
         /\ \A e \in exports' \ exports : /\ draft[e.draft].approval = e.hash
                                          /\ PublicationHash(draft[e.draft]) = e.hash
                                          /\ Stale(draft[e.draft]) = {}
<1>1. CASE \E c \in Callers : Export(c)
  <2>1. PICK c \in Callers : Export(c)
    BY <1>1
  <2>2. QED
    BY <2>1, ExportedRow DEF Ready
<1>2. CASE exports' = exports
  BY <1>2
<1>3. QED
  BY <1>1, <1>2 DEF Move, editorialVars, LedgerStep, Archive, Revise, OwnerStep, Preview, BeginEdit,
                    CreateDraft, BeginApprove, BeginExport, Take, Save, Refuse

\* A draft is never deleted, and its version never falls.
LEMMA MoveGrows ==
  ASSUME EditorialInv, Move \/ UNCHANGED editorialVars, NEW d \in Drafts, Exists(d)
  PROVE  Exists(d)' /\ draft[d].version \in Nat /\ draft'[d].version \in Nat
         /\ draft[d].version <= draft'[d].version
<1>1. \A row \in Rows : row.version \in Nat
  BY DEF Rows
<1>2. draft[d] \in Rows
  BY DraftRow DEF EditorialInv
<1>3. CASE \E c \in Callers : Save(c)
  <2>1. PICK c \in Callers : Save(c)
    BY <1>3
  <2>. DEFINE e == request[c].view.draft
              row == Written(request[c])
  <2>2. request[c] # Quiet /\ request[c].op \in {"edit", "approve"} /\ Store(e, row)
    BY <2>1 DEF Save, Quiet
  <2>3. row \in Rows /\ row.version = draft[e].version + 1 /\ e \in Drafts
    BY <2>2, WrittenType
  <2>4. draft' = [draft EXCEPT ![e] = row]
    BY <2>2 DEF Store
  <2>. HIDE DEF row
  <2>5. CASE d = e
    BY <1>1, <1>2, <2>3, <2>4, <2>5, RowExists DEF EditorialInv, EditorialTypeOK, Exists
  <2>6. CASE d # e
    BY <1>1, <1>2, <2>3, <2>4, <2>6 DEF EditorialInv, EditorialTypeOK, Exists
  <2>7. QED
    BY <2>5, <2>6
<1>4. CASE draft'[d] = draft[d]
  BY <1>1, <1>2, <1>4 DEF Exists
<1>5. ASSUME NEW c \in Callers, NEW e \in Drafts, NEW copy \in Copies, NEW dest \in Destinations,
             NEW part \in SUBSET Sources, CreateDraft(c, e, copy, dest, part)
      PROVE  draft'[d] = draft[d]
  BY <1>5 DEF CreateDraft, Store, EditorialInv, EditorialTypeOK, Exists
<1>6. ASSUME NEW c \in Callers, OwnerStep(c) \/ Refuse(c) \/ Export(c)
      PROVE  draft'[d] = draft[d]
  BY <1>5, <1>6 DEF OwnerStep, Preview, BeginEdit, BeginApprove, BeginExport, Take, Export, Refuse
<1>7. ASSUME NEW c \in Callers, NEW asked \in Views, BeginExport(c, asked)
      PROVE  draft'[d] = draft[d]
  BY <1>7 DEF BeginExport, Take
<1>8. CASE LedgerStep \/ UNCHANGED editorialVars
  BY <1>4, <1>8, LedgerKeeps DEF editorialVars
<1>9. QED
  BY <1>3, <1>4, <1>6, <1>7, <1>8 DEF Move

------------------------------------------------------------------------------
(* The adapter. *)

\* The copies that an export has let out to the site.
Out == {copy \in Copies : \E d \in Drafts : [draft |-> d, hash |-> Hash(copy, Site)] \in exports}

\* What a run knows is of its draft and not newer, and what it waits for is its own export.
\* It has read articles that were exported, and writes an article once it is.
RunHolds(p) ==
  LET r == run[p] IN
  r # NoRun =>
    /\ Exists(r.draft)
    /\ r.pc # "preview" => r.version <= draft[r.draft].version /\ r.before \subseteq Out
    /\ r.pc = "export" /\ request[p] # Quiet =>
         /\ request[p].view.draft = r.draft /\ request[p].view.hash = AskedHash(p)
    /\ r.pc \in {"write", "validate"} => r.copy \in Out

PublisherInv ==
  /\ EditorialInv
  /\ TypeOK
  /\ \A p \in Publishers : RunHolds(p)
  /\ file \subseteq Out
  /\ \A i \in 1..HEAD : commits[i] \subseteq Out

LEMMA PublisherStart == Init => PublisherInv
<1>. SUFFICES ASSUME Init PROVE PublisherInv
  OBVIOUS
<1>1. EditorialInv
  BY EditorialStart DEF Init
<1>2. commits = <<{}>> /\ {} \in Collections /\ HEAD = 1 /\ commits[1] = {}
  BY DEF Init, SiteInit, Collections, HEAD
<1>3. commits \in Seq(Collections)
  BY <1>2
<1>4. TypeOK
  BY <1>1, <1>2, <1>3 DEF Init, SiteInit, TypeOK, EditorialInv, Receipts, NoReceipt, HEAD
<1>5. QED
  BY <1>1, <1>2, <1>4 DEF Init, SiteInit, PublisherInv, RunHolds

\* A run of the adapter asks for exports of what it has looked at.
LEMMA RunRow ==
  ASSUME TypeOK, NEW p \in Publishers, run[p].pc # "none"
  PROVE  /\ run[p] \in Runs /\ run[p] # NoRun
         /\ p \in Callers
         /\ run[p].draft \in Drafts /\ run[p].copy \in Copies /\ run[p].version \in Nat
         /\ run[p].before \in Collections /\ run[p].previous \in Receipts
         /\ AskedHash(p) \in Hashes
         /\ Key(p) \in Drafts \X Copies
         /\ After(p) \in Collections /\ run[p].copy \in After(p)
         /\ After(p) \subseteq run[p].before \cup {run[p].copy}
<1>1. run[p] \in Runs /\ run[p] # NoRun
  BY DEF TypeOK, NoRun
<1>2. QED
  BY <1>1, PublisherAssumption
  DEF Runs, AskedHash, Hash, Hashes, Key, After, MergeArticle, Collections

LEMMA NextMoves ==
  ASSUME PublisherInv, [Next]_vars
  PROVE  Move \/ UNCHANGED editorialVars
<1>1. ASSUME NEW p \in Publishers, RequestExport(p)
      PROVE  Move
  <2>. DEFINE asked == [draft |-> run[p].draft, version |-> run[p].version, hash |-> AskedHash(p)]
  <2>1. run[p].pc = "decide" /\ BeginExport(p, asked)
    BY <1>1 DEF RequestExport
  <2>2. asked \in Views /\ p \in Callers /\ run[p] # NoRun
    BY <2>1, RunRow DEF PublisherInv, Views
  <2>3. Exists(asked.draft) /\ asked.version <= draft[asked.draft].version
    BY <2>1, <2>2 DEF PublisherInv, RunHolds
  <2>. HIDE DEF asked
  <2>4. QED
    BY <2>1, <2>2, <2>3 DEF Move
<1>2. ASSUME NEW p \in Publishers, Exported(p)
      PROVE  Move
  BY <1>2, PublisherAssumption DEF Exported, Move
<1>3. ASSUME NEW p \in Publishers, Step(p), ~RequestExport(p), ~Exported(p)
      PROVE  UNCHANGED editorialVars
  BY <1>3 DEF Step, Launch, Look, Resume, WriteFile, Valid, Invalid, GitCommit, RecordCommit,
              Committed, Recheck, Push, RecordPush, Quit, Recorded
<1>4. CASE \E p \in Publishers : Crash(p)
  BY <1>4 DEF Crash
<1>5. CASE \E copy \in Copies : Withdraw(copy)
  BY <1>5 DEF Withdraw
<1>6. QED
  BY <1>1, <1>2, <1>3, <1>4, <1>5 DEF Next, Move, ServerStep, vars

\* A run that goes on stays well typed.
LEMMA RunEdits ==
  ASSUME NEW r \in Runs, NEW v \in Nat, NEW b \in Collections, NEW old \in Receipts
  PROVE  /\ \A pc \in {"preview", "decide", "export", "write", "validate", "commit", "record",
                       "push", "pushing", "note"} :
              [r EXCEPT !.pc = pc] \in Runs /\ [r EXCEPT !.pc = pc, !.previous = old] \in Runs
         /\ [r EXCEPT !.pc = "decide", !.version = v, !.before = b, !.previous = old] \in Runs
BY DEF Runs

\* A step of a run changes that run only, and keeps its types.
LEMMA RunStep ==
  ASSUME PublisherInv, NEW p \in Publishers, Step(p) \/ Crash(p)
  PROVE  /\ run' \in [Publishers -> Runs \cup {NoRun}]
         /\ \A q \in Publishers : q # p => run'[q] = run[q]
         /\ run'[p] # NoRun => run'[p] \in Runs
<1>1. CASE \E d \in Drafts, copy \in Copies : Launch(p, d, copy)
  <2>1. PICK d \in Drafts, copy \in Copies : Launch(p, d, copy)
    BY <1>1
  <2>2. [pc |-> "preview", draft |-> d, copy |-> copy, version |-> 0, before |-> {},
         previous |-> NoReceipt] \in Runs
    BY DEF Runs, Collections, NoReceipt, Receipts
  <2>3. QED
    BY <2>1, <2>2 DEF Launch, PublisherInv, TypeOK
<1>2. CASE End(p)
  BY <1>2 DEF End, PublisherInv, TypeOK
<1>3. CASE \E pc \in {"export", "write", "validate", "commit", "record", "push", "pushing", "note"} :
             Goto(p, pc) /\ run[p].pc # "none"
  <2>1. PICK pc \in {"export", "write", "validate", "commit", "record", "push", "pushing", "note"} :
               Goto(p, pc) /\ run[p].pc # "none"
    BY <1>3
  <2>2. run[p] \in Runs
    BY <2>1, RunRow DEF PublisherInv
  <2>3. [run[p] EXCEPT !.pc = pc] \in Runs
    BY <2>2 DEF Runs
  <2>4. QED
    BY <2>1, <2>3 DEF Goto, PublisherInv, TypeOK
<1>4. CASE Look(p)
  <2>1. run[p] \in Runs /\ Key(p) \in Drafts \X Copies /\ run[p].draft \in Drafts
    BY <1>4, RunRow DEF PublisherInv, Look
  <2>2. Exists(run[p].draft)
    BY <2>1, NotQuiet DEF PublisherInv, RunHolds
  <2>3. draft[run[p].draft].version \in Nat
    BY <2>1, <2>2, DraftRow DEF PublisherInv, TypeOK, Rows
  <2>4. file \in Collections /\ receipt[Key(p)] \in Receipts
    BY <2>1 DEF PublisherInv, TypeOK
  <2>5. [run[p] EXCEPT !.pc = "decide", !.version = draft[run[p].draft].version,
                       !.before = file, !.previous = receipt[Key(p)]] \in Runs
    BY <2>1, <2>3, <2>4 DEF Runs
  <2>6. run' = [run EXCEPT ![p] = [run[p] EXCEPT !.pc = "decide",
                 !.version = draft[run[p].draft].version, !.before = file,
                 !.previous = receipt[Key(p)]]]
    BY <1>4 DEF Look, PublisherInv, TypeOK
  <2>7. QED
    BY <2>5, <2>6 DEF PublisherInv, TypeOK
<1>5. CASE Valid(p)
  <2>1. run[p] \in Runs
    BY <1>5, RunRow DEF PublisherInv, Valid
  <2>2. [status |-> "written", commit |-> 0] \in Receipts
    BY DEF Receipts
  <2>3. [run[p] EXCEPT !.pc = "commit", !.previous = [status |-> "written", commit |-> 0]] \in Runs
    BY <2>1, <2>2 DEF Runs
  <2>4. run' = [run EXCEPT ![p] = [run[p] EXCEPT !.pc = "commit",
                 !.previous = [status |-> "written", commit |-> 0]]]
    BY <1>5 DEF Valid, PublisherInv, TypeOK
  <2>5. QED
    BY <2>3, <2>4 DEF PublisherInv, TypeOK
<1>6. CASE RecordCommit(p)
  <2>1. run[p] \in Runs /\ Key(p) \in Drafts \X Copies
    BY <1>6, RunRow DEF PublisherInv, RecordCommit
  <2>2. receipt'[Key(p)] = [status |-> "committed", commit |-> HEAD]
    BY <1>6, <2>1 DEF RecordCommit, Recorded, PublisherInv, TypeOK
  <2>3. receipt'[Key(p)] \in Receipts
    BY <2>2 DEF Receipts, HEAD, PublisherInv, TypeOK
  <2>4. [run[p] EXCEPT !.pc = "push", !.previous = receipt'[Key(p)]] \in Runs
    BY <2>1, <2>3 DEF Runs
  <2>5. run' = [run EXCEPT ![p] = [run[p] EXCEPT !.pc = "push", !.previous = receipt'[Key(p)]]]
    BY <1>6 DEF RecordCommit, PublisherInv, TypeOK
  <2>6. QED
    BY <2>4, <2>5 DEF PublisherInv, TypeOK
<1>7. QED
  BY <1>1, <1>2, <1>3, <1>4, <1>5, <1>6
  DEF Step, Crash, Resume, RequestExport, Exported, WriteFile, Invalid, GitCommit, Committed,
      Recheck, Push, RecordPush, Quit, NoRun

\* So do the checkout and the receipts.
LEMMA SiteType ==
  ASSUME PublisherInv, [Next]_vars
  PROVE  /\ file' \in Collections
         /\ commits' \in Seq(Collections)
         /\ pushed' \in 1..Len(commits')
         /\ receipt' \in [Drafts \X Copies -> Receipts]
         /\ crashes' \in Nat
<1>1. CASE UNCHANGED siteVars
  <2>1. crashes' \in Nat
    BY DEF PublisherInv, TypeOK, Next, Crash, Withdraw, vars
  <2>2. QED
    BY <1>1, <2>1 DEF siteVars, PublisherInv, TypeOK
<1>2. ASSUME NEW rows \in Collections, Commit(rows), pushed' = pushed
      PROVE  commits' \in Seq(Collections) /\ pushed' \in 1..Len(commits')
  BY <1>2 DEF Commit, PublisherInv, TypeOK
<1>3. CASE \E copy \in Copies : Withdraw(copy) /\ UNCHANGED crashes
  <2>1. PICK copy \in Copies : Withdraw(copy) /\ UNCHANGED crashes
    BY <1>3
  <2>2. file' \in Collections
    BY <2>1 DEF Withdraw, Collections, PublisherInv, TypeOK
  <2>3. QED
    BY <1>2, <2>1, <2>2 DEF Withdraw, PublisherInv, TypeOK
<1>4. ASSUME NEW p \in Publishers, Step(p), UNCHANGED crashes
      PROVE  /\ file' \in Collections
             /\ commits' \in Seq(Collections)
             /\ pushed' \in 1..Len(commits')
             /\ receipt' \in [Drafts \X Copies -> Receipts]
             /\ crashes' \in Nat
  <2>1. CASE WriteFile(p) \/ Invalid(p)
    BY <1>4, <2>1, RunRow DEF WriteFile, Invalid, PublisherInv, TypeOK
  <2>2. CASE Valid(p)
    BY <1>4, <2>2 DEF Valid, PublisherInv, TypeOK, Receipts
  <2>3. CASE GitCommit(p)
    BY <1>2, <1>4, <2>3 DEF GitCommit, PublisherInv, TypeOK
  <2>4. CASE RecordCommit(p) \/ RecordPush(p)
    <3>1. run[p].previous.commit \in Nat /\ HEAD \in Nat
      BY <2>4, RunRow DEF RecordCommit, RecordPush, PublisherInv, TypeOK, Receipts, HEAD
    <3>2. PICK status \in {"committed", "pushed"} : Recorded(p, status)
      BY <2>4 DEF RecordCommit, RecordPush
    <3>3. [status |-> status, commit |-> IF status = "committed" THEN HEAD
                                         ELSE run[p].previous.commit] \in Receipts
      BY <3>1 DEF Receipts
    <3>4. QED
      BY <1>4, <3>2, <3>3 DEF Recorded, PublisherInv, TypeOK
  <2>5. CASE Push(p)
    BY <1>4, <2>5 DEF Push, HEAD, PublisherInv, TypeOK
  <2>6. QED
    BY <1>1, <1>4, <2>1, <2>2, <2>3, <2>4, <2>5
    DEF Step, Launch, Look, Resume, RequestExport, Exported, Committed, Recheck, Quit
<1>5. QED
  BY <1>1, <1>3, <1>4 DEF Next, Crash, siteVars, vars

LEMMA PublisherType ==
  ASSUME PublisherInv, [Next]_vars
  PROVE  TypeOK' /\ EditorialInv'
<1>1. EditorialInv'
  BY NextMoves, MoveKeeps, StutterKeeps DEF PublisherInv
<1>2. run' \in [Publishers -> Runs \cup {NoRun}]
  BY RunStep DEF Next, vars, Withdraw, PublisherInv, TypeOK
<1>3. QED
  BY <1>1, <1>2, SiteType DEF TypeOK, EditorialInv

LEMMA OutGrows ==
  ASSUME PublisherInv, [Next]_vars
  PROVE  Out \subseteq Out'
BY NextMoves, MoveExports DEF PublisherInv, Out, Hash

\* What a run waits for is taken away by its answer only.
LEMMA Awaits ==
  ASSUME PublisherInv, [Next]_vars, NEW q \in Publishers,
         run'[q] = run[q], run[q].pc = "export"
  PROVE  request'[q] = request[q] \/ request'[q] = Quiet
<1>1. q \in Callers /\ run[q] # NoRun
  BY RunRow DEF PublisherInv
<1>2. ASSUME NEW c \in Callers, Save(c) \/ Refuse(c) \/ Export(c)
      PROVE  request'[q] = request[q] \/ request'[q] = Quiet
  BY <1>1, <1>2 DEF Save, Refuse, Export, Finish, PublisherInv, EditorialInv, EditorialTypeOK
<1>3. ASSUME NEW c \in Callers \ Publishers, OwnerStep(c)
      PROVE  request'[q] = request[q]
  <2>1. CASE \E d \in Drafts : Preview(c, d)
    BY <2>1 DEF Preview
  <2>2. CASE \E rest : request' = [request EXCEPT ![c] = rest]
    BY <1>1, <1>3, <2>2 DEF PublisherInv, EditorialInv, EditorialTypeOK
  <2>3. QED
    BY <1>3, <2>1, <2>2 DEF OwnerStep, CreateDraft, BeginEdit, BeginApprove, BeginExport, Take
<1>4. ASSUME NEW p \in Publishers, Step(p) \/ Crash(p), request' # request
      PROVE  request'[q] = request[q]
  <2>1. CASE RequestExport(p)
    <3>1. run'[p].pc = "export" /\ run[p].pc = "decide"
      BY <2>1 DEF RequestExport, Goto, PublisherInv, TypeOK
    <3>2. p # q
      BY <3>1
    <3>3. QED
      BY <1>1, <2>1, <3>2
      DEF RequestExport, BeginExport, Take, PublisherInv, EditorialInv, EditorialTypeOK
  <2>2. CASE Exported(p)
    <3>1. run'[p].pc = "write" /\ run[p].pc = "export"
      BY <2>2 DEF Exported, Goto, PublisherInv, TypeOK
    <3>2. QED
      BY <1>1, <2>2, <3>1
      DEF Exported, Export, Finish, PublisherInv, EditorialInv, EditorialTypeOK
  <2>3. QED
    BY <1>4, <2>1, <2>2 DEF Step, Launch, Look, Resume, WriteFile, Valid, Invalid, GitCommit,
          RecordCommit, Committed, Recheck, Push, RecordPush, Quit, Recorded, Crash, editorialVars
<1>5. CASE LedgerStep \/ (\E copy \in Copies : Withdraw(copy)) \/ UNCHANGED vars
  BY <1>5, LedgerKeeps DEF Withdraw, vars, editorialVars, PublisherInv
<1>6. QED
  BY <1>2, <1>3, <1>4, <1>5 DEF Next, ServerStep

\* A run that this step leaves alone still holds what it knows.
LEMMA OthersHold ==
  ASSUME PublisherInv, [Next]_vars, NEW q \in Publishers, run'[q] = run[q]
  PROVE  RunHolds(q)'
<1>. SUFFICES ASSUME run[q] # NoRun PROVE RunHolds(q)'
  BY DEF RunHolds
<1>1. run[q] \in Runs /\ run[q].draft \in Drafts /\ run[q].version \in Nat /\ RunHolds(q)
  BY DEF PublisherInv, TypeOK, Runs
<1>2. Exists(run[q].draft)' /\ (run[q].pc # "preview" =>
                                  run[q].version <= draft'[run[q].draft].version)
  <2>. DEFINE d == run[q].draft
  <2>1. d \in Drafts /\ Exists(d)
    BY <1>1 DEF RunHolds
  <2>2. draft'[d] # NoRow /\ draft[d].version \in Nat /\ draft'[d].version \in Nat
        /\ draft[d].version <= draft'[d].version
    BY <2>1, NextMoves, MoveGrows DEF PublisherInv, Exists
  <2>3. QED
    BY <1>1, <2>2 DEF RunHolds, Exists
<1>3. AskedHash(q)' = AskedHash(q)
  BY DEF AskedHash, Hash
<1>4. run[q].pc = "export" => request'[q] = request[q] \/ request'[q] = Quiet
  BY Awaits
<1>5. QED
  BY <1>1, <1>2, <1>3, <1>4, OutGrows DEF RunHolds

\* The run that this step moves knows what it did.
LEMMA RunKeeps ==
  ASSUME PublisherInv, [Next]_vars, NEW p \in Publishers, Step(p) \/ Crash(p)
  PROVE  RunHolds(p)'
<1>. SUFFICES ASSUME run'[p] # NoRun PROVE RunHolds(p)'
  BY DEF RunHolds
<1>1. run'[p] \in Runs /\ run'[p].draft \in Drafts
  BY RunStep DEF Runs
<1>2. CASE \E d \in Drafts, copy \in Copies : Launch(p, d, copy)
  <2>1. PICK d \in Drafts, copy \in Copies : Launch(p, d, copy)
    BY <1>2
  <2>2. run'[p].pc = "preview" /\ run'[p].draft = d /\ Exists(d) /\ draft' = draft
    BY <2>1 DEF Launch, editorialVars, PublisherInv, TypeOK
  <2>3. QED
    BY <2>2 DEF RunHolds, Exists
<1>3. CASE run[p].pc # "none"
  <2>1. run[p] \in Runs /\ run[p] # NoRun /\ run[p].draft \in Drafts /\ run[p].version \in Nat
        /\ RunHolds(p) /\ After(p) \subseteq run[p].before \cup {run[p].copy}
        /\ run[p].copy \in After(p) /\ run[p].copy \in Copies
    BY <1>3, RunRow DEF PublisherInv
  <2>2. /\ Exists(run[p].draft) /\ draft'[run[p].draft] # NoRow
        /\ draft[run[p].draft].version \in Nat /\ draft'[run[p].draft].version \in Nat
        /\ draft[run[p].draft].version <= draft'[run[p].draft].version
    <3>. DEFINE d == run[p].draft
    <3>1. d \in Drafts /\ Exists(d)
      BY <2>1 DEF RunHolds
    <3>2. QED
      BY <3>1, NextMoves, MoveGrows DEF PublisherInv, Exists
  <2>3. CASE Look(p)
    <3>1. run'[p] = [run[p] EXCEPT !.pc = "decide", !.version = draft[run[p].draft].version,
                                   !.before = file, !.previous = receipt[Key(p)]]
          /\ draft' = draft /\ exports' = exports
      BY <2>3 DEF Look, editorialVars, PublisherInv, TypeOK
    <3>2. run'[p].pc = "decide" /\ run'[p].draft = run[p].draft /\ run'[p].before = file
          /\ run'[p].version = draft[run[p].draft].version
      BY <2>1, <3>1 DEF Runs
    <3>3. QED
      BY <2>2, <3>1, <3>2 DEF RunHolds, Exists, PublisherInv, Out, Hash
  <2>4. CASE /\ run'[p].draft = run[p].draft /\ run'[p].copy = run[p].copy
             /\ run'[p].version = run[p].version /\ run'[p].before = run[p].before
             /\ run[p].pc # "preview"
             /\ run'[p].pc \in {"validate", "write"} => run[p].copy \in Out'
             /\ run'[p].pc = "export" => /\ request'[p].view.draft = run[p].draft
                                         /\ request'[p].view.hash = AskedHash(p)
    <3>1. run[p].version <= draft'[run[p].draft].version /\ run[p].before \subseteq Out'
      BY <2>1, <2>2, <2>4, OutGrows DEF RunHolds
    <3>2. AskedHash(p)' = AskedHash(p)
      BY <2>4 DEF AskedHash, Hash
    <3>3. QED
      BY <2>2, <2>4, <3>1, <3>2 DEF RunHolds, Exists
  <2>5. ASSUME NEW pc \in {"export", "write", "validate", "commit", "record", "push", "pushing",
                           "note"}, Goto(p, pc)
        PROVE  /\ run'[p].draft = run[p].draft /\ run'[p].copy = run[p].copy
               /\ run'[p].version = run[p].version /\ run'[p].before = run[p].before
               /\ run'[p].pc = pc
    <3>1. run'[p] = [run[p] EXCEPT !.pc = pc]
      BY <2>5 DEF Goto, PublisherInv, TypeOK
    <3>2. QED
      BY <2>1, <3>1 DEF Runs
  <2>6. CASE RequestExport(p)
    <3>. DEFINE asked == [draft |-> run[p].draft, version |-> run[p].version, hash |-> AskedHash(p)]
    <3>1. run[p].pc = "decide" /\ Goto(p, "export") /\ BeginExport(p, asked) /\ p \in Callers
      BY <2>1, <2>6, RunRow DEF RequestExport, PublisherInv
    <3>2. request'[p].view = asked
      BY <3>1 DEF BeginExport, Take, PublisherInv, EditorialInv, EditorialTypeOK
    <3>3. QED
      BY <2>4, <2>5, <3>1, <3>2
  <2>7. CASE Exported(p)
    <3>1. run[p].pc = "export" /\ Goto(p, "write") /\ Export(p) /\ p \in Callers
      BY <2>1, <2>7, RunRow DEF Exported, PublisherInv
    <3>2. /\ request[p] # Quiet
          /\ exports' = exports \cup {[draft |-> request[p].view.draft,
                                       hash |-> request[p].view.hash]}
      BY <3>1, ExportedRow DEF PublisherInv
    <3>3. request[p].view.draft = run[p].draft /\ request[p].view.hash = AskedHash(p)
      BY <2>1, <3>1, <3>2 DEF RunHolds
    <3>4. [draft |-> run[p].draft, hash |-> Hash(run[p].copy, Site)] \in exports'
      BY <3>2, <3>3 DEF AskedHash
    <3>5. run[p].copy \in Out'
      BY <2>1, <3>4 DEF Out, Hash
    <3>6. QED
      BY <2>4, <2>5, <3>1, <3>5
  <2>8. CASE Resume(p) \/ WriteFile(p) \/ GitCommit(p) \/ Committed(p) \/ Recheck(p) \/ Push(p)
    <3>1. PICK pc \in {"validate", "commit", "record", "push", "pushing", "note"} :
            Goto(p, pc) /\ run[p].pc # "preview" /\ (pc = "validate" => run[p].pc = "write")
      BY <2>8 DEF Resume, WriteFile, GitCommit, Committed, Recheck, Push
    <3>2. pc = "validate" => run[p].copy \in Out'
      BY <2>1, <3>1, OutGrows DEF RunHolds
    <3>3. QED
      BY <2>4, <2>5, <3>1, <3>2
  <2>9. CASE Valid(p) \/ RecordCommit(p)
    <3>. PICK pc \in {"commit", "push"} :
            \E new : run' = [run EXCEPT ![p].pc = pc, ![p].previous = new] /\ run[p].pc # "preview"
      BY <2>9 DEF Valid, RecordCommit
    <3>1. PICK new : run' = [run EXCEPT ![p].pc = pc, ![p].previous = new] /\ run[p].pc # "preview"
      OBVIOUS
    <3>2. run'[p] = [run[p] EXCEPT !.pc = pc, !.previous = new]
      BY <3>1 DEF PublisherInv, TypeOK
    <3>3. /\ run'[p].draft = run[p].draft /\ run'[p].copy = run[p].copy /\ run'[p].pc = pc
          /\ run'[p].version = run[p].version /\ run'[p].before = run[p].before
      BY <2>1, <3>2 DEF Runs
    <3>4. QED
      BY <2>4, <3>1, <3>3
  <2>10. CASE End(p)
    BY <2>10 DEF End, PublisherInv, TypeOK
  <2>11. QED
    BY <1>2, <2>3, <2>6, <2>7, <2>8, <2>9, <2>10
    DEF Step, Crash, Invalid, RecordPush, Quit
<1>4. QED
  BY <1>2, <1>3 DEF Step, Crash, Look, Resume, RequestExport, Exported, WriteFile,
     Valid, Invalid, GitCommit, RecordCommit, Committed, Recheck, Push, RecordPush, Quit

\* What is in the worktree, or in a commit, was in one of them before or is an article that
\* its run had exported.
LEMMA PublisherStep ==
  ASSUME PublisherInv, [Next]_vars
  PROVE  PublisherInv'
<1>1. TypeOK' /\ EditorialInv' /\ Out \subseteq Out'
  BY PublisherType, OutGrows
<1>2. ASSUME NEW q \in Publishers PROVE RunHolds(q)'
  <2>1. CASE run'[q] = run[q]
    BY <2>1, OthersHold
  <2>2. CASE run'[q] # run[q]
    <3>1. PICK p \in Publishers : Step(p) \/ Crash(p)
      BY <2>2 DEF Next, vars, Withdraw
    <3>2. p = q
      BY <2>2, <3>1, RunStep
    <3>3. QED
      BY <3>1, <3>2, RunKeeps
  <2>3. QED
    BY <2>1, <2>2
<1>3. file' \subseteq Out'
  <2>1. CASE file' \subseteq file
    BY <1>1, <2>1 DEF PublisherInv
  <2>2. ASSUME NEW p \in Publishers, WriteFile(p)
        PROVE  file' \subseteq Out'
    BY <1>1, <2>2, RunRow DEF WriteFile, PublisherInv, RunHolds
  <2>3. ASSUME NEW p \in Publishers, Invalid(p)
        PROVE  file' \subseteq Out'
    BY <1>1, <2>3, RunRow DEF Invalid, PublisherInv, RunHolds
  <2>4. QED
    BY <2>1, <2>2, <2>3
    DEF Next, Step, Withdraw, Launch, Look, Resume, RequestExport, Exported, Valid, GitCommit,
        RecordCommit, Committed, Recheck, Push, RecordPush, Quit, Recorded, Crash, siteVars, vars
<1>4. commits' = commits \/ \E rows \in {file, file'} : commits' = Append(commits, rows)
  BY DEF Next, Step, Withdraw, Launch, Look, Resume, RequestExport, Exported, WriteFile, Valid,
         Invalid, GitCommit, Commit, RecordCommit, Committed, Recheck, Push, RecordPush, Quit,
         Recorded, Crash, siteVars, vars
<1>5. ASSUME NEW i \in 1..Len(commits') PROVE commits'[i] \subseteq Out'
  <2>1. commits \in Seq(Collections) /\ file \subseteq Out'
    BY <1>1 DEF PublisherInv, TypeOK
  <2>2. CASE commits' = commits
    BY <1>1, <1>5, <2>2 DEF PublisherInv, HEAD
  <2>3. CASE \E rows \in {file, file'} : commits' = Append(commits, rows)
    <3>1. PICK rows \in {file, file'} : commits' = Append(commits, rows)
      BY <2>3
    <3>2. commits'[i] = rows \/ (i \in 1..Len(commits) /\ commits'[i] = commits[i])
      BY <1>5, <2>1, <3>1
    <3>3. QED
      BY <1>1, <1>3, <2>1, <3>2 DEF PublisherInv, HEAD
  <2>4. QED
    BY <1>4, <2>2, <2>3
<1>6. QED
  BY <1>1, <1>2, <1>3, <1>5 DEF PublisherInv, HEAD

\* The invariant holds, whatever the owner, the runs and the ledger do.
LEMMA PublisherHolds == Spec => []PublisherInv
<1>1. PublisherInv /\ [Next]_vars => PublisherInv'
  BY PublisherStep
<1>2. QED
  BY <1>1, PublisherStart, PTL DEF Spec

(* The drafts, the requests, the runs and the checkout are well typed; an approval in force  *)
(* is for the copy the draft holds, and every receipt for a copy that was approved as it is  *)
(* and passed the privacy checks, in whatever order handlers read and write.                 *)
THEOREM PublisherTypeCorrect == Spec => []TypesOK
<1>1. PublisherInv => TypesOK
  BY DEF PublisherInv, EditorialInv, TypesOK
<1>2. QED
  BY <1>1, PublisherHolds, PTL

\* The endpoints by themselves: nothing runs beside them.
EndpointsInv == PublisherInv /\ (instance = "endpoints" => \A p \in Publishers : run[p] = NoRun)

LEMMA EndpointsStart == PublishingInit => EndpointsInv
BY PublisherStart DEF PublishingInit, EndpointsInv, Init, SiteInit

LEMMA EndpointsKeep ==
  ASSUME EndpointsInv, EndpointsNext
  PROVE  EndpointsInv'
<1>1. Move /\ UNCHANGED <<siteVars, run, crashes>> /\ instance = "endpoints"
  BY DEF EndpointsNext, EditorialNext, ServerStep, Move
<1>2. EditorialInv' /\ exports \subseteq exports'
  BY <1>1, MoveKeeps, MoveExports DEF EndpointsInv, PublisherInv
<1>3. TypeOK'
  BY <1>1, <1>2 DEF EndpointsInv, PublisherInv, TypeOK, EditorialInv, siteVars
<1>4. Out \subseteq Out'
  BY <1>2 DEF Out
<1>5. \A p \in Publishers : run'[p] = NoRun
  BY <1>1 DEF EndpointsInv
<1>6. \A p \in Publishers : RunHolds(p)'
  BY <1>5 DEF RunHolds
<1>7. PublisherInv'
  BY <1>1, <1>2, <1>3, <1>4, <1>6 DEF EndpointsInv, PublisherInv, siteVars, HEAD
<1>8. QED
  BY <1>5, <1>7 DEF EndpointsInv

(* So it is where they run by themselves, beside no adapter, and beside one within bounds.   *)
THEOREM PublishingCorrect == Publishing => [](TypesOK /\ SiteIsExported)
<1>1. EndpointsInv => TypesOK /\ SiteIsExported
  BY DEF EndpointsInv, PublisherInv, EditorialInv, TypesOK, SiteIsExported, Out
<1>2. EndpointsInv /\ [PublisherNext \/ EndpointsNext]_<<vars, instance>> => EndpointsInv'
  <2>1. ASSUME EndpointsInv, PublisherNext PROVE EndpointsInv'
    BY <2>1, PublisherStep DEF EndpointsInv, PublisherNext
  <2>2. ASSUME EndpointsInv, UNCHANGED <<vars, instance>> PROVE EndpointsInv'
    BY <2>2, PublisherStep DEF EndpointsInv, vars
  <2>3. QED
    BY <2>1, <2>2, EndpointsKeep
<1>3. QED
  BY <1>1, <1>2, EndpointsStart, PTL DEF Publishing

(* Whatever a commit of the site holds was exported for it, by any number of runs stopped    *)
(* anywhere.                                                                                 *)
THEOREM SiteCorrect == Spec => []SiteIsExported
<1>1. PublisherInv => SiteIsExported
  BY DEF PublisherInv, SiteIsExported, Out
<1>2. QED
  BY <1>1, PublisherHolds, PTL

(* A receipt is given only while the draft itself is approved for exactly that copy and      *)
(* rests on sources as they are.                                                             *)
THEOREM ExportsAreCurrent == Spec => ExportsCurrent
<1>1. PublisherInv /\ [Next]_vars =>
        [\A e \in exports' \ exports :
           /\ draft[e.draft].approval = e.hash
           /\ PublicationHash(draft[e.draft]) = e.hash
           /\ Stale(draft[e.draft]) = {}]_editorialVars
  BY NextMoves, MoveExports DEF PublisherInv
<1>2. QED
  BY <1>1, PublisherHolds, PTL DEF Spec, ExportsCurrent

------------------------------------------------------------------------------
(* The receipts.  Nothing keeps two runs of publish.py away from one checkout: with two, one *)
(* commits what the other wrote.  These results are about one run at a time.                *)

OnePublisher == \A p, q \in Publishers : p = q

\* What the run knows of the checkout, which nobody else changes meanwhile.
CheckoutHolds(p) ==
  LET r == run[p] IN
  /\ r.pc \in {"decide", "export", "write"} => r.before = file
  /\ r.pc = "decide" => r.previous = receipt[Key(p)]
  /\ r.pc \in {"export", "write", "validate"} => r.before = commits[HEAD] /\ r.before # After(p)
  /\ r.pc = "validate" => file = After(p)
  /\ r.pc = "commit" => r.copy \in file
  /\ r.pc = "record" => r.copy \in commits[HEAD]
  /\ r.pc \notin {"none", "preview"} /\ r.previous.commit # 0 =>
       r.previous.commit <= HEAD /\ r.copy \in commits[r.previous.commit]
  /\ r.pc \in {"push", "pushing", "note"} => r.previous.commit # 0
  /\ r.pc = "note" => r.previous.commit <= pushed

CheckoutInv == (\A p \in Publishers : CheckoutHolds(p)) /\ ReceiptsTrue

\* A run that goes on keeps what it was asked for.
LEMMA GotoKeeps ==
  ASSUME PublisherInv, NEW p \in Publishers, run[p].pc # "none",
         NEW pc \in {"export", "write", "validate", "commit", "record", "push", "pushing", "note"},
         Goto(p, pc)
  PROVE  /\ run'[p].pc = pc /\ run'[p].copy = run[p].copy /\ run'[p].draft = run[p].draft
         /\ run'[p].before = run[p].before /\ run'[p].previous = run[p].previous
         /\ Key(p)' = Key(p) /\ After(p)' = After(p)
<1>1. run[p] \in Runs
  BY RunRow DEF PublisherInv
<1>2. run'[p] = [run[p] EXCEPT !.pc = pc]
  BY DEF Goto, PublisherInv, TypeOK
<1>3. /\ run'[p].pc = pc /\ run'[p].copy = run[p].copy /\ run'[p].draft = run[p].draft
      /\ run'[p].before = run[p].before /\ run'[p].previous = run[p].previous
  BY <1>1, <1>2 DEF Runs
<1>4. QED
  BY <1>3 DEF Key, After, MergeArticle

\* Where the site and the runs are left alone, all this is kept.
LEMMA CheckoutIdle ==
  ASSUME CheckoutInv, UNCHANGED <<siteVars, run>>
  PROVE  CheckoutInv'
BY DEF CheckoutInv, CheckoutHolds, ReceiptsTrue, siteVars, Key, After, MergeArticle, HEAD

\* Commits are only added.
LEMMA CommitKeeps ==
  ASSUME PublisherInv, NEW rows \in Collections, Commit(rows)
  PROVE  /\ HEAD \in Nat /\ HEAD' = HEAD + 1 /\ commits'[HEAD'] = rows
         /\ \A i \in Nat : i # 0 /\ i <= HEAD => commits'[i] = commits[i]
BY DEF Commit, HEAD, PublisherInv, TypeOK

\* A receipt's commit is a number.
LEMMA ReceiptNat ==
  ASSUME PublisherInv
  PROVE  /\ \A k \in Drafts \X Copies : receipt[k].commit \in Nat
         /\ \A p \in Publishers : run[p].pc # "none" => run[p].previous.commit \in Nat
         /\ HEAD \in Nat /\ pushed \in Nat /\ pushed <= HEAD
<1>1. \A r \in Receipts : r.commit \in Nat
  BY DEF Receipts
<1>2. QED
  BY <1>1, RunRow DEF PublisherInv, TypeOK, HEAD

\* The owner's own commit, with no run about.
LEMMA CheckoutWithdraw ==
  ASSUME PublisherInv, CheckoutInv, NEW copy \in Copies, Withdraw(copy)
  PROVE  CheckoutInv'
<1>1. file' \in Collections /\ Commit(file') /\ UNCHANGED <<pushed, receipt, run>>
  BY DEF Withdraw, PublisherInv, TypeOK, Collections
<1>2. \A p \in Publishers : run'[p].pc = "none"
  BY <1>1 DEF Withdraw, NoRun
<1>3. \A p \in Publishers : CheckoutHolds(p)'
  BY <1>2 DEF CheckoutHolds
<1>4. ReceiptsTrue'
  BY <1>1, CommitKeeps, ReceiptNat DEF CheckoutInv, ReceiptsTrue
<1>5. QED
  BY <1>3, <1>4 DEF CheckoutInv

LEMMA CheckoutRun ==
  ASSUME OnePublisher, PublisherInv, CheckoutInv, NEW p \in Publishers, Step(p) \/ Crash(p)
  PROVE  CheckoutInv'
<1>. DEFINE r == run[p]
<1>1. CheckoutHolds(p) /\ ReceiptsTrue
  BY DEF CheckoutInv
<1>2. ASSUME CheckoutHolds(p)', ReceiptsTrue'
      PROVE  CheckoutInv'
  BY <1>2 DEF OnePublisher, CheckoutInv
<1>3. CASE \/ \E d \in Drafts, copy \in Copies : Launch(p, d, copy)
           \/ Look(p) \/ Resume(p) \/ RequestExport(p) \/ Exported(p) \/ Committed(p)
           \/ Recheck(p) \/ Quit(p) \/ Crash(p)
  <2>. UNCHANGED siteVars
    BY <1>3 DEF Launch, Look, Resume, RequestExport, Exported, Committed, Recheck, Quit, Crash
  <2>1. ReceiptsTrue'
    BY <1>1 DEF ReceiptsTrue, siteVars, HEAD
  <2>2. UNCHANGED <<file, commits, pushed, receipt, HEAD>>
    BY DEF siteVars, HEAD
  <2>3. CASE \/ \E d \in Drafts, copy \in Copies : Launch(p, d, copy)
             \/ End(p)
    <3>1. run'[p].pc \in {"none", "preview"}
      BY <2>3 DEF Launch, End, PublisherInv, TypeOK, NoRun
    <3>2. QED
      BY <1>2, <2>1, <3>1 DEF CheckoutHolds
  <2>4. CASE Look(p)
    <3>1. run[p] \in Runs /\ Key(p) \in Drafts \X Copies
      BY <2>4, RunRow DEF Look, PublisherInv
    <3>2. run'[p] = [run[p] EXCEPT !.pc = "decide", !.version = draft[run[p].draft].version,
                                   !.before = file, !.previous = receipt[Key(p)]]
      BY <2>4 DEF Look, PublisherInv, TypeOK
    <3>3. /\ run'[p].pc = "decide" /\ run'[p].before = file /\ run'[p].previous = receipt[Key(p)]
          /\ run'[p].copy = run[p].copy /\ run'[p].draft = run[p].draft
      BY <3>1, <3>2 DEF Runs
    <3>4. Key(p)' = Key(p) /\ Key(p)[2] = run[p].copy
      BY <3>3 DEF Key
    <3>5. QED
      BY <1>1, <1>2, <2>1, <2>2, <3>1, <3>3, <3>4 DEF CheckoutHolds, ReceiptsTrue
  <2>5. CASE Resume(p)
    <3>1. r.pc = "decide" /\ Goto(p, "commit") /\ r.before = After(p)
      BY <2>5 DEF Resume
    <3>2. r.copy \in After(p)
      BY <3>1, RunRow DEF PublisherInv
    <3>3. QED
      BY <1>1, <1>2, <2>1, <2>2, <3>1, <3>2, GotoKeeps DEF CheckoutHolds
  <2>6. CASE RequestExport(p)
    <3>1. r.pc = "decide" /\ Goto(p, "export") /\ r.before # After(p) /\ ~Dirty
      BY <2>6 DEF RequestExport, OwnRetry
    <3>2. QED
      BY <1>1, <1>2, <2>1, <2>2, <3>1, GotoKeeps DEF CheckoutHolds, Dirty
  <2>7. CASE Exported(p)
    <3>1. r.pc = "export" /\ Goto(p, "write")
      BY <2>7 DEF Exported
    <3>2. QED
      BY <1>1, <1>2, <2>1, <2>2, <3>1, GotoKeeps DEF CheckoutHolds
  <2>8. CASE Committed(p) \/ Recheck(p)
    <3>1. PICK pc \in {"push", "pushing"} :
            Goto(p, pc) /\ r.pc \in {"commit", "push"} /\ (r.pc = "commit" => r.previous.commit # 0)
      BY <2>8 DEF Committed, Recheck
    <3>2. QED
      BY <1>1, <1>2, <2>1, <2>2, <3>1, GotoKeeps DEF CheckoutHolds
  <2>9. QED
    BY <1>3, <2>3, <2>4, <2>5, <2>6, <2>7, <2>8 DEF Quit, Crash
<1>4. CASE WriteFile(p)
  <2>1. r.pc = "write" /\ Goto(p, "validate") /\ file' = After(p)
        /\ UNCHANGED <<commits, pushed, receipt>>
    BY <1>4 DEF WriteFile
  <2>2. UNCHANGED HEAD
    BY <2>1 DEF HEAD
  <2>3. ReceiptsTrue'
    BY <1>1, <2>1, <2>2 DEF ReceiptsTrue
  <2>4. QED
    BY <1>1, <1>2, <2>1, <2>2, <2>3, GotoKeeps DEF CheckoutHolds
<1>5. CASE Valid(p)
  <2>. DEFINE written == [status |-> "written", commit |-> 0]
  <2>1. /\ r.pc = "validate" /\ receipt' = [receipt EXCEPT ![Key(p)] = written]
        /\ run' = [run EXCEPT ![p].pc = "commit", ![p].previous = written]
        /\ UNCHANGED <<file, commits, pushed>>
    BY <1>5 DEF Valid
  <2>2. UNCHANGED HEAD
    BY <2>1 DEF HEAD
  <2>3. r \in Runs /\ r.copy \in After(p)
    BY <2>1, RunRow DEF PublisherInv
  <2>4. run'[p] = [r EXCEPT !.pc = "commit", !.previous = written]
    BY <2>1 DEF PublisherInv, TypeOK
  <2>5. run'[p].pc = "commit" /\ run'[p].copy = r.copy /\ run'[p].previous.commit = 0
    BY <2>3, <2>4 DEF Runs
  <2>6. ReceiptsTrue'
    BY <1>1, <2>1, <2>2 DEF ReceiptsTrue, PublisherInv, TypeOK
  <2>7. QED
    BY <1>1, <1>2, <2>1, <2>3, <2>5, <2>6 DEF CheckoutHolds
<1>6. CASE Invalid(p) \/ RecordPush(p)
  <2>1. End(p) /\ UNCHANGED <<commits, pushed>>
    BY <1>6 DEF Invalid, RecordPush, Recorded
  <2>2. run'[p].pc = "none" /\ UNCHANGED HEAD
    BY <2>1 DEF End, PublisherInv, TypeOK, NoRun, HEAD
  <2>3. CheckoutHolds(p)'
    BY <2>2 DEF CheckoutHolds
  <2>4. CASE Invalid(p)
    <3>1. UNCHANGED receipt
      BY <2>4 DEF Invalid
    <3>2. QED
      BY <1>1, <1>2, <2>1, <2>2, <2>3, <3>1 DEF ReceiptsTrue
  <2>5. CASE RecordPush(p)
    <3>1. r.pc = "note" /\ receipt' = [receipt EXCEPT ![Key(p)] =
                                         [status |-> "pushed", commit |-> r.previous.commit]]
      BY <2>5 DEF RecordPush, Recorded
    <3>2. r.previous.commit \in Nat /\ r.previous.commit # 0 /\ r.previous.commit <= HEAD
          /\ r.copy \in commits[r.previous.commit] /\ r.previous.commit <= pushed
      BY <1>1, <3>1, ReceiptNat DEF CheckoutHolds
    <3>3. Key(p)[2] = r.copy
      BY DEF Key
    <3>4. ReceiptsTrue'
      BY <1>1, <2>1, <2>2, <3>1, <3>2, <3>3 DEF ReceiptsTrue, PublisherInv, TypeOK
    <3>5. QED
      BY <1>2, <2>3, <3>4
  <2>6. QED
    BY <1>6, <2>4, <2>5
<1>7. CASE GitCommit(p)
  <2>1. /\ r.pc = "commit" /\ r.previous.commit = 0 /\ Commit(file) /\ Goto(p, "record")
        /\ file \in Collections /\ UNCHANGED <<file, pushed, receipt>>
    BY <1>7 DEF GitCommit, PublisherInv, TypeOK
  <2>2. /\ HEAD \in Nat /\ HEAD' = HEAD + 1 /\ commits'[HEAD'] = file
        /\ \A i \in Nat : i # 0 /\ i <= HEAD => commits'[i] = commits[i]
    BY <2>1, CommitKeeps
  <2>3. ReceiptsTrue'
    BY <1>1, <2>1, <2>2, ReceiptNat DEF ReceiptsTrue
  <2>4. QED
    BY <1>1, <1>2, <2>1, <2>2, <2>3, GotoKeeps DEF CheckoutHolds
<1>8. CASE RecordCommit(p)
  <2>. DEFINE new == [status |-> "committed", commit |-> HEAD]
  <2>1. /\ r.pc = "record" /\ receipt' = [receipt EXCEPT ![Key(p)] = new]
        /\ run' = [run EXCEPT ![p].pc = "push", ![p].previous = receipt'[Key(p)]]
        /\ UNCHANGED <<file, commits, pushed>>
    BY <1>8 DEF RecordCommit, Recorded
  <2>2. UNCHANGED HEAD
    BY <2>1 DEF HEAD
  <2>3. r \in Runs /\ Key(p) \in Drafts \X Copies /\ Key(p)[2] = r.copy
    BY <2>1, RunRow DEF PublisherInv, Key
  <2>4. receipt'[Key(p)] = new
    BY <2>1, <2>3 DEF PublisherInv, TypeOK
  <2>5. run'[p] = [r EXCEPT !.pc = "push", !.previous = new]
    BY <2>1, <2>4 DEF PublisherInv, TypeOK
  <2>6. run'[p].pc = "push" /\ run'[p].copy = r.copy /\ run'[p].previous.commit = HEAD
    BY <2>3, <2>5 DEF Runs
  <2>7. HEAD \in Nat /\ HEAD # 0 /\ r.copy \in commits[HEAD]
    BY <1>1, <2>1 DEF CheckoutHolds, HEAD, PublisherInv, TypeOK
  <2>8. ReceiptsTrue'
    BY <1>1, <2>1, <2>2, <2>3, <2>7 DEF ReceiptsTrue, PublisherInv, TypeOK
  <2>9. QED
    BY <1>2, <2>1, <2>2, <2>6, <2>7, <2>8 DEF CheckoutHolds
<1>9. CASE Push(p)
  <2>1. /\ r.pc = "pushing" /\ pushed' = HEAD /\ Goto(p, "note")
        /\ UNCHANGED <<file, commits, receipt>>
    BY <1>9 DEF Push
  <2>2. UNCHANGED HEAD
    BY <2>1 DEF HEAD
  <2>3. ReceiptsTrue'
    BY <1>1, <2>1, <2>2, ReceiptNat DEF ReceiptsTrue
  <2>4. QED
    BY <1>1, <1>2, <2>1, <2>2, <2>3, GotoKeeps DEF CheckoutHolds
<1>10. QED
  BY <1>3, <1>4, <1>5, <1>6, <1>7, <1>8, <1>9 DEF Step

LEMMA CheckoutStep ==
  ASSUME OnePublisher, PublisherInv, CheckoutInv, [Next]_vars
  PROVE  CheckoutInv'
<1>1. CASE \E p \in Publishers : Step(p) \/ Crash(p)
  BY <1>1, CheckoutRun
<1>2. CASE \E copy \in Copies : Withdraw(copy)
  BY <1>2, CheckoutWithdraw
<1>3. CASE UNCHANGED <<siteVars, run>>
  BY <1>3, CheckoutIdle
<1>4. QED
  BY <1>1, <1>2, <1>3 DEF Next, vars, siteVars

LEMMA CheckoutStart == Init => CheckoutInv
BY DEF Init, SiteInit, CheckoutInv, CheckoutHolds, ReceiptsTrue, NoRun, NoReceipt

LEMMA CheckoutCorrect == OnePublisher => (Spec => []CheckoutInv)
<1>. SUFFICES ASSUME OnePublisher PROVE Spec => []CheckoutInv
  OBVIOUS
<1>1. PublisherInv /\ CheckoutInv /\ [Next]_vars => CheckoutInv'
  BY CheckoutStep
<1>2. QED
  BY <1>1, CheckoutStart, PublisherHolds, PTL DEF Spec

(* A receipt never claims too much, wherever runs were stopped, as long as there is one at a *)
(* time.                                                                                     *)
THEOREM ReceiptsCorrect == OnePublisher => (Spec => []ReceiptsTrue)
<1>. SUFFICES ASSUME OnePublisher PROVE Spec => []ReceiptsTrue
  OBVIOUS
<1>1. CheckoutInv => ReceiptsTrue
  BY DEF CheckoutInv
<1>2. QED
  BY <1>1, CheckoutCorrect, PTL

------------------------------------------------------------------------------
(* Articles in commits were validated.  After an interruption that leaves an article in the  *)
(* worktree that was not validated, every run refuses the worktree; a second one could leave *)
(* such an article beside one that a retry may commit.                                       *)

OneInterruption == MaxCrashes <= 1

Receipted == {k \in Drafts \X Copies : receipt[k].status = "written"}
Recording(p, k) == run[p].pc = "record" /\ Key(p) = k
Validated(copy) == \E d \in Drafts : receipt[<<d, copy>>] # NoReceipt

\* Without an interruption, at most one article waits in the worktree for its commit, and no
\* run writes meanwhile.
OneWaits ==
  /\ \A k, l \in Receipted : k = l
  /\ \A k \in Receipted : (k[2] \in file /\ Dirty) \/ \E p \in Publishers : Recording(p, k)
  /\ \A p \in Publishers :
       /\ run[p].pc \in {"export", "write", "validate"} => Receipted = {}
       /\ run[p].pc \in {"commit", "record"} => Receipted \subseteq {Key(p)}

\* No run takes the worktree as it is.
Refused ==
  /\ crashes # 0 /\ Dirty
  /\ \A k \in Receipted : k[2] \notin file
  /\ \A p \in Publishers : run[p].pc \in {"none", "preview", "decide"}

RecordedInv ==
  /\ crashes <= MaxCrashes
  /\ CommitsRecorded
  /\ crashes = 0 => OneWaits
  /\ \/ \A copy \in file : Validated(copy)
     \/ \E p \in Publishers : run[p].pc = "validate"
     \/ Refused

LEMMA RecordedStart == Init => RecordedInv
<1>. SUFFICES ASSUME Init PROVE RecordedInv
  OBVIOUS
<1>1. Receipted = {} /\ crashes = 0 /\ file = {} /\ \A p \in Publishers : run[p].pc = "none"
  BY DEF Init, SiteInit, Receipted, NoReceipt, NoRun
<1>2. CommitsRecorded
  BY DEF Init, SiteInit, CommitsRecorded, HEAD
<1>3. QED
  BY <1>1, <1>2, PublisherAssumption DEF RecordedInv, OneWaits

LEMMA RecordedIdle ==
  ASSUME RecordedInv, UNCHANGED <<siteVars, run, crashes>>
  PROVE  RecordedInv'
BY DEF RecordedInv, OneWaits, Refused, CommitsRecorded, Receipted, Recording, Validated, Dirty, HEAD,
       Key, siteVars

\* All that is in a clean worktree was validated.
LEMMA HeadRecorded ==
  ASSUME PublisherInv, RecordedInv
  PROVE  \A copy \in commits[HEAD] : Validated(copy)
<1>1. HEAD \in 1..HEAD
  BY DEF PublisherInv, TypeOK, HEAD
<1>2. QED
  BY <1>1 DEF RecordedInv, CommitsRecorded, Validated

LEMMA RecordedWithdraw ==
  ASSUME PublisherInv, RecordedInv, NEW copy \in Copies, Withdraw(copy), UNCHANGED crashes
  PROVE  RecordedInv'
<1>1. /\ file' \in Collections /\ Commit(file') /\ file' \subseteq file /\ ~Dirty
      /\ UNCHANGED <<receipt, run, crashes>>
      /\ \A p \in Publishers : run[p].pc = "none"
  BY DEF Withdraw, PublisherInv, TypeOK, Collections, NoRun
<1>2. /\ HEAD \in Nat /\ HEAD' = HEAD + 1 /\ commits'[HEAD'] = file'
      /\ \A i \in Nat : i # 0 /\ i <= HEAD => commits'[i] = commits[i]
  BY <1>1, CommitKeeps
<1>3. \A any \in file : Validated(any)
  BY <1>1 DEF RecordedInv, Refused
<1>4. UNCHANGED Receipted /\ \A any : Validated(any)' <=> Validated(any)
  BY <1>1 DEF Receipted, Validated
<1>5. CommitsRecorded'
  <2>1. \A i \in 1..HEAD : \A any \in commits[i] : Validated(any)
    BY DEF RecordedInv, CommitsRecorded, Validated
  <2>2. \A i \in 1..HEAD' : i = HEAD' \/ i \in 1..HEAD
    BY <1>2
  <2>3. \A i \in 1..HEAD' : \A any \in commits'[i] : Validated(any)
    BY <1>1, <1>2, <1>3, <2>1, <2>2
  <2>4. QED
    BY <1>1, <2>3 DEF CommitsRecorded, Validated
<1>6. crashes = 0 => Receipted = {}
  BY <1>1 DEF RecordedInv, OneWaits, Recording
<1>7. crashes' = 0 => OneWaits'
  BY <1>1, <1>4, <1>6 DEF OneWaits
<1>8. QED
  BY <1>1, <1>3, <1>4, <1>5, <1>7 DEF RecordedInv

\* A step of the only run that leaves the checkout and the receipts alone.  If the worktree
\* is refused, such a step keeps it so.
LEMMA RecordedLook ==
  ASSUME OnePublisher, PublisherInv, CheckoutInv, RecordedInv, NEW p \in Publishers,
         UNCHANGED <<siteVars, crashes>>,
         run[p].pc \notin {"record", "validate"},
         ~(Refused /\ run'[p].pc \notin {"none", "preview", "decide"}),
         run'[p].pc # "record" /\ run'[p].pc # "validate",
         run'[p].pc \in {"export", "write"} /\ crashes = 0 => Receipted = {},
         run'[p].pc = "commit" /\ crashes = 0 => Receipted \subseteq {Key(p)'}
  PROVE  RecordedInv'
<1>1. UNCHANGED <<file, commits, receipt, HEAD, crashes, Dirty, Receipted>>
  BY DEF siteVars, HEAD, Dirty, Receipted
<1>2. \A any : Validated(any)' <=> Validated(any)
  BY <1>1 DEF Validated
<1>3. CommitsRecorded'
  BY <1>1 DEF RecordedInv, CommitsRecorded
<1>4. \A q \in Publishers : q = p
  BY DEF OnePublisher
<1>5. crashes = 0 => OneWaits'
  <2>. SUFFICES ASSUME crashes = 0 PROVE OneWaits'
    OBVIOUS
  <2>1. OneWaits
    BY DEF RecordedInv
  <2>2. \A k \in Receipted : k[2] \in file /\ Dirty
    BY <1>4, <2>1 DEF OneWaits, Recording
  <2>3. QED
    BY <1>1, <1>4, <2>1, <2>2 DEF OneWaits
<1>6. \/ \A copy \in file : Validated(copy)
      \/ Refused
  BY <1>4 DEF RecordedInv
<1>7. Refused => Refused'
  BY <1>1, <1>4 DEF Refused
<1>8. QED
  BY <1>1, <1>2, <1>3, <1>5, <1>6, <1>7 DEF RecordedInv

LEMMA RecordedRun ==
  ASSUME OnePublisher, OneInterruption, PublisherInv, CheckoutInv, RecordedInv,
         NEW p \in Publishers,
         \/ Step(p) /\ UNCHANGED crashes
         \/ Crash(p)
  PROVE  RecordedInv'
<1>. DEFINE r == run[p]
<1>1. CheckoutHolds(p) /\ \A q \in Publishers : q = p
  BY DEF CheckoutInv, OnePublisher
<1>2. CASE UNCHANGED crashes /\ \/ \E d \in Drafts, copy \in Copies : Launch(p, d, copy)
                                \/ Look(p)
                                \/ Quit(p)
  <2>1. UNCHANGED siteVars /\ r.pc \notin {"record", "validate"}
        /\ run'[p].pc \in {"none", "preview", "decide"}
    <3>1. CASE \E d \in Drafts, copy \in Copies : Launch(p, d, copy)
      BY <3>1 DEF Launch, NoRun, PublisherInv, TypeOK
    <3>2. CASE Look(p)
      <4>1. r \in Runs
        BY <3>2, RunRow DEF Look, PublisherInv
      <4>2. run'[p] = [r EXCEPT !.pc = "decide", !.version = draft[r.draft].version,
                                !.before = file, !.previous = receipt[Key(p)]]
        BY <3>2 DEF Look, PublisherInv, TypeOK
      <4>3. QED
        BY <3>2, <4>1, <4>2 DEF Look, Runs
    <3>3. CASE Quit(p)
      BY <3>3 DEF Quit, End, NoRun, PublisherInv, TypeOK
    <3>4. QED
      BY <1>2, <3>1, <3>2, <3>3
  <2>2. QED
    BY <1>2, <2>1, RecordedLook
<1>3. CASE UNCHANGED crashes /\ (Exported(p) \/ Committed(p) \/ Recheck(p))
  <2>1. PICK pc \in {"write", "push", "pushing"} :
          Goto(p, pc) /\ r.pc \in {"export", "commit", "push"} /\ (pc = "write" => r.pc = "export")
    BY <1>3 DEF Exported, Committed, Recheck
  <2>2. UNCHANGED siteVars /\ run'[p].pc = pc
    BY <1>3, <2>1, GotoKeeps DEF Exported, Committed, Recheck
  <2>3. ~Refused
    BY <2>1 DEF Refused
  <2>4. pc = "write" /\ crashes = 0 => Receipted = {}
    BY <2>1 DEF RecordedInv, OneWaits
  <2>5. QED
    BY <1>3, <2>1, <2>2, <2>3, <2>4, RecordedLook
<1>4. CASE UNCHANGED crashes /\ RequestExport(p)
  <2>1. r.pc = "decide" /\ Goto(p, "export") /\ r.before # After(p) /\ ~Dirty
        /\ UNCHANGED siteVars
    BY <1>4 DEF RequestExport, OwnRetry
  <2>2. run'[p].pc = "export"
    BY <2>1, GotoKeeps
  <2>3. ~Refused /\ (crashes = 0 => Receipted = {})
    BY <1>1, <2>1 DEF Refused, RecordedInv, OneWaits, Recording
  <2>4. QED
    BY <1>4, <2>1, <2>2, <2>3, RecordedLook
<1>5. CASE UNCHANGED crashes /\ Resume(p)
  <2>1. r.pc = "decide" /\ Goto(p, "commit") /\ r.before = After(p) /\ UNCHANGED siteVars
        /\ (Dirty => r.previous.status = "written")
    BY <1>5 DEF Resume, OwnRetry
  <2>2. run'[p].pc = "commit" /\ Key(p)' = Key(p)
    BY <2>1, GotoKeeps
  <2>3. /\ Key(p) \in Drafts \X Copies /\ Key(p)[2] = r.copy /\ r.copy \in file
        /\ r.previous = receipt[Key(p)]
    BY <1>1, <2>1, RunRow DEF Key, CheckoutHolds, PublisherInv
  <2>4. Dirty => Key(p) \in Receipted
    BY <2>1, <2>3 DEF Receipted
  <2>5. ~Refused
    BY <2>3, <2>4 DEF Refused
  <2>6. crashes = 0 => Receipted \subseteq {Key(p)}
    BY <1>1, <2>1, <2>4 DEF RecordedInv, OneWaits, Recording
  <2>7. QED
    BY <1>5, <2>1, <2>2, <2>5, <2>6, RecordedLook
<1>6. CASE UNCHANGED crashes /\ WriteFile(p)
  <2>1. r.pc = "write" /\ Goto(p, "validate") /\ UNCHANGED <<commits, receipt>>
    BY <1>6 DEF WriteFile
  <2>2. run'[p].pc = "validate" /\ UNCHANGED <<HEAD, Receipted>>
    BY <2>1, GotoKeeps DEF HEAD, Receipted
  <2>3. crashes = 0 => Receipted = {}
    BY <2>1 DEF RecordedInv, OneWaits
  <2>4. crashes' = 0 => OneWaits'
    BY <1>1, <1>6, <2>2, <2>3 DEF OneWaits
  <2>5. CommitsRecorded'
    BY <2>1, <2>2 DEF RecordedInv, CommitsRecorded
  <2>6. QED
    BY <1>6, <2>2, <2>4, <2>5 DEF RecordedInv
<1>7. CASE UNCHANGED crashes /\ Valid(p)
  <2>. DEFINE written == [status |-> "written", commit |-> 0]
  <2>1. /\ r.pc = "validate" /\ receipt' = [receipt EXCEPT ![Key(p)] = written]
        /\ run' = [run EXCEPT ![p].pc = "commit", ![p].previous = written]
        /\ UNCHANGED <<file, commits>>
    BY <1>7 DEF Valid
  <2>2. r \in Runs /\ Key(p) \in Drafts \X Copies /\ Key(p)[2] = r.copy /\ r.copy \in After(p)
        /\ After(p) \subseteq r.before \cup {r.copy}
        /\ Key(p) = <<r.draft, r.copy>> /\ r.draft \in Drafts
    BY <2>1, RunRow DEF PublisherInv, Key
  <2>3. run'[p] = [r EXCEPT !.pc = "commit", !.previous = written]
    BY <2>1 DEF PublisherInv, TypeOK
  <2>4. run'[p].pc = "commit" /\ run'[p].copy = r.copy /\ run'[p].draft = r.draft
    BY <2>2, <2>3 DEF Runs
  <2>5. Key(p)' = Key(p) /\ UNCHANGED <<HEAD, Dirty>>
    BY <2>1, <2>4 DEF Key, HEAD, Dirty
  <2>6. file = After(p) /\ r.before = commits[HEAD] /\ r.before # After(p) /\ Dirty
    BY <1>1, <2>1 DEF CheckoutHolds, Dirty
  <2>7. \A k \in Drafts \X Copies : receipt'[k] = IF k = Key(p) THEN written ELSE receipt[k]
    BY <2>1 DEF PublisherInv, TypeOK
  <2>8. Receipted' = Receipted \cup {Key(p)}
    BY <2>2, <2>7 DEF Receipted
  <2>9. \A d \in Drafts, copy \in Copies : receipt[<<d, copy>>] # NoReceipt
                                             => receipt'[<<d, copy>>] # NoReceipt
    BY <2>7 DEF NoReceipt
  <2>10. \A copy \in Copies : Validated(copy) => Validated(copy)'
    BY <2>9 DEF Validated
  <2>11. \E d \in Drafts : receipt'[<<d, r.copy>>] # NoReceipt
    BY <2>2, <2>7 DEF NoReceipt
  <2>12. \A copy \in file : Validated(copy)'
    <3>1. \A copy \in file : copy \in Copies /\ (copy = r.copy \/ Validated(copy))
      BY <2>2, <2>6, HeadRecorded DEF PublisherInv, Out
    <3>2. QED
      BY <2>1, <2>10, <2>11, <3>1 DEF Validated
  <2>13. CommitsRecorded'
    <3>1. \A i \in 1..HEAD : \A copy \in commits[i] : copy \in Copies /\ Validated(copy)
      BY DEF RecordedInv, CommitsRecorded, Validated, PublisherInv, Out
    <3>2. QED
      BY <2>1, <2>5, <2>10, <3>1 DEF CommitsRecorded, Validated
  <2>14. crashes' = 0 => OneWaits'
    <3>1. crashes = 0 => Receipted = {}
      BY <2>1 DEF RecordedInv, OneWaits
    <3>2. QED
      BY <1>1, <1>7, <2>1, <2>2, <2>4, <2>5, <2>6, <2>8, <3>1 DEF OneWaits
  <2>15. QED
    BY <1>7, <2>1, <2>12, <2>13, <2>14 DEF RecordedInv
<1>8. CASE UNCHANGED crashes /\ Invalid(p)
  <2>1. r.pc = "validate" /\ End(p) /\ UNCHANGED <<commits, receipt>>
        /\ file' = IF file = After(p) THEN r.before ELSE file
    BY <1>8 DEF Invalid
  <2>2. run'[p].pc = "none" /\ UNCHANGED <<HEAD, Receipted>>
    BY <2>1 DEF End, PublisherInv, TypeOK, NoRun, HEAD, Receipted
  <2>3. file' = commits[HEAD]
    BY <1>1, <2>1 DEF CheckoutHolds
  <2>4. \A copy \in file' : Validated(copy)'
    BY <2>1, <2>3, HeadRecorded DEF Validated
  <2>5. crashes' = 0 => OneWaits'
    BY <1>1, <1>8, <2>1, <2>2 DEF RecordedInv, OneWaits
  <2>6. CommitsRecorded'
    BY <2>1, <2>2 DEF RecordedInv, CommitsRecorded
  <2>7. QED
    BY <1>8, <2>4, <2>5, <2>6 DEF RecordedInv
<1>9. CASE UNCHANGED crashes /\ GitCommit(p)
  <2>1. /\ r.pc = "commit" /\ Commit(file) /\ Goto(p, "record") /\ file \in Collections
        /\ UNCHANGED <<file, receipt>>
    BY <1>9 DEF GitCommit, PublisherInv, TypeOK
  <2>2. /\ HEAD \in Nat /\ HEAD' = HEAD + 1 /\ commits'[HEAD'] = file
        /\ \A i \in Nat : i # 0 /\ i <= HEAD => commits'[i] = commits[i]
    BY <2>1, CommitKeeps
  <2>3. run'[p].pc = "record" /\ Key(p)' = Key(p) /\ UNCHANGED Receipted
    BY <2>1, GotoKeeps DEF Receipted
  <2>4. \A copy \in file : Validated(copy)
    BY <1>1, <2>1 DEF RecordedInv, Refused
  <2>5. \A i \in 1..HEAD' : \A copy \in commits'[i] : Validated(copy)
    <3>1. \A i \in 1..HEAD : \A copy \in commits[i] : Validated(copy)
      BY DEF RecordedInv, CommitsRecorded, Validated
    <3>2. \A i \in 1..HEAD' : i = HEAD' \/ i \in 1..HEAD
      BY <2>2
    <3>3. QED
      BY <2>2, <2>4, <3>1, <3>2
  <2>6. CommitsRecorded' /\ \A copy \in file' : Validated(copy)'
    BY <2>1, <2>4, <2>5 DEF CommitsRecorded, Validated
  <2>7. crashes' = 0 => OneWaits'
    <3>1. crashes = 0 => /\ Receipted \subseteq {Key(p)}
                         /\ \A k, l \in Receipted : k = l
      BY <2>1 DEF RecordedInv, OneWaits
    <3>2. crashes = 0 => \A k \in Receipted : Recording(p, k)'
      BY <2>3, <3>1 DEF Recording
    <3>3. QED
      BY <1>1, <1>9, <2>3, <3>1, <3>2 DEF OneWaits
  <2>8. QED
    BY <1>9, <2>6, <2>7 DEF RecordedInv
<1>10. CASE UNCHANGED crashes /\ (RecordCommit(p) \/ RecordPush(p))
  <2>1. PICK status \in {"committed", "pushed"} : Recorded(p, status)
    BY <1>10 DEF RecordCommit, RecordPush
  <2>2. /\ r.pc \in {"record", "note"} /\ UNCHANGED <<file, commits>>
        /\ \E new : new.status # "written" /\ new.status # "none"
                    /\ receipt' = [receipt EXCEPT ![Key(p)] = new]
    BY <1>10, <2>1 DEF RecordCommit, RecordPush, Recorded
  <2>3. run'[p].pc \in {"push", "none"}
    <3>1. CASE RecordCommit(p)
      <4>1. PICK new : run' = [run EXCEPT ![p].pc = "push", ![p].previous = new]
        BY <3>1 DEF RecordCommit
      <4>2. r \in Runs
        BY <2>2, RunRow DEF PublisherInv
      <4>3. run'[p] = [r EXCEPT !.pc = "push", !.previous = new]
        BY <4>1 DEF PublisherInv, TypeOK
      <4>4. QED
        BY <4>2, <4>3 DEF Runs
    <3>2. CASE RecordPush(p)
      BY <3>2 DEF RecordPush, End, NoRun, PublisherInv, TypeOK
    <3>3. QED
      BY <1>10, <3>1, <3>2
  <2>4. PICK new : /\ new.status # "written" /\ new.status # "none"
                   /\ receipt' = [receipt EXCEPT ![Key(p)] = new]
    BY <2>2
  <2>5. \A k \in Drafts \X Copies : receipt'[k] = IF k = Key(p) THEN new ELSE receipt[k]
    BY <2>4 DEF PublisherInv, TypeOK
  <2>6. Receipted' = Receipted \ {Key(p)} /\ UNCHANGED <<HEAD, Dirty>>
    BY <2>2, <2>4, <2>5 DEF Receipted, HEAD, Dirty
  <2>7. \A copy \in Copies : Validated(copy) => Validated(copy)'
    <3>1. \A d \in Drafts, copy \in Copies : receipt[<<d, copy>>] # NoReceipt
                                               => receipt'[<<d, copy>>] # NoReceipt
      BY <2>4, <2>5 DEF NoReceipt
    <3>2. QED
      BY <3>1 DEF Validated
  <2>8. CommitsRecorded'
    <3>1. \A i \in 1..HEAD : \A copy \in commits[i] : copy \in Copies /\ Validated(copy)
      BY DEF RecordedInv, CommitsRecorded, Validated, PublisherInv, Out
    <3>2. QED
      BY <2>2, <2>6, <2>7, <3>1 DEF CommitsRecorded, Validated
  <2>9. \A copy \in file' : Validated(copy)'
    BY <1>1, <2>2, <2>7 DEF RecordedInv, Refused, PublisherInv, Out
  <2>10. crashes' = 0 => OneWaits'
    <3>. SUFFICES ASSUME crashes = 0 PROVE OneWaits'
      BY <1>10
    <3>1. OneWaits
      BY DEF RecordedInv
    <3>2. \A k \in Receipted' : k[2] \in file' /\ Dirty'
      BY <1>1, <2>2, <2>6, <3>1 DEF OneWaits, Recording
    <3>3. QED
      BY <1>1, <2>3, <2>6, <3>1, <3>2 DEF OneWaits
  <2>11. QED
    BY <1>10, <2>8, <2>9, <2>10 DEF RecordedInv
<1>11. CASE UNCHANGED crashes /\ Push(p)
  <2>1. /\ r.pc = "pushing" /\ Goto(p, "note") /\ UNCHANGED <<file, commits, receipt>>
    BY <1>11 DEF Push
  <2>2. run'[p].pc = "note" /\ UNCHANGED <<HEAD, Receipted, Dirty>>
    BY <2>1, GotoKeeps DEF HEAD, Receipted, Dirty
  <2>3. CommitsRecorded' /\ \A copy \in file' : Validated(copy)'
    BY <1>1, <2>1, <2>2 DEF RecordedInv, Refused, CommitsRecorded, Validated
  <2>4. crashes' = 0 => OneWaits'
    <3>. SUFFICES ASSUME crashes = 0 PROVE OneWaits'
      BY <1>11
    <3>1. OneWaits
      BY DEF RecordedInv
    <3>2. \A k \in Receipted' : k[2] \in file' /\ Dirty'
      BY <1>1, <2>1, <2>2, <3>1 DEF OneWaits, Recording
    <3>3. QED
      BY <1>1, <2>2, <3>1, <3>2 DEF OneWaits
  <2>5. QED
    BY <1>11, <2>3, <2>4 DEF RecordedInv
<1>12. CASE Crash(p)
  <2>1. /\ r.pc \in {"write", "validate", "record", "note"} /\ crashes < MaxCrashes
        /\ crashes' = crashes + 1 /\ End(p) /\ UNCHANGED siteVars
    BY <1>12 DEF Crash
  <2>2. crashes = 0 /\ crashes' = 1 /\ crashes' <= MaxCrashes
    BY <2>1, PublisherAssumption DEF OneInterruption, PublisherInv, TypeOK
  <2>3. run'[p].pc = "none" /\ UNCHANGED <<HEAD, Receipted, Dirty, file, commits, receipt>>
    BY <2>1 DEF End, PublisherInv, TypeOK, NoRun, HEAD, Receipted, Dirty, siteVars
  <2>4. CommitsRecorded'
    BY <2>3 DEF RecordedInv, CommitsRecorded
  <2>5. CASE \A copy \in file : Validated(copy)
    <3>1. \A copy \in file' : Validated(copy)'
      BY <2>3, <2>5 DEF Validated
    <3>2. QED
      BY <2>2, <2>4, <3>1 DEF RecordedInv
  <2>6. CASE \E copy \in file : ~Validated(copy)
    <3>1. Dirty
      BY <2>6, HeadRecorded DEF Dirty
    <3>2. r.pc = "validate"
      BY <1>1, <2>1, <2>6 DEF RecordedInv, Refused
    <3>3. Receipted = {}
      BY <2>2, <3>2 DEF RecordedInv, OneWaits
    <3>4. Refused'
      BY <1>1, <2>2, <2>3, <3>1, <3>3 DEF Refused
    <3>5. QED
      BY <2>2, <2>4, <3>4 DEF RecordedInv
  <2>7. QED
    BY <2>5, <2>6
<1>13. QED
  BY <1>2, <1>3, <1>4, <1>5, <1>6, <1>7, <1>8, <1>9, <1>10, <1>11, <1>12 DEF Step

(* What is committed was validated and recorded, and no receipt claims more than happened,   *)
(* with one run at a time and at most one interruption.                                     *)
THEOREM RecordsCorrect == OnePublisher /\ OneInterruption => (Spec => []RecordsTrue)
<1>. SUFFICES ASSUME OnePublisher, OneInterruption PROVE Spec => []RecordsTrue
  OBVIOUS
<1>1. PublisherInv /\ CheckoutInv /\ RecordedInv /\ [Next]_vars => RecordedInv'
  <2>. SUFFICES ASSUME PublisherInv, CheckoutInv, RecordedInv, [Next]_vars PROVE RecordedInv'
    OBVIOUS
  <2>1. CASE \E p \in Publishers : (Step(p) /\ UNCHANGED crashes) \/ Crash(p)
    BY <2>1, RecordedRun
  <2>2. CASE \E copy \in Copies : Withdraw(copy) /\ UNCHANGED crashes
    BY <2>2, RecordedWithdraw
  <2>3. CASE UNCHANGED <<siteVars, run, crashes>>
    BY <2>3, RecordedIdle
  <2>4. QED
    BY <2>1, <2>2, <2>3 DEF Next, vars, siteVars
<1>2. CheckoutInv /\ RecordedInv => RecordsTrue
  BY DEF CheckoutInv, RecordedInv, RecordsTrue
<1>3. QED
  BY <1>1, <1>2, RecordedStart, PublisherHolds, CheckoutCorrect, PTL DEF Spec
=============================================================================
