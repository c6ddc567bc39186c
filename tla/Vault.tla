-------------------------------- MODULE Vault --------------------------------
(***************************************************************************)
(* The Markdown vault: one note per conversation in the folder of its      *)
(* pile, one note per entity its facts mention, and the dashboards.        *)
(* Requests export inside their open transaction, so that a request sees   *)
(* what it changed itself and, of the others, what is committed.  One lock *)
(* orders the exports but is released before the commit.  Files are        *)
(* replaced one by one and are not rolled back when the request fails.     *)
(*                                                                         *)
(* The owner may keep files of her own in the vault, and notes of older    *)
(* versions have names that two conversations can share.                   *)
(***************************************************************************)
EXTENDS Naturals, FiniteSets

CONSTANTS
  Sessions, Folders, Entities,
  Requests,     \* bound: requests served at a time
  Shared,       \* the path of old notes with the same name
  User, None

VARIABLES
  row,      \* committed: the conversation's folder, facts and markdown_path
  note,     \* the files of conversations
  entity,   \* the notes of entities: the conversations that mention it
  index,    \* the dashboards: where each conversation is listed
  lock,     \* of the vault
  tx,       \* the requests being served
  torn,     \* history: conversations whose last request failed after it had moved the note
  behind    \* history: the last export passed over another that was not committed

files == <<note, entity, index>>
vars == <<row, files, lock, tx, torn, behind>>

Paths == (Folders \X Sessions) \cup {Shared}
SessionRows == [folder : Folders, facts : SUBSET Entities, path : Paths]
Listings == [Sessions -> Folders \cup {None}]

Idle == [pc |-> "idle"]
\* In their order; the lock is held from "moved" to "installed".
Pcs == {"note", "moved", "graph", "installed", "exported"}
Requested == [pc : Pcs, session : Sessions, new : SessionRows]

\* Types, and the vault's lock is held by a request that exports.
TypeOK ==
  /\ row \in [Sessions -> SessionRows]
  /\ note \in [Paths -> Sessions \cup {None}]
  /\ entity \in [Entities -> (SUBSET Sessions) \cup {User, None}]
  /\ index \in Listings
  /\ lock \in Requests \cup {None}
  /\ tx \in [Requests -> Requested \cup {Idle}]
  /\ lock # None => tx[lock] # Idle /\ tx[lock].pc \in {"moved", "graph", "installed"}
  /\ torn \subseteq Sessions /\ behind \in BOOLEAN

\* An upgraded vault; the name shared by old notes is taken by one of them.
Init ==
  /\ \E f \in Folders :
       row = [s \in Sessions |-> [folder |-> f, facts |-> {}, path |-> Shared]]
  /\ \E s \in Sessions :
       note = [p \in Paths |-> IF p = Shared THEN s ELSE None]
  /\ entity \in [Entities -> {User, None}]
  /\ index = [s \in Sessions |-> None]
  /\ lock = None
  /\ tx = [r \in Requests |-> Idle]
  /\ torn = {} /\ behind = FALSE

Busy(s) == \E r \in Requests : tx[r] # Idle /\ tx[r].session = s

------------------------------------------------------------------------------
(* The requests, and their locks. *)

\* The second phase of a capture, or a request of the owner; it locks the conversation.
Begin(r, s, folder, facts) ==
  /\ tx[r] = Idle /\ ~Busy(s)
  /\ tx' = [tx EXCEPT ![r] =
       [pc |-> "note", session |-> s,
        new |-> [row[s] EXCEPT !.folder = folder, !.facts = facts]]]
  /\ UNCHANGED <<row, files, lock, torn, behind>>

Goto(r, pc) == tx' = [tx EXCEPT ![r].pc = pc]

\* The rows as request r sees them.
Seen(r) == [row EXCEPT ![tx[r].session] = tx[r].new]

------------------------------------------------------------------------------
(* write_session. *)

Target(r) == <<tx[r].new.folder, tx[r].session>>

\* Both files of a conversation.
WriteNote(r) ==
  /\ tx[r].pc = "note" /\ lock = None
  /\ lock' = r
  /\ note' = [note EXCEPT ![Target(r)] = tx[r].session]
  /\ Goto(r, "moved")
  /\ UNCHANGED <<row, entity, index, torn, behind>>

\* Faulty: the file at the old path goes, whoever it shows.
OwnsAny(s, p) == note[p] # None
\* _path_is_owned_by_session.
Owns(s, p) == note[p] = s

\* Faulty: the note may be where it was.
OldAny(r) == {p \in {tx[r].new.path, Shared} : Owns(tx[r].session, p)}
\* The path the conversation had before, and the name its note had in older versions.
Old(r) == {p \in {tx[r].new.path, Shared} \ {Target(r)} : Owns(tx[r].session, p)}

RemoveOld(r) ==
  /\ tx[r].pc = "moved"
  /\ note' = [p \in Paths |-> IF p \in Old(r) THEN None ELSE note[p]]
  /\ Goto(r, "graph")
  /\ UNCHANGED <<row, entity, index, lock, torn, behind>>

Mentions(r, e) == {s \in Sessions : e \in Seen(r)[s].facts}
\* Faulty: the entities of this conversation only.
DesiredOwn(r) == tx[r].new.facts
Desired(r) == {e \in Entities : Mentions(r, e) # {}}

\* _path_is_owned_graph_projection.
Managed(e) == entity[e] # User

\* Requests that have exported and not committed.
Passed(r) == {q \in Requests \ {r} : tx[q].pc = "exported"}

\* All notes are prepared first; if one would overwrite the owner's, none is written.
Install(r) ==
  /\ tx[r].pc = "graph"
  /\ \A e \in Desired(r) : Managed(e)
  /\ entity' = [e \in Entities |-> IF e \in Desired(r) THEN Mentions(r, e) ELSE entity[e]]
  /\ behind' = (Passed(r) # {})
  /\ Goto(r, "installed")
  /\ UNCHANGED <<row, note, index, lock, torn>>

\* Managed notes of entities that are no longer mentioned.
Stale(r, e) == entity[e] # None /\ Managed(e) /\ e \notin Desired(r)

\* The notes that are not needed go; then the dashboards, and git, whose failure is not one
\* of the request.
Finish(r) ==
  /\ tx[r].pc = "installed"
  /\ entity' = [e \in Entities |-> IF Stale(r, e) THEN None ELSE entity[e]]
  /\ index' = [s \in Sessions |-> Seen(r)[s].folder]
  /\ lock' = None
  /\ Goto(r, "exported")
  /\ UNCHANGED <<row, note, torn, behind>>

Commit(r) ==
  /\ tx[r].pc = "exported"
  /\ row' = [row EXCEPT ![tx[r].session] = [tx[r].new EXCEPT !.path = Target(r)]]
  /\ tx' = [tx EXCEPT ![r] = Idle]
  /\ torn' = torn \ {tx[r].session}
  /\ UNCHANGED <<files, lock, behind>>

\* Faulty: the lock stays with the request.
KeepLock(r) == lock
\* Both locks are context managers.
Release(r) == IF lock = r THEN None ELSE lock

\* An exception, also that of a file in the way, or a stop of the process.
Fail(r) ==
  /\ tx[r] # Idle
  /\ tx' = [tx EXCEPT ![r] = Idle]
  /\ lock' = Release(r)
  /\ torn' = IF tx[r].pc # "note" THEN torn \cup {tx[r].session} ELSE torn
  /\ behind' = (behind \/ tx[r].pc \in {"installed", "exported"})
  /\ UNCHANGED <<row, files>>

Process(r) ==
  \/ WriteNote(r) \/ RemoveOld(r) \/ Install(r) \/ Finish(r)
  \/ Commit(r) \/ Fail(r)

Next ==
  \/ \E r \in Requests, s \in Sessions, folder \in Folders, facts \in SUBSET Entities :
        Begin(r, s, folder, facts)
  \/ \E r \in Requests : Process(r)

Spec == Init /\ [][Next]_vars

------------------------------------------------------------------------------
(* Properties. *)

\* A conversation has its note where its row says, unless its last request failed after the
\* note was moved.
NoteFound ==
  \A s \in Sessions :
    ~Busy(s) /\ s \notin torn /\ row[s].path # Shared =>
      note[row[s].path] = s

\* A step takes no note from another conversation, and no file from the owner.
KeepsOthers ==
  /\ \A p \in Paths : note[p] # None /\ note'[p] # note[p] =>
       \E r \in Requests : lock' = r /\ tx[r].session = note[p]
  /\ \A e \in Entities : entity[e] = User => entity'[e] = User

\* An export removes or overwrites no note of another conversation and no file of the
\* owner's, whatever names they share.
OthersKept == [][KeepsOthers]_vars

\* With no request under way and something exported, the notes of entities and the
\* dashboards are those of the ledger; unless the last export failed or passed over one that
\* was not committed yet.
GraphCurrent ==
  (\A r \in Requests : tx[r] = Idle) /\ ~behind /\ (\E s \in Sessions : index[s] # None) =>
    /\ index = [s \in Sessions |-> row[s].folder]
    /\ \A e \in Entities : entity[e] # User =>
         entity[e] = LET mentioned == {s \in Sessions : e \in row[s].facts}
                     IN IF mentioned = {} THEN None ELSE mentioned
=============================================================================
