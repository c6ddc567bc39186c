----------------------------- MODULE Projection -----------------------------
(***************************************************************************)
(* The semantic index: a private note for every visible record of the      *)
(* ledger, kept by one background worker that compares fingerprints, calls *)
(* the index outside of any transaction, and stores the fingerprint only   *)
(* after the call was acknowledged.  Records change meanwhile, calls fail  *)
(* or lose their acknowledgement, and the operator asks for a rebuild.     *)
(* A search waits for the index and then reads the ledger again.           *)
(*                                                                         *)
(* A memory or task has a version that only grows; a source can return to  *)
(* an earlier content, and has a chunk for each content if it is long.     *)
(***************************************************************************)
EXTENDS Naturals, FiniteSets

CONSTANTS
  Records,
  Contents,     \* version; or revision, title and project, numbered
  BatchSize,    \* BATCH_SIZE
  MaxFailures,  \* bound: calls that fail, and stops of the worker
  MaxRebuilds,  \* bound: replacements of the index
  None

ASSUME ProjectionAssumption ==
  /\ Contents \subseteq Nat /\ None \notin Contents
  /\ BatchSize \in Nat \ {0} /\ MaxFailures \in Nat /\ MaxRebuilds \in Nat

VARIABLES
  kind,         \* what each record is
  row,          \* the ledger
  fingerprint,  \* workspace_knowledge_projections
  note,         \* the index: the fingerprint in each note
  sync,         \* the round the worker is at
  replaced,     \* the operator has replaced the index and not yet asked for a rebuild
  query,        \* a search and what it has found
  failures, rebuilds

indexVars == <<fingerprint, note, sync, replaced, failures, rebuilds>>
vars == <<kind, row, indexVars, query>>

Kinds == {"memory", "source", "long source"}

Chunks == Records \X Contents
Keys == Records \cup Chunks
SourceOf(k) == IF k \in Chunks THEN k[1] ELSE k

Stamps == [content : Contents, visible : BOOLEAN]
Rebuild == [content |-> None, visible |-> FALSE]
ASSUME StampAssumption == None \notin Stamps

\* inventory, load_record: a chunk is there while its source has its content.
Loadable(k) ==
  k \in Chunks => kind[k[1]] = "long source" /\ row[k[1]].content = k[2]
Wanted == {k \in Keys : Loadable(k)}
Stamp(k) == row[SourceOf(k)]

Idle == [pc |-> "idle"]
Rounds == [pc : {"obsolete", "forget", "dirty", "call", "store"},
           obsolete : SUBSET Keys, dirty : SUBSET Keys,
           key : Keys \cup {None}, stamp : Stamps \cup {None}]
Items == [key : Records, stamp : Stamps]
Queries == [pc : {"wait", "recheck", "answered"}, items : SUBSET Items]

TypeOK ==
  /\ kind \in [Records -> Kinds]
  /\ row \in [Records -> Stamps]
  /\ fingerprint \in [Keys -> Stamps \cup {Rebuild, None}]
  /\ note \in [Keys -> Stamps \cup {None}]
  /\ sync \in Rounds \cup {Idle}
  /\ replaced \in BOOLEAN
  /\ query \in Queries \cup {Idle}
  /\ failures \in 0..MaxFailures /\ rebuilds \in 0..MaxRebuilds

Init ==
  /\ kind \in [Records -> Kinds]
  /\ row \in [Records -> [content : Contents, visible : {TRUE}]]
  /\ fingerprint = [k \in Keys |-> None]
  /\ note = [k \in Keys |-> None]
  /\ sync = Idle
  /\ replaced = FALSE
  /\ query = Idle
  /\ failures = 0 /\ rebuilds = 0

------------------------------------------------------------------------------
(* The ledger and the operator. *)

Change(r, stamp) ==
  /\ IF kind[r] = "memory" THEN stamp.content > row[r].content ELSE stamp # row[r]
  /\ row' = [row EXCEPT ![r] = stamp]
  /\ UNCHANGED <<kind, indexVars, query>>

\* Between rounds the index may be replaced by an empty one ...
Replace ==
  /\ sync = Idle
  /\ rebuilds < MaxRebuilds
  /\ rebuilds' = rebuilds + 1
  /\ note' = [k \in Keys |-> None]
  /\ replaced' = TRUE
  /\ UNCHANGED <<kind, row, fingerprint, sync, failures, query>>

\* ... and a rebuild, at any time, invalidates the acknowledgements.
RequestRebuild ==
  /\ replaced
  /\ fingerprint' = [k \in Keys |-> IF fingerprint[k] = None THEN None ELSE Rebuild]
  /\ replaced' = FALSE
  /\ UNCHANGED <<kind, row, note, sync, failures, rebuilds, query>>

------------------------------------------------------------------------------
(* sync_once. *)

SyncStep == UNCHANGED <<kind, row, replaced, rebuilds, query>>

Batches(keys) ==
  {b \in SUBSET keys : Cardinality(b) = IF Cardinality(keys) < BatchSize
                                        THEN Cardinality(keys) ELSE BatchSize}

Obsolete == {k \in Chunks \ Wanted : fingerprint[k] # None}
Dirty == {k \in Wanted : fingerprint[k] # Stamp(k)}

Scan ==
  /\ sync = Idle
  /\ \E o \in Batches(Obsolete), d \in Batches(Dirty) :
       sync' = [pc |-> "obsolete", obsolete |-> o, dirty |-> d, key |-> None, stamp |-> None]
  /\ SyncStep /\ UNCHANGED <<fingerprint, note, failures>>

\* An acknowledged removal; a note that is absent counts as removed.
RemoveObsolete(k) ==
  /\ sync.pc = "obsolete" /\ k \in sync.obsolete
  /\ note' = [note EXCEPT ![k] = None]
  /\ sync' = [sync EXCEPT !.pc = "forget", !.key = k]
  /\ SyncStep /\ UNCHANGED <<fingerprint, failures>>

Forget ==
  /\ sync.pc = "forget"
  /\ fingerprint' = [fingerprint EXCEPT ![sync.key] = None]
  /\ sync' = [sync EXCEPT !.pc = "obsolete", !.obsolete = @ \ {sync.key}]
  /\ SyncStep /\ UNCHANGED <<note, failures>>

\* The record as it is now, not as it was scanned; one that is gone is passed over.
Load(k) ==
  /\ sync.pc \in {"obsolete", "dirty"} /\ sync.obsolete = {} /\ k \in sync.dirty
  /\ sync' = IF Loadable(k)
             THEN [sync EXCEPT !.pc = "call", !.key = k, !.stamp = Stamp(k)]
             ELSE [sync EXCEPT !.pc = "dirty", !.dirty = @ \ {k}]
  /\ SyncStep /\ UNCHANGED <<fingerprint, note, failures>>

\* client.write or client.remove.
Noted == [note EXCEPT ![sync.key] = IF sync.stamp.visible THEN sync.stamp ELSE None]

Call ==
  /\ sync.pc = "call"
  /\ note' = Noted
  /\ sync' = [sync EXCEPT !.pc = "store"]
  /\ SyncStep /\ UNCHANGED <<fingerprint, failures>>

\* Faulty: the fingerprint of the record as it is by then.
StampNow == Stamp(sync.key)
\* The fingerprint of what was written.
StampWritten == sync.stamp

Store ==
  /\ sync.pc = "store"
  /\ fingerprint' = [fingerprint EXCEPT ![sync.key] = StampWritten]
  /\ sync' = [sync EXCEPT !.pc = "dirty", !.dirty = @ \ {sync.key}]
  /\ SyncStep /\ UNCHANGED <<note, failures>>

Finish ==
  /\ sync # Idle
  /\ sync.pc \in {"obsolete", "dirty"} /\ sync.obsolete = {} /\ sync.dirty = {}
  /\ sync' = Idle
  /\ SyncStep /\ UNCHANGED <<fingerprint, note, failures>>

\* A call fails, before or after it took effect, and ends the round; or the process is
\* stopped.
Fail ==
  /\ failures < MaxFailures
  /\ failures' = failures + 1
  /\ sync # Idle
  /\ note' \in {note} \cup (IF sync.pc = "call" THEN {Noted} ELSE {})
  /\ sync' = Idle
  /\ SyncStep /\ UNCHANGED fingerprint

------------------------------------------------------------------------------
(* search. *)

SearchStep == UNCHANGED <<kind, row, indexVars>>

Item(r) == [key |-> r, stamp |-> row[r]]
Lexical(found) == {Item(r) : r \in found}

Visible == {r \in Records : row[r].visible}

Ask(found) ==
  /\ query = Idle
  /\ found \subseteq Visible
  /\ query' = [pc |-> "wait", items |-> Lexical(found)]
  /\ SearchStep

\* A hit counts if its fingerprint is that of the record as it is now.
Hydrated(hits) ==
  {Item(SourceOf(k)) : k \in {h \in hits : /\ fingerprint[h] # None
                                           /\ Loadable(h)
                                           /\ Stamp(h).visible
                                           /\ Stamp(h) = fingerprint[h]}}

\* The index answers with hits among its notes ...
Hit(hits) ==
  /\ query.pc = "wait"
  /\ \A k \in hits : note[k] # None
  /\ query' = [pc |-> "recheck", items |-> query.items \cup Hydrated(hits)]
  /\ SearchStep

\* ... or fails, and exact search answers alone.
Degrade(found) ==
  /\ query.pc = "wait"
  /\ query' = [pc |-> "recheck", items |-> Lexical(found)]
  /\ SearchStep

\* Faulty: what was found is returned.
AsFound(item) == TRUE
\* Every candidate is read once more.
StillCurrent(item) == row[item.key] = item.stamp /\ item.stamp.visible

Answer ==
  /\ query.pc = "recheck"
  /\ query' = [pc |-> "answered", items |-> {i \in query.items : StillCurrent(i)}]
  /\ SearchStep

Read == query.pc = "answered" /\ query' = Idle /\ SearchStep

------------------------------------------------------------------------------
Sync ==
  \/ Scan
  \/ \E k \in Keys : RemoveObsolete(k) \/ Load(k)
  \/ Forget \/ Call \/ Store \/ Finish

Search ==
  \/ \E found \in SUBSET Records : Ask(found) \/ Degrade(found)
  \/ \E hits \in SUBSET Keys : Hit(hits)
  \/ Answer \/ Read

Next ==
  \/ \E r \in Records, stamp \in Stamps : Change(r, stamp)
  \/ Replace \/ RequestRebuild
  \/ Sync \/ Fail
  \/ Search

Spec == Init /\ [][Next]_vars

------------------------------------------------------------------------------
(* Properties. *)

Working(k) == sync # Idle /\ sync.pc \in {"forget", "call", "store"} /\ sync.key = k

NoteCurrent(k) ==
  note[k] = IF Stamp(k).visible THEN Stamp(k) ELSE None

Acknowledged(k) == ~replaced /\ fingerprint[k] = Stamp(k) /\ ~Working(k)

\* A record whose fingerprint is the current one has the note that goes with it, or none if
\* it was withdrawn: no change during a call, rebuild, lost acknowledgement or stop leaves
\* a wrong note that reconciliation would pass over.  For sources only while no call has
\* failed (see Restored).
NotesCurrent ==
  \A k \in Wanted : Acknowledged(k) /\ (kind[SourceOf(k)] = "memory" \/ failures = 0)
    => NoteCurrent(k)

\* "Restoring/accepting the record projects it again": the same of every record.
Restored == \A k \in Wanted : Acknowledged(k) => NoteCurrent(k)

\* A withdrawn record never comes out of a search that was waiting for the index when it
\* was withdrawn, nor does an outdated content.
AnswersCurrent ==
  [][query.pc = "recheck" /\ query'.pc = "answered" =>
       \A i \in query'.items : row[i.key] = i.stamp /\ row[i.key].visible]_vars
=============================================================================
