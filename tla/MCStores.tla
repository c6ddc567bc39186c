------------------------------ MODULE MCStores ------------------------------
(***************************************************************************)
(* The archive of evidence and the Markdown vault, each on a small         *)
(* instance of its own, in one run.                                        *)
(***************************************************************************)
EXTENDS Archive, TLC

CONSTANTS Folders, Entities, Shared, User

\* Symmetric sets of either are those of the other.
Sessions == Values
Requests == Workers

\* The name old notes share is not one of a folder's, and no request is none.
ASSUME VaultAssumption ==
  /\ Shared \notin Folders \X Sessions
  /\ None \notin Sessions \cup Requests

VARIABLES row, note, entity, index, lock, tx, torn, behind

V == INSTANCE Vault

VARIABLE store

vault == <<row, note, entity, index, lock, tx, torn, behind>>

StoresInit ==
  /\ Init
  /\ \/ /\ store = "archive"
        /\ row = None /\ note = None /\ entity = None /\ index = None
        /\ lock = None /\ tx = None /\ torn = None /\ behind = None
     \/ store = "vault" /\ V!Init

ArchiveNext == store = "archive" /\ Next /\ UNCHANGED <<vault, store>>
VaultNext == store = "vault" /\ V!Next /\ UNCHANGED <<vars, store>>

Stores == StoresInit /\ [][ArchiveNext \/ VaultNext]_<<vars, vault, store>>

Symmetry == Permutations(Workers) \cup Permutations(Values) \cup Permutations(Folders)

\* Types of both, and the lock of the vault is held by a request that exports.
TypesOK == TypeOK /\ (store = "vault" => V!TypeOK)

\* Accepted evidence is hot or in a pack of the archive, which may have been damaged since
\* it was verified; a conversation whose last request succeeded has its note where its row
\* says; and with no request under way the notes of entities and the dashboards are those of
\* the ledger, unless the last export failed or passed over an open transaction.
StoresHold == EvidenceRetrievable /\ (store = "vault" => V!NoteFound /\ V!GraphCurrent)

\* The archive lets go only of values that it has read back, and an export removes or
\* overwrites no note of another conversation and no file of the owner's.
NothingTaken ==
  [][IF store = "vault" THEN V!KeepsOthers ELSE Verifies]_<<vars, vault, store>>
=============================================================================
