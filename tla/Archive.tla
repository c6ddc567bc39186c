------------------------------ MODULE Archive ------------------------------
(***************************************************************************)
(* Cold storage of raw evidence: rows of SQLite hold raw values inline     *)
(* until a worker has moved them into immutable packs on another machine.  *)
(* A transfer reads a batch, talks to the archive without any lock, and    *)
(* retires the inline values in one transaction.  Captures go on           *)
(* meanwhile; a second worker (the command line) and the conversion of     *)
(* encrypted packs run beside it.  The archive comes and goes: any step    *)
(* that needs it may fail; and a pack may be found damaged.                *)
(*                                                                         *)
(* A value stands for its own digest, and a pack for its own key.          *)
(***************************************************************************)
EXTENDS Naturals, FiniteSets

CONSTANTS
  Rows,       \* ids of sync events and messages, in their order
  Values,     \* raw JSON values
  Workers,
  Limit,      \* evidence_queue_bytes, in values
  Batch,      \* rows of a batch
  Encodings,  \* the encodings workers are configured for
  MaxCaptures,\* bound: captures accepted
  MaxDamage,  \* bound: packs found damaged
  None

ASSUME ArchiveAssumption ==
  /\ Rows \subseteq Nat /\ IsFiniteSet(Rows)
  /\ Limit \in Nat /\ Batch \in Nat \ {0} /\ MaxCaptures \in Nat
  /\ Encodings \subseteq {"gzip", "gzip+age"}
  /\ None \notin Values

VARIABLES
  raw, ref,   \* the two columns of a row
  catalog,    \* evidence_objects: the pack of a digest
  packs,      \* what the archive holds
  damaged,    \* the packs that no longer verify
  transfer,   \* the transfer each worker is at
  conversion, \* migrate_plaintext
  accepted,   \* history: the value last accepted for each row
  captures    \* history: how many were

queueVars == <<raw, ref, catalog, accepted, captures>>
vars == <<queueVars, packs, damaged, transfer, conversion>>

Packs == [encoding : {"gzip", "gzip+age"}, objects : SUBSET Values]
ASSUME NoneAssumption == None \notin Packs
Readable == packs \ damaged

Idle == [pc |-> "idle"]
Pcs == {"verify", "put", "read", "retire"}
\* known is what the catalog said of the values of the batch, seen the packs read back.
IsTransfer(t) ==
  /\ DOMAIN t = {"pc", "batch", "known", "pack", "seen"}
  /\ t.pc \in Pcs
  /\ DOMAIN t.batch \subseteq Rows /\ \A r \in DOMAIN t.batch : t.batch[r] \in Values
  /\ DOMAIN t.known \subseteq Values /\ \A v \in DOMAIN t.known : t.known[v] \in Packs \cup {None}
  /\ t.pack \in Packs \cup {None}
  /\ t.seen \in SUBSET Packs

Conversions == [pc : {"put", "read", "point"}, old : Packs, before : SUBSET Values]

TypeOK ==
  /\ raw \in [Rows -> Values \cup {None}]
  /\ ref \in [Rows -> Values \cup {None}]
  /\ catalog \in [Values -> Packs \cup {None}]
  /\ packs \in SUBSET Packs
  /\ damaged \in SUBSET packs
  /\ DOMAIN transfer = Workers
  /\ \A w \in Workers : transfer[w] = Idle \/ IsTransfer(transfer[w])
  /\ conversion \in Conversions \cup {Idle}
  /\ accepted \in [Rows -> Values \cup {None}]
  /\ captures \in 0..MaxCaptures

Init ==
  /\ raw = [r \in Rows |-> None]
  /\ ref = [r \in Rows |-> None]
  /\ catalog = [v \in Values |-> None]
  /\ packs = {}
  /\ damaged = {}
  /\ transfer = [w \in Workers |-> Idle]
  /\ conversion = Idle
  /\ accepted = raw
  /\ captures = 0

------------------------------------------------------------------------------
(* Captures, and the world. *)

Inline == {r \in Rows : raw[r] # None}

\* Evidence in another row or in place of a message's; a value the row already has, inline
\* or archived, is left alone.  A full queue rolls the capture back.
Capture(r, v) ==
  /\ v \notin {raw[r], ref[r]}
  /\ Cardinality(Inline \cup {r}) <= Limit
  /\ captures < MaxCaptures
  /\ captures' = captures + 1
  /\ raw' = [raw EXCEPT ![r] = v]
  /\ ref' = [ref EXCEPT ![r] = None]
  /\ accepted' = [accepted EXCEPT ![r] = v]
  /\ UNCHANGED <<catalog, packs, damaged, transfer, conversion>>

Damage(p) ==
  /\ Cardinality(damaged) < MaxDamage
  /\ damaged' = damaged \cup {p}
  /\ UNCHANGED <<queueVars, packs, transfer, conversion>>

------------------------------------------------------------------------------
(* transfer_batch. *)

Advance(w, t) ==
  /\ transfer' = [transfer EXCEPT ![w] = t]
  /\ UNCHANGED conversion

First(rows) == {r \in rows : Cardinality({q \in rows : q < r}) < Batch}

Read(w) ==
  LET b == First(Inline) IN
  /\ transfer[w] = Idle
  /\ b # {}
  /\ Advance(w, [pc |-> "verify", batch |-> [r \in b |-> raw[r]], known |-> [v \in {raw[r] : r \in b} |-> catalog[v]],
                 pack |-> None, seen |-> {}])
  /\ UNCHANGED <<queueVars, packs, damaged>>

Wanted(w) == DOMAIN transfer[w].known
Existing(w) == {v \in Wanted(w) : transfer[w].known[v] # None}
Named(w) == {transfer[w].known[v] : v \in Existing(w)}

\* Faulty: a catalog entry is taken as proof.
TrustsCatalog(w) == {}
\* Packs of values archived before are read again.
ToVerify(w) == Named(w)

Verify(w) ==
  /\ transfer[w].pc = "verify"
  /\ ToVerify(w) \subseteq Readable
  /\ Advance(w, [transfer[w] EXCEPT !.pc = IF Wanted(w) = Existing(w) THEN "retire" ELSE "put",
                                    !.seen = ToVerify(w)])
  /\ UNCHANGED <<queueVars, packs, damaged>>

\* The receiver links a complete file into place and never overwrites one.
Received(p) == packs' = packs \cup {p}

\* write_pack, to the acknowledgement ...
Put(w, encoding) ==
  LET p == [encoding |-> encoding, objects |-> Wanted(w) \ Existing(w)] IN
  /\ transfer[w].pc = "put"
  /\ Received(p)
  /\ Advance(w, [transfer[w] EXCEPT !.pc = "read", !.pack = p])
  /\ UNCHANGED <<queueVars, damaged>>

\* ... and the verification of what was written.
ReadBack(w) ==
  /\ transfer[w].pc = "read"
  /\ transfer[w].pack \in Readable
  /\ Advance(w, [transfer[w] EXCEPT !.pc = "retire", !.seen = @ \cup {transfer[w].pack}])
  /\ UNCHANGED <<queueVars, packs, damaged>>

\* Faulty: the row is updated whatever it holds now.
AnyRow(w) == DOMAIN transfer[w].batch
\* The rows that still hold what was archived.
Unchanged(w) == {r \in DOMAIN transfer[w].batch : raw[r] = transfer[w].batch[r]}

\* INSERT OR IGNORE, and the compare-and-swap of each row.
Retire(w) ==
  LET t == transfer[w] IN
  /\ t.pc = "retire"
  /\ catalog' = [v \in Values |->
                   IF v \notin Wanted(w) \/ catalog[v] # None THEN catalog[v]
                   ELSE IF t.known[v] # None THEN t.known[v] ELSE t.pack]
  /\ raw' = [r \in Rows |-> IF r \in Unchanged(w) THEN None ELSE raw[r]]
  /\ ref' = [r \in Rows |-> IF r \in Unchanged(w) THEN t.batch[r] ELSE ref[r]]
  /\ Advance(w, Idle)
  /\ UNCHANGED <<packs, damaged, accepted, captures>>

\* Any step may fail or be stopped; nothing but bytes in the archive is left of it.
Fail(w) ==
  /\ transfer[w] # Idle
  /\ Advance(w, Idle)
  /\ UNCHANGED <<queueVars, packs, damaged>>

------------------------------------------------------------------------------
(* migrate_pack, one encrypted pack after another. *)

Entries(p) == {v \in Values : catalog[v] = p}

ConvertStep(c) ==
  /\ conversion' = c
  /\ UNCHANGED <<raw, ref, accepted, captures, damaged, transfer>>

Convert(p) ==
  /\ conversion = Idle
  /\ p \in Readable /\ p.encoding = "gzip+age"
  /\ Entries(p) \subseteq p.objects
  /\ ConvertStep([pc |-> "put", old |-> p, before |-> Entries(p)])
  /\ UNCHANGED <<catalog, packs>>

Plain(p) == [p EXCEPT !.encoding = "gzip"]

ConvertPut ==
  /\ conversion.pc = "put"
  /\ Received(Plain(conversion.old))
  /\ ConvertStep([conversion EXCEPT !.pc = "read"])
  /\ UNCHANGED catalog

ConvertRead ==
  /\ conversion.pc = "read"
  /\ Plain(conversion.old) \in Readable
  /\ ConvertStep([conversion EXCEPT !.pc = "point"])
  /\ UNCHANGED <<catalog, packs>>

\* The catalog is compared again under the write lock.
Point ==
  /\ conversion.pc = "point"
  /\ Entries(conversion.old) = conversion.before
  /\ catalog' = [v \in Values |-> IF v \in conversion.before THEN Plain(conversion.old)
                                  ELSE catalog[v]]
  /\ ConvertStep(Idle)
  /\ UNCHANGED packs

ConvertFail ==
  /\ conversion # Idle
  /\ ConvertStep(Idle)
  /\ UNCHANGED <<catalog, packs>>

------------------------------------------------------------------------------
Transfer(w) ==
  \/ Read(w) \/ Verify(w) \/ ReadBack(w) \/ Retire(w)
  \/ \E encoding \in Encodings : Put(w, encoding)

Conversion ==
  \/ \E p \in packs : Convert(p)
  \/ ConvertPut \/ ConvertRead \/ Point \/ ConvertFail

World ==
  \/ \E r \in Rows, v \in Values : Capture(r, v)
  \/ \E p \in Readable : Damage(p)

Next == World \/ Conversion \/ \E w \in Workers : Transfer(w) \/ Fail(w)

Spec == Init /\ [][Next]_vars

------------------------------------------------------------------------------
(* Properties. *)

\* "No evidence is silently dropped": the value last accepted for a row is in the row, or
\* the row's reference leads through the catalog to a pack of the archive that has it.  A
\* pack that was found damaged since counts too, and may hold the only copy; that it was
\* intact when the row let go is RetiresVerified.
EvidenceRetrievable ==
  \A r \in Rows : accepted[r] # None =>
    \/ raw[r] = accepted[r]
    \/ /\ ref[r] = accepted[r]
       /\ catalog[ref[r]] \in packs
       /\ ref[r] \in catalog[ref[r]].objects

\* "An old catalog receipt is not enough": an inline value goes only after the pack it is
\* to be found in was read intact in the same transfer; or the pack is one that another
\* worker has archived the value in since, and has read intact in its turn.
Verifies ==
  \A r \in Rows : raw[r] # None /\ raw'[r] = None =>
    \E w \in Workers :
      /\ transfer[w].pc = "retire" /\ r \in Unchanged(w)
      /\ \/ catalog'[raw[r]] \in transfer[w].seen
         \/ catalog[raw[r]] # transfer[w].known[raw[r]]
RetiresVerified == [][Verifies]_vars
=============================================================================
