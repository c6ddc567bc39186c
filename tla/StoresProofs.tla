---------------------------- MODULE StoresProofs ----------------------------
(***************************************************************************)
(* The evidence archive and the Markdown vault, for any numbers of rows,   *)
(* values, workers, conversations, folders, entities and requests, and any *)
(* bounds.                                                                 *)
(***************************************************************************)
EXTENDS MCStores, FiniteSetTheorems, TLAPS

------------------------------------------------------------------------------
(* The archive. *)

Archived(v) == catalog[v] \in packs /\ v \in catalog[v].objects

\* A row has the value accepted for it, or a reference to where it went.
RowHolds(r) ==
  /\ raw[r] # None => raw[r] = accepted[r]
  /\ raw[r] = None /\ accepted[r] # None => ref[r] = accepted[r] /\ catalog[ref[r]] # None

\* A transfer knows packs that have its values, has read those it found in the catalog
\* before it writes, and its own before it retires.
TransferHolds(w) ==
  LET t == transfer[w] IN
  t # Idle =>
    /\ \A r \in DOMAIN t.batch : t.batch[r] \in DOMAIN t.known
    /\ \A v \in DOMAIN t.known :
         /\ t.known[v] # None => t.known[v] \in packs /\ v \in t.known[v].objects
         /\ t.known[v] # None /\ t.pc # "verify" => t.known[v] \in t.seen
         /\ t.known[v] = None /\ t.pc \in {"read", "retire"} => t.pack \in packs /\ v \in t.pack.objects
         /\ t.known[v] = None /\ t.pc = "retire" => t.pack \in t.seen

\* A conversion has a plain pack with the values of the old one.
ConversionHolds ==
  conversion # Idle =>
    /\ conversion.before \subseteq conversion.old.objects
    /\ conversion.pc \in {"read", "point"} => Plain(conversion.old) \in packs

ArchiveInv ==
  /\ TypeOK
  /\ \A v \in Values : catalog[v] # None => Archived(v)
  /\ \A r \in Rows : RowHolds(r)
  /\ \A w \in Workers : TransferHolds(w)
  /\ ConversionHolds

LEMMA ArchiveStart == Init => ArchiveInv
BY ArchiveAssumption DEF Init, ArchiveInv, TypeOK, RowHolds, TransferHolds, ConversionHolds, Idle

\* A step of one worker that leaves the queue alone; packs are only added.
LEMMA WorkerKeeps ==
  ASSUME ArchiveInv, NEW w \in Workers, NEW t, Advance(w, t),
         UNCHANGED <<queueVars, damaged>>, packs \subseteq packs', packs' \subseteq Packs,
         t = Idle \/ IsTransfer(t),
         t # Idle =>
           /\ \A r \in DOMAIN t.batch : t.batch[r] \in DOMAIN t.known
           /\ \A v \in DOMAIN t.known :
                /\ t.known[v] # None => t.known[v] \in packs /\ v \in t.known[v].objects
                /\ t.known[v] # None /\ t.pc # "verify" => t.known[v] \in t.seen
                /\ t.known[v] = None /\ t.pc \in {"read", "retire"} =>
                     t.pack \in packs' /\ v \in t.pack.objects
                /\ t.known[v] = None /\ t.pc = "retire" => t.pack \in t.seen
  PROVE  ArchiveInv'
<1>1. transfer'[w] = t /\ DOMAIN transfer' = Workers
      /\ \A u \in Workers : u # w => transfer'[u] = transfer[u]
  BY DEF Advance, ArchiveInv, TypeOK
<1>2. UNCHANGED <<raw, ref, catalog, accepted, captures, conversion, damaged>>
  BY DEF Advance, queueVars
<1>3. TypeOK'
  <2>1. \A u \in Workers : transfer'[u] = Idle \/ IsTransfer(transfer'[u])
    BY <1>1 DEF ArchiveInv, TypeOK
  <2>2. QED
    BY <1>1, <1>2, <2>1 DEF ArchiveInv, TypeOK, IsTransfer
<1>4. \A v \in Values : catalog'[v] # None => Archived(v)'
  BY <1>2 DEF ArchiveInv, Archived
<1>5. \A r \in Rows : RowHolds(r)'
  BY <1>2 DEF ArchiveInv, RowHolds
<1>6. ASSUME NEW u \in Workers PROVE TransferHolds(u)'
  <2>1. CASE u = w
    BY <1>1, <2>1 DEF TransferHolds
  <2>2. CASE u # w
    BY <1>1, <2>2 DEF ArchiveInv, TransferHolds
  <2>3. QED
    BY <2>1, <2>2
<1>7. ConversionHolds'
  BY <1>2 DEF ArchiveInv, ConversionHolds, Plain
<1>8. QED
  BY <1>3, <1>4, <1>5, <1>6, <1>7 DEF ArchiveInv

LEMMA ReadKeeps ==
  ASSUME ArchiveInv, NEW w \in Workers, Read(w)
  PROVE  ArchiveInv'
<1>. DEFINE b == First(Inline)
            vs == {raw[r] : r \in b}
            t == [pc |-> "verify", batch |-> [r \in b |-> raw[r]], known |-> [v \in vs |-> catalog[v]],
                  pack |-> None, seen |-> {}]
<1>1. Advance(w, t) /\ UNCHANGED <<queueVars, packs, damaged>>
  BY DEF Read
<1>2. b \subseteq Rows /\ \A r \in b : raw[r] # None
  BY DEF First, Inline
<1>3. \A r \in b : raw[r] \in Values
  BY <1>2 DEF ArchiveInv, TypeOK
<1>4. vs \subseteq Values /\ \A r \in b : raw[r] \in vs
  BY <1>3
<1>. HIDE DEF b, vs
<1>5. IsTransfer(t)
  BY <1>2, <1>3, <1>4 DEF IsTransfer, Pcs, ArchiveInv, TypeOK
<1>6. QED
  BY <1>1, <1>4, <1>5, WorkerKeeps DEF ArchiveInv, TypeOK, Archived

LEMMA VerifyKeeps ==
  ASSUME ArchiveInv, NEW w \in Workers, Verify(w)
  PROVE  ArchiveInv'
<1>. DEFINE old == transfer[w]
            named == {old.known[v] : v \in {u \in DOMAIN old.known : old.known[u] # None}}
            t == [old EXCEPT !.pc = IF Wanted(w) = Existing(w) THEN "retire" ELSE "put",
                             !.seen = ToVerify(w)]
<1>1. old.pc = "verify" /\ ToVerify(w) \subseteq Readable /\ Advance(w, t)
      /\ UNCHANGED <<queueVars, packs, damaged>>
  BY DEF Verify
<1>2. old # Idle /\ IsTransfer(old) /\ TransferHolds(w) /\ ToVerify(w) = named
  BY <1>1 DEF ArchiveInv, TypeOK, Idle, ToVerify, Named, Existing, Wanted
<1>3. /\ t.pc \in {"put", "retire"} /\ t.seen = named /\ DOMAIN t = DOMAIN old
      /\ t.batch = old.batch /\ t.known = old.known /\ t.pack = old.pack
      /\ t.pc = "retire" => \A v \in DOMAIN old.known : old.known[v] # None
  BY <1>2 DEF IsTransfer, Existing, Wanted
<1>4. named \subseteq packs
  BY <1>1, <1>2 DEF Readable
<1>. HIDE DEF t
<1>5. IsTransfer(t)
  BY <1>2, <1>3, <1>4 DEF IsTransfer, Pcs, ArchiveInv, TypeOK
<1>6. QED
  BY <1>1, <1>2, <1>3, <1>5, WorkerKeeps DEF ArchiveInv, TypeOK, TransferHolds

LEMMA PutKeeps ==
  ASSUME ArchiveInv, NEW w \in Workers, NEW encoding \in Encodings, Put(w, encoding)
  PROVE  ArchiveInv'
<1>. DEFINE old == transfer[w]
            p == [encoding |-> encoding, objects |-> Wanted(w) \ Existing(w)]
            t == [old EXCEPT !.pc = "read", !.pack = p]
<1>1. old.pc = "put" /\ packs' = packs \cup {p} /\ Advance(w, t) /\ UNCHANGED <<queueVars, damaged>>
  BY DEF Put, Received
<1>2. old # Idle /\ IsTransfer(old) /\ TransferHolds(w)
  BY <1>1 DEF ArchiveInv, TypeOK, Idle
<1>3. p \in Packs
  BY <1>2, ArchiveAssumption DEF Packs, Wanted, Existing, IsTransfer
<1>4. \A v \in DOMAIN old.known : old.known[v] = None => v \in p.objects
  BY DEF Wanted, Existing
<1>5. /\ t.pc = "read" /\ t.pack = p /\ t.seen = old.seen /\ DOMAIN t = DOMAIN old
      /\ t.batch = old.batch /\ t.known = old.known
  BY <1>2 DEF IsTransfer
<1>. HIDE DEF t, p
<1>6. IsTransfer(t)
  BY <1>2, <1>3, <1>5 DEF IsTransfer, Pcs
<1>7. packs' \subseteq Packs
  BY <1>1, <1>3 DEF ArchiveInv, TypeOK
<1>8. QED
  BY <1>1, <1>2, <1>4, <1>5, <1>6, <1>7, WorkerKeeps DEF TransferHolds

LEMMA ReadBackKeeps ==
  ASSUME ArchiveInv, NEW w \in Workers, ReadBack(w)
  PROVE  ArchiveInv'
<1>. DEFINE old == transfer[w]
            t == [old EXCEPT !.pc = "retire", !.seen = @ \cup {old.pack}]
<1>1. old.pc = "read" /\ old.pack \in packs /\ Advance(w, t)
      /\ UNCHANGED <<queueVars, packs, damaged>>
  BY DEF ReadBack, Readable
<1>2. old # Idle /\ IsTransfer(old) /\ TransferHolds(w)
  BY <1>1 DEF ArchiveInv, TypeOK, Idle
<1>3. /\ t.pc = "retire" /\ t.pack = old.pack /\ t.seen = old.seen \cup {old.pack}
      /\ t.batch = old.batch /\ t.known = old.known /\ DOMAIN t = DOMAIN old
  BY <1>2 DEF IsTransfer
<1>. HIDE DEF t
<1>4. IsTransfer(t)
  BY <1>1, <1>2, <1>3 DEF IsTransfer, Pcs, ArchiveInv, TypeOK
<1>5. QED
  BY <1>1, <1>2, <1>3, <1>4, WorkerKeeps DEF TransferHolds, ArchiveInv, TypeOK

\* A value that goes is found in the catalog from now on.
LEMMA RetireKeeps ==
  ASSUME ArchiveInv, NEW w \in Workers, Retire(w)
  PROVE  /\ ArchiveInv'
         /\ transfer[w].pc = "retire"
         /\ \A r \in Rows : raw[r] # None /\ raw'[r] = None =>
              /\ r \in Unchanged(w)
              /\ \/ catalog'[raw[r]] \in transfer[w].seen
                 \/ catalog[raw[r]] # transfer[w].known[raw[r]]
<1>. DEFINE t == transfer[w]
            u == Unchanged(w)
<1>1. /\ t.pc = "retire"
      /\ catalog' = [v \in Values |->
                       IF v \notin DOMAIN t.known \/ catalog[v] # None THEN catalog[v]
                       ELSE IF t.known[v] # None THEN t.known[v] ELSE t.pack]
      /\ raw' = [r \in Rows |-> IF r \in u THEN None ELSE raw[r]]
      /\ ref' = [r \in Rows |-> IF r \in u THEN t.batch[r] ELSE ref[r]]
      /\ Advance(w, Idle)
      /\ UNCHANGED <<packs, damaged, accepted, captures>>
  BY DEF Retire, Wanted
<1>2. IsTransfer(t) /\ TransferHolds(w) /\ t # Idle
  BY <1>1 DEF ArchiveInv, TypeOK, Idle
<1>3. \A v \in DOMAIN t.known :
        /\ t.known[v] # None => t.known[v] \in packs /\ v \in t.known[v].objects
                                /\ t.known[v] \in t.seen
        /\ t.known[v] = None => t.pack \in packs /\ v \in t.pack.objects /\ t.pack \in t.seen
  BY <1>1, <1>2 DEF TransferHolds
<1>4. \A r \in u : r \in Rows /\ raw[r] = t.batch[r] /\ t.batch[r] \in DOMAIN t.known
                   /\ t.batch[r] \in Values
  BY <1>2 DEF Unchanged, IsTransfer, TransferHolds
<1>. HIDE DEF u
<1>5. packs \subseteq Packs /\ None \notin packs
  BY NoneAssumption DEF ArchiveInv, TypeOK
<1>6. \A v \in Values : /\ catalog[v] # None => catalog'[v] = catalog[v]
                        /\ v \in DOMAIN t.known => catalog'[v] # None
                        /\ catalog'[v] # None => catalog'[v] \in packs /\ v \in catalog'[v].objects
  BY <1>1, <1>3, <1>5 DEF ArchiveInv, Archived
<1>7. transfer'[w] = Idle /\ DOMAIN transfer' = Workers /\ conversion' = conversion
      /\ \A x \in Workers : x # w => transfer'[x] = transfer[x]
  BY <1>1 DEF Advance, ArchiveInv, TypeOK
<1>8. TypeOK'
  <2>1. catalog' \in [Values -> Packs \cup {None}]
    BY <1>1, <1>5, <1>6
  <2>2. raw' \in [Rows -> Values \cup {None}] /\ ref' \in [Rows -> Values \cup {None}]
    BY <1>1, <1>4 DEF ArchiveInv, TypeOK
  <2>3. \A x \in Workers : transfer'[x] = Idle \/ IsTransfer(transfer'[x])
    BY <1>7 DEF ArchiveInv, TypeOK
  <2>4. QED
    BY <1>1, <1>7, <2>1, <2>2, <2>3 DEF ArchiveInv, TypeOK, IsTransfer
<1>9. \A v \in Values : catalog'[v] # None => Archived(v)'
  BY <1>1, <1>6 DEF Archived
<1>10. ASSUME NEW r \in Rows PROVE RowHolds(r)'
  <2>1. RowHolds(r) /\ accepted'[r] = accepted[r] /\ accepted[r] \in Values \cup {None}
    BY <1>1 DEF ArchiveInv, TypeOK
  <2>2. CASE r \in u
    <3>1. raw'[r] = None /\ ref'[r] = raw[r] /\ raw[r] = accepted[r]
      BY <1>1, <1>4, <2>1, <2>2, ArchiveAssumption DEF RowHolds
    <3>2. QED
      BY <1>4, <1>6, <2>1, <2>2, <3>1 DEF RowHolds
  <2>3. CASE r \notin u
    BY <1>1, <1>6, <2>1, <2>3 DEF RowHolds
  <2>4. QED
    BY <2>2, <2>3
<1>11. ASSUME NEW x \in Workers PROVE TransferHolds(x)'
  BY <1>1, <1>7 DEF ArchiveInv, TransferHolds
<1>12. ConversionHolds'
  BY <1>1, <1>7 DEF ArchiveInv, ConversionHolds, Plain
<1>13. ASSUME NEW r \in Rows, raw[r] # None, raw'[r] = None
       PROVE  /\ r \in u
              /\ \/ catalog'[raw[r]] \in t.seen
                 \/ catalog[raw[r]] # t.known[raw[r]]
  <2>1. r \in u
    BY <1>1, <1>13
  <2>2. raw[r] \in Values /\ raw[r] \in DOMAIN t.known
    BY <1>4, <2>1
  <2>3. QED
    BY <1>1, <1>3, <2>1, <2>2
<1>14. QED
  BY <1>1, <1>8, <1>9, <1>10, <1>11, <1>12, <1>13 DEF ArchiveInv, u

\* A transfer that fails leaves what the archive already holds.
LEMMA FailKeeps ==
  ASSUME ArchiveInv, NEW w \in Workers, Fail(w)
  PROVE  ArchiveInv'
<1>1. Advance(w, Idle) /\ UNCHANGED <<queueVars, packs, damaged>>
  BY DEF Fail
<1>2. QED
  BY <1>1, WorkerKeeps DEF ArchiveInv, TypeOK

\* A row that is captured again has its value inline.
LEMMA CaptureKeeps ==
  ASSUME ArchiveInv, NEW r \in Rows, NEW v \in Values, Capture(r, v)
  PROVE  ArchiveInv'
<1>1. /\ raw' = [raw EXCEPT ![r] = v] /\ ref' = [ref EXCEPT ![r] = None]
      /\ accepted' = [accepted EXCEPT ![r] = v] /\ captures' = captures + 1
      /\ captures < MaxCaptures
      /\ UNCHANGED <<catalog, packs, damaged, transfer, conversion>>
  BY DEF Capture
<1>2. TypeOK'
  BY <1>1, ArchiveAssumption DEF ArchiveInv, TypeOK, IsTransfer
<1>3. \A x \in Values : catalog'[x] # None => Archived(x)'
  BY <1>1 DEF ArchiveInv, Archived
<1>4. \A q \in Rows : RowHolds(q)'
  BY <1>1, ArchiveAssumption DEF ArchiveInv, TypeOK, RowHolds
<1>5. \A w \in Workers : TransferHolds(w)'
  BY <1>1 DEF ArchiveInv, TransferHolds
<1>6. ConversionHolds'
  BY <1>1 DEF ArchiveInv, ConversionHolds, Plain
<1>7. QED
  BY <1>2, <1>3, <1>4, <1>5, <1>6 DEF ArchiveInv

\* A damaged pack is still a pack.
LEMMA DamageKeeps ==
  ASSUME ArchiveInv, NEW p \in Readable, Damage(p)
  PROVE  ArchiveInv'
<1>1. damaged' = damaged \cup {p} /\ p \in packs
      /\ UNCHANGED <<raw, ref, catalog, accepted, captures, packs, transfer, conversion>>
  BY DEF Damage, Readable, queueVars
<1>2. TypeOK'
  BY <1>1 DEF ArchiveInv, TypeOK, IsTransfer
<1>3. \A x \in Values : catalog'[x] # None => Archived(x)'
  BY <1>1 DEF ArchiveInv, Archived
<1>4. \A q \in Rows : RowHolds(q)'
  BY <1>1 DEF ArchiveInv, RowHolds
<1>5. \A w \in Workers : TransferHolds(w)'
  BY <1>1 DEF ArchiveInv, TransferHolds
<1>6. ConversionHolds'
  BY <1>1 DEF ArchiveInv, ConversionHolds, Plain
<1>7. QED
  BY <1>2, <1>3, <1>4, <1>5, <1>6 DEF ArchiveInv

\* A step of the conversion; packs are only added, and a value found stays so.
LEMMA ConversionKeeps ==
  ASSUME ArchiveInv, NEW c, ConvertStep(c), c \in Conversions \cup {Idle},
         packs \subseteq packs', packs' \subseteq Packs,
         catalog' \in [Values -> Packs \cup {None}],
         \A v \in Values : /\ catalog[v] # None => catalog'[v] # None
                           /\ catalog'[v] # None => Archived(v)',
         c # Idle => /\ c.before \subseteq c.old.objects
                     /\ c.pc \in {"read", "point"} => Plain(c.old) \in packs'
  PROVE  ArchiveInv'
<1>1. conversion' = c /\ UNCHANGED <<raw, ref, accepted, captures, damaged, transfer>>
  BY DEF ConvertStep
<1>2. TypeOK'
  <2>1. \A w \in Workers : transfer'[w] = Idle \/ IsTransfer(transfer'[w])
    BY <1>1 DEF ArchiveInv, TypeOK
  <2>2. QED
    BY <1>1, <2>1 DEF ArchiveInv, TypeOK, IsTransfer
<1>3. ASSUME NEW r \in Rows PROVE RowHolds(r)'
  BY <1>1 DEF ArchiveInv, TypeOK, RowHolds
<1>4. ASSUME NEW w \in Workers PROVE TransferHolds(w)'
  BY <1>1 DEF ArchiveInv, TransferHolds
<1>5. ConversionHolds'
  BY <1>1 DEF ConversionHolds, Plain
<1>6. QED
  BY <1>2, <1>3, <1>4, <1>5 DEF ArchiveInv

LEMMA PlainType == \A p \in Packs : /\ Plain(p) \in Packs /\ Plain(p).objects = p.objects
BY DEF Packs, Plain

\* No step of the conversion loses the pack of a value.
LEMMA ConvertKeeps ==
  ASSUME ArchiveInv, Conversion
  PROVE  ArchiveInv'
<1>. DEFINE old == conversion.old
<1>1. CASE conversion # Idle
  <2>1. conversion \in Conversions /\ old \in Packs /\ Plain(old) \in Packs
        /\ Plain(old).objects = old.objects /\ conversion.before \subseteq Values
    BY <1>1, PlainType DEF ArchiveInv, TypeOK, Conversions
  <2>2. conversion.before \subseteq old.objects
    BY <1>1 DEF ArchiveInv, ConversionHolds
  <2>3. CASE ConvertPut
    <3>1. packs' = packs \cup {Plain(old)} /\ catalog' = catalog
      BY <2>3 DEF ConvertPut, Received
    <3>2. PICK c : c = [conversion EXCEPT !.pc = "read"]
      OBVIOUS
    <3>3. ConvertStep(c) /\ c \in Conversions /\ c.before = conversion.before /\ c.old = old
      BY <2>1, <2>3, <3>2 DEF ConvertPut, Conversions
    <3>4. QED
      BY <2>1, <2>2, <3>1, <3>3, ConversionKeeps DEF ArchiveInv, TypeOK, Archived
  <2>4. CASE ConvertRead
    <3>1. packs' = packs /\ catalog' = catalog /\ Plain(old) \in packs
      BY <2>4 DEF ConvertRead, Readable
    <3>2. PICK c : c = [conversion EXCEPT !.pc = "point"]
      OBVIOUS
    <3>3. ConvertStep(c) /\ c \in Conversions /\ c.before = conversion.before /\ c.old = old
      BY <2>1, <2>4, <3>2 DEF ConvertRead, Conversions
    <3>4. QED
      BY <2>1, <2>2, <3>1, <3>3, ConversionKeeps DEF ArchiveInv, TypeOK, Archived
  <2>5. CASE Point
    <3>1. /\ conversion.pc = "point" /\ packs' = packs /\ ConvertStep(Idle)
          /\ catalog' = [v \in Values |-> IF v \in conversion.before THEN Plain(old) ELSE catalog[v]]
      BY <2>5 DEF Point
    <3>2. Plain(old) \in packs /\ Plain(old) # None
      BY <1>1, <2>1, <3>1, NoneAssumption DEF ArchiveInv, ConversionHolds
    <3>3. catalog' \in [Values -> Packs \cup {None}]
      BY <2>1, <3>1 DEF ArchiveInv, TypeOK
    <3>4. \A v \in Values : /\ catalog[v] # None => catalog'[v] # None
                            /\ catalog'[v] # None => Archived(v)'
      BY <2>1, <2>2, <3>1, <3>2 DEF ArchiveInv, Archived
    <3>5. QED
      BY <3>1, <3>3, <3>4, ConversionKeeps DEF ArchiveInv, TypeOK
  <2>6. CASE ConvertFail
    <3>1. ConvertStep(Idle) /\ UNCHANGED <<catalog, packs>>
      BY <2>6 DEF ConvertFail
    <3>2. QED
      BY <3>1, ConversionKeeps DEF ArchiveInv, TypeOK, Archived
  <2>7. QED
    BY <1>1, <2>3, <2>4, <2>5, <2>6 DEF Conversion, Convert
<1>2. CASE conversion = Idle
  <2>1. PICK p \in packs : Convert(p)
    BY <1>2 DEF Conversion, ConvertPut, ConvertRead, Point, ConvertFail, Idle
  <2>2. PICK c : c = [pc |-> "put", old |-> p, before |-> Entries(p)]
    OBVIOUS
  <2>3. ConvertStep(c) /\ UNCHANGED <<catalog, packs>> /\ Entries(p) \subseteq p.objects
    BY <2>1, <2>2 DEF Convert
  <2>4. c \in Conversions
    BY <2>2 DEF Conversions, Entries, ArchiveInv, TypeOK
  <2>5. c.before \subseteq c.old.objects /\ c.pc = "put"
    BY <2>2, <2>3
  <2>6. QED
    BY <2>3, <2>4, <2>5, ConversionKeeps DEF ArchiveInv, TypeOK, Archived
<1>3. QED
  BY <1>1, <1>2

\* Every step of the archive keeps the invariant, and retires only what was read back.
LEMMA ArchiveKeeps ==
  ASSUME ArchiveInv, [Next]_vars
  PROVE  ArchiveInv' /\ Verifies
<1>1. ASSUME UNCHANGED raw PROVE Verifies
  BY <1>1 DEF Verifies
<1>2. CASE UNCHANGED vars
  <2>1. UNCHANGED <<raw, ref, catalog, accepted, captures, packs, damaged, transfer, conversion>>
    BY <1>2 DEF vars, queueVars
  <2>2. TypeOK'
    BY <2>1 DEF ArchiveInv, TypeOK, IsTransfer
  <2>3. (\A x \in Values : catalog'[x] # None => Archived(x)') /\ \A q \in Rows : RowHolds(q)'
    BY <2>1 DEF ArchiveInv, Archived, RowHolds
  <2>4. (\A w \in Workers : TransferHolds(w)') /\ ConversionHolds'
    BY <2>1 DEF ArchiveInv, TransferHolds, ConversionHolds, Plain
  <2>5. QED
    BY <1>1, <2>1, <2>2, <2>3, <2>4 DEF ArchiveInv
<1>3. CASE Conversion
  <2>1. UNCHANGED raw
    BY <1>3 DEF Conversion, Convert, ConvertPut, ConvertRead, Point, ConvertFail, ConvertStep
  <2>2. QED
    BY <1>1, <1>3, <2>1, ConvertKeeps
<1>4. ASSUME NEW r \in Rows, NEW v \in Values, Capture(r, v) PROVE ArchiveInv' /\ Verifies
  <2>1. raw' = [raw EXCEPT ![r] = v] /\ raw \in [Rows -> Values \cup {None}]
    BY <1>4 DEF Capture, ArchiveInv, TypeOK
  <2>2. QED
    BY <1>4, <2>1, CaptureKeeps, ArchiveAssumption DEF Verifies
<1>5. ASSUME NEW p \in Readable, Damage(p) PROVE ArchiveInv' /\ Verifies
  BY <1>1, <1>5, DamageKeeps DEF Damage, queueVars
<1>6. ASSUME NEW w \in Workers, Transfer(w) PROVE ArchiveInv' /\ Verifies
  <2>1. CASE Retire(w)
    BY <2>1, RetireKeeps DEF Verifies
  <2>2. CASE Read(w)
    BY <1>1, <2>2, ReadKeeps DEF Read, queueVars
  <2>3. CASE Verify(w)
    BY <1>1, <2>3, VerifyKeeps DEF Verify, queueVars
  <2>4. CASE ReadBack(w)
    BY <1>1, <2>4, ReadBackKeeps DEF ReadBack, queueVars
  <2>5. ASSUME NEW encoding \in Encodings, Put(w, encoding) PROVE ArchiveInv' /\ Verifies
    BY <1>1, <2>5, PutKeeps DEF Put, queueVars
  <2>6. QED
    BY <1>6, <2>1, <2>2, <2>3, <2>4, <2>5 DEF Transfer
<1>7. ASSUME NEW w \in Workers, Fail(w) PROVE ArchiveInv' /\ Verifies
  BY <1>1, <1>7, FailKeeps DEF Fail, queueVars
<1>8. QED
  BY <1>2, <1>3, <1>4, <1>5, <1>6, <1>7 DEF Next, World

LEMMA ArchiveHolds == ArchiveInv => TypeOK /\ EvidenceRetrievable
BY ArchiveAssumption DEF ArchiveInv, TypeOK, RowHolds, Archived, EvidenceRetrievable

------------------------------------------------------------------------------
(* The vault: its notes. *)

Holds(r) == tx[r].pc \in {"moved", "graph", "installed"}

\* A request has its conversation for itself, and the lock while it changes files; it
\* finds the note where the committed row says, and has written its own before it goes on.
RequestHolds(r) ==
  LET s == tx[r].session IN
  tx[r] # Idle =>
    /\ \A q \in Requests : tx[q] # Idle /\ tx[q].session = s => q = r
    /\ Holds(r) => lock = r
    /\ tx[r].new.path = row[s].path
    /\ tx[r].pc = "note" /\ s \notin torn /\ row[s].path # Shared => note[row[s].path] = s
    /\ tx[r].pc # "note" => note[V!Target(r)] = s

\* A path with a conversation's name is that conversation's.
NoteHolds(s) ==
  /\ \A f \in Folders : note[<<f, s>>] \in {s, None}
  /\ row[s].path \in {<<f, s>> : f \in Folders} \cup {Shared}

NotesInv ==
  /\ V!TypeOK
  /\ \A r \in Requests : RequestHolds(r)
  /\ \A s \in Sessions : NoteHolds(s)
  /\ V!NoteFound

LEMMA NotesStart == V!Init => NotesInv
<1>. SUFFICES ASSUME V!Init PROVE NotesInv
  OBVIOUS
<1>1. PICK f \in Folders : row = [s \in Sessions |-> [folder |-> f, facts |-> {}, path |-> Shared]]
  BY DEF V!Init
<1>2. PICK s \in Sessions : note = [p \in V!Paths |-> IF p = Shared THEN s ELSE None]
  BY DEF V!Init
<1>3. \A r \in Requests : tx[r] = Idle
  BY DEF V!Init, V!Idle, Idle
<1>4. V!TypeOK
  BY <1>1, <1>2, <1>3 DEF V!Init, V!TypeOK, V!SessionRows, V!Paths, V!Listings, V!Idle, Idle
<1>5. \A q \in Sessions : NoteHolds(q)
  BY <1>1, <1>2, VaultAssumption DEF NoteHolds, V!Paths
<1>6. V!NoteFound
  BY <1>1 DEF V!NoteFound
<1>7. QED
  BY <1>3, <1>4, <1>5, <1>6 DEF NotesInv, RequestHolds

\* What a request that is under way is.
LEMMA RequestType ==
  ASSUME V!TypeOK, NEW r \in Requests, tx[r].pc \in V!Pcs
  PROVE  /\ tx[r] # Idle /\ tx[r] \in V!Requested /\ tx[r].session \in Sessions
         /\ tx[r].new \in V!SessionRows /\ tx[r].new.folder \in Folders
         /\ V!Target(r) = <<tx[r].new.folder, tx[r].session>>
         /\ V!Target(r) \in V!Paths /\ V!Target(r) # Shared
<1>1. tx[r] # Idle
  BY DEF V!Pcs, Idle
<1>2. tx[r] \in V!Requested
  BY <1>1 DEF V!TypeOK, V!Idle, Idle
<1>3. QED
  BY <1>1, <1>2, VaultAssumption DEF V!Requested, V!SessionRows, V!Target, V!Paths

\* A step of a request goes on with it and leaves the others.
LEMMA GotoType ==
  ASSUME V!TypeOK, NEW r \in Requests, tx[r] \in V!Requested, NEW pc \in V!Pcs, V!Goto(r, pc)
  PROVE  /\ tx'[r] = [tx[r] EXCEPT !.pc = pc] /\ tx'[r] \in V!Requested /\ tx'[r] # Idle
         /\ tx'[r].pc = pc /\ tx'[r].session = tx[r].session /\ tx'[r].new = tx[r].new
         /\ \A q \in Requests : q # r => tx'[q] = tx[q]
<1>1. tx'[r] = [tx[r] EXCEPT !.pc = pc] /\ \A q \in Requests : q # r => tx'[q] = tx[q]
  BY DEF V!Goto, V!TypeOK
<1>2. QED
  BY <1>1 DEF V!Requested, V!Pcs, Idle

\* What the steps of one request need to keep: the other rows, notes and requests are left
\* alone, and so is what the others rely on.
LEMMA NotesKept ==
  ASSUME NotesInv, NEW r \in Requests, NEW s \in Sessions, V!TypeOK',
         \A q \in Requests : q # r => tx'[q] = tx[q] /\ (tx[q] # Idle => tx[q].session # s),
         \A q \in Requests : q # r /\ lock = q => lock' = q,
         \A z \in Sessions : z # s => row'[z] = row[z] /\ (z \in torn' <=> z \in torn),
         \A z \in Sessions, f \in Folders : z # s => note'[<<f, z>>] = note[<<f, z>>],
         tx[r] # Idle => tx[r].session = s, tx'[r] # Idle => tx'[r].session = s,
         RequestHolds(r)', NoteHolds(s)',
         tx'[r] = Idle => s \in torn' \/ row'[s].path = Shared \/ note'[row'[s].path] = s
  PROVE  NotesInv'
<1>1. ASSUME NEW q \in Requests, q # r, tx'[q] # Idle PROVE RequestHolds(q)'
  <2>1. /\ tx'[q] = tx[q] /\ tx[q] # Idle /\ tx[q].session # s /\ tx[q].session \in Sessions
        /\ tx[q] \in V!Requested /\ tx[q].new.folder \in Folders
    BY <1>1 DEF NotesInv, V!TypeOK, V!Requested, V!SessionRows, V!Idle, Idle
  <2>2. RequestHolds(q) /\ NoteHolds(tx[q].session)
    BY <2>1 DEF NotesInv
  <2>3. \A x \in Requests : tx'[x] # Idle /\ tx'[x].session = tx[q].session => x = q
    BY <2>1, <2>2 DEF RequestHolds
  <2>4. Holds(q)' => lock' = q
    BY <1>1, <2>1, <2>2 DEF RequestHolds, Holds
  <2>5. row'[tx[q].session] = row[tx[q].session] /\ (tx[q].session \in torn' <=> tx[q].session \in torn)
    BY <2>1
  <2>6. row[tx[q].session].path # Shared =>
          note'[row[tx[q].session].path] = note[row[tx[q].session].path]
    BY <2>1, <2>2 DEF NoteHolds
  <2>7. note'[V!Target(q)] = note[V!Target(q)] /\ V!Target(q)' = V!Target(q)
    BY <2>1 DEF V!Target
  <2>. QED
    BY <2>1, <2>2, <2>3, <2>4, <2>5, <2>6, <2>7 DEF RequestHolds
<1>2. ASSUME NEW z \in Sessions PROVE NoteHolds(z)'
  <2>1. CASE z = s
    BY <2>1
  <2>2. CASE z # s
    BY <2>2 DEF NotesInv, NoteHolds
  <2>3. QED
    BY <2>1, <2>2
<1>3. V!NoteFound'
  <2>. SUFFICES ASSUME NEW z \in Sessions, ~V!Busy(z)', z \notin torn', row'[z].path # Shared
                PROVE  note'[row'[z].path] = z
    BY DEF V!NoteFound
  <2>1. CASE z = s
    BY <2>1 DEF V!Busy, V!Idle, Idle
  <2>2. CASE z # s
    <3>1. ~V!Busy(z)
      BY <2>2 DEF V!Busy, V!Idle, Idle
    <3>2. note[row[z].path] = z /\ NoteHolds(z) /\ row'[z] = row[z]
      BY <2>2, <3>1 DEF NotesInv, V!NoteFound
    <3>3. QED
      BY <2>2, <3>2 DEF NoteHolds
  <2>3. QED
    BY <2>1, <2>2
<1>4. \A q \in Requests : RequestHolds(q)'
  BY <1>1 DEF RequestHolds
<1>5. QED
  BY <1>2, <1>3, <1>4 DEF NotesInv

\* Beginning, the request finds the note as the row says.
LEMMA BeginKeeps ==
  ASSUME NotesInv, NEW r \in Requests, NEW s \in Sessions, NEW folder \in Folders,
         NEW facts \in SUBSET Entities, V!Begin(r, s, folder, facts)
  PROVE  NotesInv'
<1>. DEFINE new == [row[s] EXCEPT !.folder = folder, !.facts = facts]
            t == [pc |-> "note", session |-> s, new |-> new]
<1>1. /\ tx[r] = Idle /\ ~V!Busy(s) /\ tx' = [tx EXCEPT ![r] = t]
      /\ UNCHANGED <<row, note, entity, index, lock, torn, behind>>
  BY DEF V!Begin, V!files, V!Idle, Idle
<1>2. row[s] \in V!SessionRows
  BY DEF NotesInv, V!TypeOK
<1>3. new \in V!SessionRows /\ new.path = row[s].path
  BY <1>2 DEF V!SessionRows
<1>. HIDE DEF new
<1>4. t \in V!Requested /\ t # Idle /\ t.pc = "note" /\ t.session = s /\ t.new = new
  BY <1>3 DEF V!Requested, V!Pcs, Idle
<1>. HIDE DEF t
<1>5. tx'[r] = t /\ \A q \in Requests : q # r => tx'[q] = tx[q]
  BY <1>1 DEF NotesInv, V!TypeOK
<1>6. \A q \in Requests : tx[q] # Idle => tx[q].session # s
  BY <1>1 DEF V!Busy, V!Idle, Idle
<1>7. V!TypeOK'
  BY <1>1, <1>4, <1>5 DEF NotesInv, V!TypeOK, V!Idle, Idle
<1>8. s \notin torn /\ row[s].path # Shared => note[row[s].path] = s
  BY <1>1 DEF NotesInv, V!NoteFound
<1>9. RequestHolds(r)'
  BY <1>1, <1>3, <1>4, <1>5, <1>6, <1>8 DEF RequestHolds, Holds
<1>10. NoteHolds(s)'
  BY <1>1 DEF NotesInv, NoteHolds
<1>11. QED
  BY <1>1, <1>4, <1>5, <1>6, <1>7, <1>9, <1>10, NotesKept

\* Both files of a conversation are written under its own name.
LEMMA WriteNoteKeeps ==
  ASSUME NotesInv, NEW r \in Requests, V!WriteNote(r)
  PROVE  NotesInv'
<1>0. PICK s \in {tx[r].session} : TRUE
  OBVIOUS
<1>1. /\ tx[r].pc = "note" /\ lock = None /\ lock' = r
      /\ note' = [note EXCEPT ![V!Target(r)] = s] /\ V!Goto(r, "moved")
      /\ UNCHANGED <<row, entity, index, torn, behind>>
  BY DEF V!WriteNote
<1>2. /\ tx[r] # Idle /\ tx[r] \in V!Requested /\ s \in Sessions
      /\ V!Target(r) = <<tx[r].new.folder, s>> /\ tx[r].new.folder \in Folders
      /\ V!Target(r) \in V!Paths /\ V!Target(r) # Shared
  BY <1>1, RequestType DEF NotesInv, V!Pcs
<1>3. /\ tx'[r] \in V!Requested /\ tx'[r] # Idle
      /\ tx'[r].pc = "moved" /\ tx'[r].session = s /\ tx'[r].new = tx[r].new
      /\ \A q \in Requests : q # r => tx'[q] = tx[q]
  BY <1>1, <1>2, GotoType DEF NotesInv, V!Pcs
<1>4. RequestHolds(r) /\ NoteHolds(s) /\ note \in [V!Paths -> Sessions \cup {None}]
  BY <1>2 DEF NotesInv, V!TypeOK
<1>5. V!TypeOK'
  <2>1. tx' \in [Requests -> V!Requested \cup {V!Idle}]
    BY <1>1, <1>3 DEF V!Goto, NotesInv, V!TypeOK, V!Idle
  <2>2. r # None
    BY VaultAssumption
  <2>3. V!Idle = Idle /\ tx'[r] # Idle /\ tx'[r].pc = "moved"
    BY <1>3 DEF V!Idle, Idle
  <2>4. note' \in [V!Paths -> Sessions \cup {None}]
    BY <1>1, <1>2, <1>4
  <2>5. QED
    BY <1>1, <2>1, <2>2, <2>3, <2>4 DEF NotesInv, V!TypeOK
<1>6. \A z \in Sessions, f \in Folders :
        note'[<<f, z>>] = IF <<f, z>> = V!Target(r) THEN s ELSE note[<<f, z>>]
  BY <1>1, <1>2, <1>4 DEF V!Paths
<1>7. \A q \in Requests : q # r => (tx[q] # Idle => tx[q].session # s)
  BY <1>2, <1>4 DEF RequestHolds
<1>8. V!Target(r)' = V!Target(r) /\ note'[V!Target(r)] = s
  BY <1>1, <1>2, <1>3, <1>4 DEF V!Target
<1>9. RequestHolds(r)'
  BY <1>1, <1>2, <1>3, <1>4, <1>7, <1>8 DEF RequestHolds, Holds
<1>10. NoteHolds(s)'
  BY <1>1, <1>2, <1>4, <1>6 DEF NoteHolds
<1>11. \A z \in Sessions, f \in Folders : z # s => note'[<<f, z>>] = note[<<f, z>>]
  BY <1>2, <1>6
<1>12. \A q \in Requests : q # r /\ lock = q => lock' = q
  BY <1>1, VaultAssumption
<1>13. (tx[r] # Idle => tx[r].session = s) /\ (tx'[r] # Idle => tx'[r].session = s) /\ tx'[r] # Idle
  BY <1>3
<1>14. QED
  BY <1>1, <1>2, <1>3, <1>5, <1>7, <1>9, <1>10, <1>11, <1>12, <1>13, NotesKept

\* What goes shows the conversation itself and is not its new note.
LEMMA RemoveOldKeeps ==
  ASSUME NotesInv, NEW r \in Requests, V!RemoveOld(r)
  PROVE  /\ NotesInv'
         /\ lock' = r
         /\ \A p \in V!Paths : note'[p] # note[p] => tx[r].session = note[p]
<1>0. PICK s \in {tx[r].session} : TRUE
  OBVIOUS
<1>1. /\ tx[r].pc = "moved" /\ V!Goto(r, "graph")
      /\ note' = [p \in V!Paths |-> IF p \in V!Old(r) THEN None ELSE note[p]]
      /\ UNCHANGED <<row, entity, index, lock, torn, behind>>
  BY DEF V!RemoveOld
<1>2. /\ tx[r] # Idle /\ tx[r] \in V!Requested /\ s \in Sessions
      /\ V!Target(r) = <<tx[r].new.folder, s>> /\ tx[r].new.folder \in Folders
      /\ V!Target(r) \in V!Paths /\ V!Target(r) # Shared
  BY <1>1, RequestType DEF NotesInv, V!Pcs
<1>3. /\ tx'[r] \in V!Requested /\ tx'[r] # Idle
      /\ tx'[r].pc = "graph" /\ tx'[r].session = s /\ tx'[r].new = tx[r].new
      /\ \A q \in Requests : q # r => tx'[q] = tx[q]
  BY <1>1, <1>2, GotoType DEF NotesInv, V!Pcs
<1>4. RequestHolds(r) /\ NoteHolds(s) /\ note \in [V!Paths -> Sessions \cup {None}]
  BY <1>2 DEF NotesInv, V!TypeOK
<1>5. lock = r /\ note[V!Target(r)] = s
  BY <1>1, <1>2, <1>4 DEF RequestHolds, Holds
<1>6. V!TypeOK'
  <2>1. tx' \in [Requests -> V!Requested \cup {V!Idle}]
    BY <1>1, <1>3 DEF V!Goto, NotesInv, V!TypeOK, V!Idle
  <2>2. V!Idle = Idle /\ tx'[r] # Idle /\ tx'[r].pc = "graph"
    BY <1>3 DEF V!Idle, Idle
  <2>3. note' \in [V!Paths -> Sessions \cup {None}]
    BY <1>1, <1>4
  <2>4. QED
    BY <1>1, <1>5, <2>1, <2>2, <2>3 DEF NotesInv, V!TypeOK
<1>7. \A p \in V!Old(r) : p # V!Target(r) /\ note[p] = s
  BY DEF V!Old, V!Owns
<1>8. \A z \in Sessions, f \in Folders : <<f, z>> \in V!Paths
  BY DEF V!Paths
<1>9. \A z \in Sessions, f \in Folders :
        z # s => note'[<<f, z>>] = note[<<f, z>>]
  BY <1>1, <1>2, <1>7, <1>8, VaultAssumption DEF NotesInv, NoteHolds
<1>10. \A q \in Requests : q # r => (tx[q] # Idle => tx[q].session # s)
  BY <1>2, <1>4 DEF RequestHolds
<1>11. V!Target(r)' = V!Target(r) /\ note'[V!Target(r)] = s
  <2>1. V!Target(r)' = V!Target(r)
    BY <1>3 DEF V!Target
  <2>2. QED
    BY <1>1, <1>2, <1>5, <1>7, <2>1
<1>12. RequestHolds(r)'
  BY <1>1, <1>2, <1>3, <1>4, <1>5, <1>10, <1>11 DEF RequestHolds, Holds
<1>13. NoteHolds(s)'
  BY <1>1, <1>2, <1>4, <1>8 DEF NoteHolds
<1>14. tx[r].session = s /\ tx'[r].session = s
  BY <1>3
<1>15. NotesInv'
  BY <1>1, <1>2, <1>3, <1>6, <1>9, <1>10, <1>12, <1>13, <1>14, NotesKept
<1>16. QED
  BY <1>1, <1>5, <1>7, <1>14, <1>15

\* The notes of entities and the dashboards are other files.
LEMMA GraphKeepsNotes ==
  ASSUME NotesInv, NEW r \in Requests, V!Install(r) \/ V!Finish(r)
  PROVE  NotesInv'
<1>0. PICK s \in {tx[r].session} : TRUE
  OBVIOUS
<1>1. /\ tx[r].pc \in {"graph", "installed"} /\ UNCHANGED <<row, note, torn>>
      /\ \E pc \in {"installed", "exported"} :
           V!Goto(r, pc) /\ (IF pc = "exported" THEN lock' = None ELSE lock' = lock)
  BY DEF V!Install, V!Finish
<1>2. PICK pc \in {"installed", "exported"} :
        V!Goto(r, pc) /\ (IF pc = "exported" THEN lock' = None ELSE lock' = lock)
  BY <1>1
<1>3. /\ tx[r] # Idle /\ tx[r] \in V!Requested /\ s \in Sessions
      /\ V!Target(r) = <<tx[r].new.folder, s>> /\ tx[r].new.folder \in Folders
  BY <1>1, RequestType DEF NotesInv, V!Pcs
<1>4. /\ tx'[r] \in V!Requested /\ tx'[r] # Idle
      /\ tx'[r].pc = pc /\ tx'[r].session = s /\ tx'[r].new = tx[r].new
      /\ \A q \in Requests : q # r => tx'[q] = tx[q]
  BY <1>2, <1>3, GotoType DEF NotesInv, V!Pcs
<1>5. RequestHolds(r) /\ NoteHolds(s) /\ lock = r
  BY <1>1, <1>3 DEF NotesInv, RequestHolds, Holds
<1>6. V!TypeOK'
  <2>1. tx' \in [Requests -> V!Requested \cup {V!Idle}]
    BY <1>2, <1>4 DEF V!Goto, NotesInv, V!TypeOK, V!Idle
  <2>2. V!Idle = Idle /\ tx'[r] # Idle
    BY <1>4 DEF V!Idle, Idle
  <2>3. entity' \in [Entities -> (SUBSET Sessions) \cup {User, None}]
    BY DEF V!Install, V!Finish, V!Mentions, NotesInv, V!TypeOK
  <2>4. index' \in V!Listings
    <3>1. CASE V!Install(r)
      BY <3>1 DEF V!Install, NotesInv, V!TypeOK
    <3>2. CASE V!Finish(r)
      <4>1. \A z \in Sessions : V!Seen(r)[z] \in V!SessionRows
        BY <1>3 DEF V!Seen, V!Requested, NotesInv, V!TypeOK
      <4>2. QED
        BY <3>2, <4>1 DEF V!Finish, V!Listings, V!SessionRows
    <3>3. QED
      BY <3>1, <3>2
  <2>5. behind' \in BOOLEAN
    BY DEF V!Install, V!Finish, NotesInv, V!TypeOK
  <2>6. lock' \in Requests \cup {None} /\ (lock' # None => lock' = r /\ pc = "installed")
    BY <1>2, <1>5
  <2>7. QED
    BY <1>1, <1>4, <2>1, <2>2, <2>3, <2>4, <2>5, <2>6 DEF NotesInv, V!TypeOK
<1>7. \A q \in Requests : q # r => (tx[q] # Idle => tx[q].session # s)
  BY <1>3, <1>5 DEF RequestHolds
<1>8. V!Target(r)' = V!Target(r) /\ note'[V!Target(r)] = s
  <2>1. V!Target(r)' = V!Target(r)
    BY <1>4 DEF V!Target
  <2>2. QED
    BY <1>1, <1>3, <1>5, <2>1 DEF RequestHolds
<1>9. RequestHolds(r)'
  BY <1>1, <1>2, <1>3, <1>4, <1>5, <1>7, <1>8 DEF RequestHolds, Holds
<1>10. NoteHolds(s)'
  BY <1>1, <1>5 DEF NoteHolds
<1>11. QED
  BY <1>1, <1>3, <1>4, <1>5, <1>6, <1>7, <1>9, <1>10, NotesKept

\* The committed row says where the request has put the note.
LEMMA CommitKeeps ==
  ASSUME NotesInv, NEW r \in Requests, V!Commit(r)
  PROVE  NotesInv'
<1>0. PICK s \in {tx[r].session} : TRUE
  OBVIOUS
<1>1. /\ tx[r].pc = "exported"
      /\ row' = [row EXCEPT ![s] = [tx[r].new EXCEPT !.path = V!Target(r)]]
      /\ tx' = [tx EXCEPT ![r] = Idle] /\ torn' = torn \ {s}
      /\ UNCHANGED <<note, entity, index, lock, behind>>
  BY DEF V!Commit, V!files, V!Idle, Idle
<1>2. /\ tx[r] # Idle /\ tx[r] \in V!Requested /\ s \in Sessions /\ tx[r].new \in V!SessionRows
      /\ V!Target(r) = <<tx[r].new.folder, s>> /\ tx[r].new.folder \in Folders
      /\ V!Target(r) \in V!Paths
  BY <1>1, RequestType DEF NotesInv, V!Pcs
<1>3. tx'[r] = Idle /\ \A q \in Requests : q # r => tx'[q] = tx[q]
  BY <1>1 DEF NotesInv, V!TypeOK
<1>4. RequestHolds(r) /\ NoteHolds(s) /\ note[V!Target(r)] = s /\ lock # r
  BY <1>1, <1>2, VaultAssumption DEF NotesInv, RequestHolds, V!TypeOK
<1>5. /\ row'[s] \in V!SessionRows /\ row'[s].path = V!Target(r)
      /\ row' \in [Sessions -> V!SessionRows]
      /\ \A z \in Sessions : z # s => row'[z] = row[z]
  BY <1>1, <1>2 DEF NotesInv, V!TypeOK, V!SessionRows
<1>6. V!TypeOK'
  BY <1>1, <1>2, <1>3, <1>4, <1>5 DEF NotesInv, V!TypeOK, V!Idle, Idle
<1>7. \A q \in Requests : q # r => (tx[q] # Idle => tx[q].session # s)
  BY <1>2, <1>4 DEF RequestHolds
<1>8. RequestHolds(r)' /\ NoteHolds(s)'
  BY <1>1, <1>2, <1>3, <1>4, <1>5 DEF RequestHolds, NoteHolds
<1>9. note'[row'[s].path] = s
  BY <1>1, <1>4, <1>5
<1>10. QED
  BY <1>1, <1>2, <1>3, <1>5, <1>6, <1>7, <1>8, <1>9, NotesKept

\* A request that fails before it has moved the note leaves it where the row says.
LEMMA AbortKeeps ==
  ASSUME NotesInv, NEW r \in Requests, V!Fail(r)
  PROVE  NotesInv'
<1>0. PICK s \in {tx[r].session} : TRUE
  OBVIOUS
<1>1. /\ tx[r] # Idle /\ tx' = [tx EXCEPT ![r] = Idle]
      /\ lock' = (IF lock = r THEN None ELSE lock)
      /\ torn' = IF tx[r].pc # "note" THEN torn \cup {s} ELSE torn
      /\ behind' \in BOOLEAN
      /\ UNCHANGED <<row, note, entity, index>>
  BY DEF V!Fail, V!Release, V!files, V!Idle, Idle, NotesInv, V!TypeOK
<1>2. tx[r] \in V!Requested /\ s \in Sessions
  BY <1>1 DEF NotesInv, V!TypeOK, V!Idle, Idle, V!Requested
<1>3. tx'[r] = Idle /\ \A q \in Requests : q # r => tx'[q] = tx[q]
  BY <1>1 DEF NotesInv, V!TypeOK
<1>4. RequestHolds(r) /\ NoteHolds(s)
  BY <1>2 DEF NotesInv
<1>5. V!TypeOK'
  BY <1>1, <1>2, <1>3 DEF NotesInv, V!TypeOK, V!Idle, Idle
<1>6. \A q \in Requests : q # r => (tx[q] # Idle => tx[q].session # s)
  BY <1>1, <1>4 DEF RequestHolds
<1>7. s \in torn' \/ row'[s].path = Shared \/ note'[row'[s].path] = s
  BY <1>1, <1>4 DEF RequestHolds
<1>8. RequestHolds(r)' /\ NoteHolds(s)'
  BY <1>1, <1>3, <1>4 DEF RequestHolds, NoteHolds
<1>9. QED
  BY <1>1, <1>2, <1>3, <1>5, <1>6, <1>7, <1>8, NotesKept

\* What an export may change, in its notes and in the files of the owner.
LEMMA VaultSteps ==
  ASSUME NotesInv, [V!Next]_(V!vars)
  PROVE  NotesInv' /\ V!KeepsOthers
<1>1. ASSUME UNCHANGED note PROVE \A p \in V!Paths : ~(note[p] # None /\ note'[p] # note[p])
  BY <1>1
<1>2. CASE UNCHANGED V!vars
  <2>1. UNCHANGED <<row, note, entity, index, lock, tx, torn, behind>>
    BY <1>2 DEF V!vars, V!files
  <2>2. (V!TypeOK <=> V!TypeOK') /\ (V!NoteFound <=> V!NoteFound')
    BY <2>1 DEF V!TypeOK, V!NoteFound, V!Busy
  <2>3. \A r \in Requests : RequestHolds(r)'
    BY <2>1 DEF NotesInv, RequestHolds, Holds, V!Target
  <2>4. \A s \in Sessions : NoteHolds(s)'
    BY <2>1 DEF NotesInv, NoteHolds
  <2>5. QED
    BY <2>1, <2>2, <2>3, <2>4 DEF NotesInv, V!KeepsOthers
<1>3. ASSUME NEW r \in Requests, NEW s \in Sessions, NEW folder \in Folders,
             NEW facts \in SUBSET Entities, V!Begin(r, s, folder, facts)
      PROVE  NotesInv' /\ V!KeepsOthers
  BY <1>3, BeginKeeps DEF V!Begin, V!files, V!KeepsOthers
<1>4. ASSUME NEW r \in Requests, V!Process(r)
      PROVE  NotesInv' /\ V!KeepsOthers
  <2>1. CASE V!WriteNote(r)
    <3>1. /\ note' = [note EXCEPT ![V!Target(r)] = tx[r].session] /\ entity' = entity
          /\ tx[r].pc = "note"
      BY <2>1 DEF V!WriteNote
    <3>2. /\ tx[r].session \in Sessions /\ tx[r].new.folder \in Folders
          /\ V!Target(r) = <<tx[r].new.folder, tx[r].session>>
      BY <3>1, RequestType DEF NotesInv, V!Pcs
    <3>3. note[V!Target(r)] \in {tx[r].session, None}
      BY <3>2 DEF NotesInv, NoteHolds
    <3>4. \A p \in V!Paths : ~(note[p] # None /\ note'[p] # note[p])
      BY <3>1, <3>3 DEF NotesInv, V!TypeOK
    <3>5. QED
      BY <2>1, <3>1, <3>4, WriteNoteKeeps DEF V!KeepsOthers
  <2>2. CASE V!RemoveOld(r)
    BY <2>2, RemoveOldKeeps DEF V!KeepsOthers, V!RemoveOld
  <2>3. CASE V!Install(r)
    BY <2>3, GraphKeepsNotes DEF V!KeepsOthers, V!Install, V!Managed, NotesInv, V!TypeOK
  <2>4. CASE V!Finish(r)
    BY <2>4, GraphKeepsNotes DEF V!KeepsOthers, V!Finish, V!Stale, V!Managed, NotesInv, V!TypeOK
  <2>5. CASE V!Commit(r)
    BY <2>5, CommitKeeps DEF V!KeepsOthers, V!Commit, V!files
  <2>6. CASE V!Fail(r)
    BY <2>6, AbortKeeps DEF V!KeepsOthers, V!Fail, V!files
  <2>7. QED
    BY <1>4, <2>1, <2>2, <2>3, <2>4, <2>5, <2>6 DEF V!Process
<1>5. QED
  BY <1>2, <1>3, <1>4 DEF V!Next

------------------------------------------------------------------------------
(* The vault: its graph. *)

\* The notes of entities and the dashboards are those of rs.
MentionedIn(rs, e) == {s \in Sessions : e \in rs[s].facts}
Listed(rs) ==
  /\ index = [s \in Sessions |-> rs[s].folder]
  /\ \A e \in Entities : entity[e] # User =>
       entity[e] = IF MentionedIn(rs, e) = {} THEN None ELSE MentionedIn(rs, e)

Exporting(r) == tx[r].pc \in {"installed", "exported"}

\* Unless the last export failed or passed over another: one request at most has exported
\* and not committed; what is installed shows its rows, and so does what is exported; and
\* with none, what there is shows the committed rows.
GraphHolds ==
  ~behind =>
    /\ \A p, q \in Requests : Exporting(p) /\ Exporting(q) => p = q
    /\ \A r \in Requests :
         /\ tx[r].pc = "installed" =>
              \A e \in V!Desired(r) : entity[e] = MentionedIn(V!Seen(r), e)
         /\ tx[r].pc = "exported" => Listed(V!Seen(r))
    /\ (\A r \in Requests : ~Exporting(r)) /\ (\E s \in Sessions : index[s] # None) => Listed(row)

LEMMA GraphStart == V!Init => GraphHolds
BY DEF V!Init, GraphHolds, Exporting, V!Idle

\* What a request sees of the rows, step by step.
LEMMA SeenRows ==
  ASSUME V!TypeOK, NEW r \in Requests, tx[r].pc \in V!Pcs
  PROVE  \A s \in Sessions : V!Seen(r)[s] = IF s = tx[r].session THEN tx[r].new ELSE row[s]
BY RequestType DEF V!Seen, V!TypeOK

\* Requests that install nothing, export nothing and commit nothing.
LEMMA GraphKept ==
  ASSUME NotesInv, GraphHolds, NEW r \in Requests, UNCHANGED <<row, entity, index>>,
         behind => behind',
         \A q \in Requests : q # r => tx'[q] = tx[q],
         Exporting(r) => behind', ~Exporting(r)'
  PROVE  GraphHolds'
<1>. SUFFICES ASSUME ~behind' PROVE GraphHolds'
  BY DEF GraphHolds
<1>1. ~behind /\ ~Exporting(r)
  OBVIOUS
<1>2. \A q \in Requests : Exporting(q)' => q # r /\ Exporting(q) /\ tx'[q] = tx[q]
  BY DEF Exporting
<1>3. \A q \in Requests : Exporting(q) => Exporting(q)'
  BY <1>1 DEF Exporting
<1>4. ASSUME NEW q \in Requests, Exporting(q)'
      PROVE  /\ V!Seen(q)' = V!Seen(q)
             /\ V!Desired(q)' = V!Desired(q)
  BY <1>2, <1>4 DEF V!Seen, V!Desired, V!Mentions
<1>5. Listed(row) => Listed(row)'
  BY DEF Listed, MentionedIn
<1>6. ASSUME NEW q \in Requests, tx'[q].pc = "installed"
      PROVE  \A e \in V!Desired(q)' : entity'[e] = MentionedIn(V!Seen(q), e)'
  <2>1. Exporting(q)' /\ tx[q].pc = "installed"
    BY <1>2, <1>6 DEF Exporting
  <2>2. QED
    BY <1>1, <1>4, <2>1 DEF GraphHolds, MentionedIn
<1>7. ASSUME NEW q \in Requests, tx'[q].pc = "exported"
      PROVE  Listed(V!Seen(q))'
  <2>1. Exporting(q)' /\ tx[q].pc = "exported"
    BY <1>2, <1>7 DEF Exporting
  <2>2. Listed(V!Seen(q)) /\ V!Seen(q)' = V!Seen(q)
    BY <1>1, <1>4, <2>1 DEF GraphHolds
  <2>. HIDE DEF V!Seen
  <2>3. QED
    BY <2>2 DEF MentionedIn, Listed
<1>8. QED
  BY <1>1, <1>2, <1>3, <1>5, <1>6, <1>7 DEF GraphHolds

\* Installing shows the rows the request sees; if it passed over another, behind says so.
LEMMA InstallGraph ==
  ASSUME NotesInv, GraphHolds, NEW r \in Requests, V!Install(r)
  PROVE  GraphHolds'
<1>1. /\ tx[r].pc = "graph" /\ row' = row /\ V!Goto(r, "installed")
      /\ entity' = [e \in Entities |-> IF e \in V!Desired(r) THEN V!Mentions(r, e) ELSE entity[e]]
      /\ behind' = (V!Passed(r) # {})
  BY DEF V!Install
<1>. SUFFICES ASSUME ~behind' PROVE GraphHolds'
  BY DEF GraphHolds
<1>2. /\ tx'[r].pc = "installed" /\ tx'[r].session = tx[r].session /\ tx'[r].new = tx[r].new
      /\ \A q \in Requests : q # r => tx'[q] = tx[q]
  BY <1>1, RequestType, GotoType DEF NotesInv, V!Pcs
<1>3. lock = r
  BY <1>1, RequestType DEF NotesInv, RequestHolds, Holds, V!Pcs
<1>4. \A q \in Requests : q # r => ~Exporting(q)
  <2>. SUFFICES ASSUME NEW q \in Requests, q # r, Exporting(q) PROVE FALSE
    OBVIOUS
  <2>1. tx[q].pc # "exported"
    BY <1>1 DEF V!Passed
  <2>2. tx[q].pc = "installed"
    BY <2>1 DEF Exporting
  <2>3. lock = q
    BY <2>2, RequestType DEF NotesInv, RequestHolds, Holds, V!Pcs
  <2>4. QED
    BY <1>3, <2>3
<1>5. \A q \in Requests : Exporting(q)' => q = r
  BY <1>2, <1>4 DEF Exporting
<1>6. V!Seen(r)' = V!Seen(r) /\ V!Desired(r)' = V!Desired(r)
  BY <1>1, <1>2 DEF V!Seen, V!Desired, V!Mentions
<1>7. \A e \in V!Desired(r) : entity'[e] = MentionedIn(V!Seen(r), e)
  BY <1>1 DEF V!Desired, V!Mentions, MentionedIn
<1>8. ASSUME NEW q \in Requests, tx'[q].pc = "installed"
      PROVE  \A e \in V!Desired(q)' : entity'[e] = MentionedIn(V!Seen(q), e)'
  <2>1. q = r
    BY <1>5, <1>8 DEF Exporting
  <2>2. QED
    BY <1>6, <1>7, <2>1 DEF MentionedIn
<1>9. \A q \in Requests : tx'[q].pc # "exported"
  BY <1>2, <1>5 DEF Exporting
<1>10. Exporting(r)'
  BY <1>2 DEF Exporting
<1>11. QED
  BY <1>5, <1>8, <1>9, <1>10 DEF GraphHolds

\* The export ends with the notes of what is no longer mentioned, and the dashboards.
LEMMA FinishGraph ==
  ASSUME NotesInv, GraphHolds, NEW r \in Requests, V!Finish(r)
  PROVE  GraphHolds'
<1>1. /\ tx[r].pc = "installed" /\ row' = row /\ behind' = behind /\ V!Goto(r, "exported")
      /\ entity' = [e \in Entities |-> IF V!Stale(r, e) THEN None ELSE entity[e]]
      /\ index' = [s \in Sessions |-> V!Seen(r)[s].folder]
  BY DEF V!Finish
<1>. SUFFICES ASSUME ~behind' PROVE GraphHolds'
  BY DEF GraphHolds
<1>2. /\ tx'[r].pc = "exported" /\ tx'[r].session = tx[r].session /\ tx'[r].new = tx[r].new
      /\ \A q \in Requests : q # r => tx'[q] = tx[q]
  BY <1>1, RequestType, GotoType DEF NotesInv, V!Pcs
<1>3. \A q \in Requests : q # r => ~Exporting(q)
  BY <1>1 DEF GraphHolds, Exporting
<1>4. \A q \in Requests : Exporting(q)' => q = r
  BY <1>2, <1>3 DEF Exporting
<1>5. V!Seen(r)' = V!Seen(r)
  BY <1>1, <1>2 DEF V!Seen
<1>6. ASSUME NEW e \in Entities, entity'[e] # User
      PROVE  entity'[e] = IF MentionedIn(V!Seen(r), e) = {} THEN None ELSE MentionedIn(V!Seen(r), e)
  <2>1. e \in V!Desired(r) <=> MentionedIn(V!Seen(r), e) # {}
    BY DEF V!Desired, V!Mentions, MentionedIn
  <2>2. CASE e \in V!Desired(r)
    BY <1>1, <2>1, <2>2 DEF V!Stale, GraphHolds
  <2>3. CASE e \notin V!Desired(r)
    BY <1>1, <1>6, <2>1, <2>3 DEF V!Stale, V!Managed
  <2>4. QED
    BY <2>2, <2>3
<1>7. Listed(V!Seen(r))'
  BY <1>1, <1>5, <1>6 DEF Listed, MentionedIn
<1>8. \A q \in Requests : tx'[q].pc # "installed" /\ (tx'[q].pc = "exported" => q = r)
  BY <1>2, <1>4 DEF Exporting
<1>9. Exporting(r)'
  BY <1>2 DEF Exporting
<1>10. QED
  BY <1>4, <1>7, <1>8, <1>9 DEF GraphHolds

\* A commit makes the rows the export has shown the committed ones.
LEMMA CommitGraph ==
  ASSUME NotesInv, GraphHolds, NEW r \in Requests, V!Commit(r)
  PROVE  GraphHolds'
<1>1. /\ tx[r].pc = "exported"
      /\ row' = [row EXCEPT ![tx[r].session] = [tx[r].new EXCEPT !.path = V!Target(r)]]
      /\ tx' = [tx EXCEPT ![r] = Idle]
      /\ UNCHANGED <<entity, index, behind>>
  BY DEF V!Commit, V!files, V!Idle, Idle
<1>. SUFFICES ASSUME ~behind' PROVE GraphHolds'
  BY DEF GraphHolds
<1>2. tx'[r] = Idle /\ \A q \in Requests : q # r => tx'[q] = tx[q]
  BY <1>1 DEF NotesInv, V!TypeOK
<1>3. /\ tx[r].session \in Sessions /\ tx[r].new \in V!SessionRows
  BY <1>1, RequestType DEF NotesInv, V!Pcs
<1>4. \A q \in Requests : ~Exporting(q)'
  BY <1>1, <1>2 DEF GraphHolds, Exporting, Idle
<1>5. \A s \in Sessions : /\ row'[s].folder = V!Seen(r)[s].folder
                          /\ row'[s].facts = V!Seen(r)[s].facts
  BY <1>1, <1>3, SeenRows DEF NotesInv, V!TypeOK, V!SessionRows, V!Pcs
<1>6. Listed(V!Seen(r))
  BY <1>1 DEF GraphHolds
<1>7. \A e \in Entities : MentionedIn(row', e) = MentionedIn(V!Seen(r), e)
  BY <1>5 DEF MentionedIn
<1>8. Listed(row)'
  BY <1>1, <1>5, <1>6, <1>7 DEF Listed, MentionedIn
<1>9. QED
  BY <1>4, <1>8 DEF GraphHolds, Exporting

\* Every step of the vault.
LEMMA GraphSteps ==
  ASSUME NotesInv, GraphHolds, [V!Next]_(V!vars)
  PROVE  GraphHolds'
<1>1. CASE UNCHANGED V!vars
  <2>1. UNCHANGED <<row, entity, index, tx, behind>>
    BY <1>1 DEF V!vars, V!files
  <2>2. QED
    <3>1. \A r \in Requests : V!Seen(r)' = V!Seen(r) /\ V!Desired(r)' = V!Desired(r)
      BY <2>1 DEF V!Seen, V!Desired, V!Mentions
    <3>2. ASSUME NEW r \in Requests PROVE Listed(V!Seen(r)) => Listed(V!Seen(r))'
      <4>1. V!Seen(r)' = V!Seen(r)
        BY <3>1
      <4>2. QED
        BY <2>1, <4>1 DEF Listed, MentionedIn
    <3>3. Listed(row) => Listed(row)'
      BY <2>1 DEF Listed, MentionedIn
    <3>4. ASSUME NEW r \in Requests, NEW e \in Entities,
                 entity[e] = MentionedIn(V!Seen(r), e)
          PROVE  entity'[e] = MentionedIn(V!Seen(r), e)'
      BY <2>1, <3>1, <3>4 DEF MentionedIn
    <3>5. QED
      BY <2>1, <3>1, <3>2, <3>3, <3>4 DEF GraphHolds, Exporting, V!Desired
<1>2. ASSUME NEW r \in Requests, NEW s \in Sessions, NEW folder \in Folders,
             NEW facts \in SUBSET Entities, V!Begin(r, s, folder, facts)
      PROVE  GraphHolds'
  <2>1. /\ tx[r] = Idle /\ UNCHANGED <<row, entity, index, behind>>
        /\ tx'[r].pc = "note" /\ \A q \in Requests : q # r => tx'[q] = tx[q]
    BY <1>2 DEF V!Begin, V!files, V!Idle, Idle, NotesInv, V!TypeOK
  <2>2. ~Exporting(r) /\ ~Exporting(r)'
    BY <2>1 DEF Exporting, Idle
  <2>3. QED
    BY <2>1, <2>2, GraphKept
<1>3. ASSUME NEW r \in Requests, NEW pc \in {"moved", "graph"}, V!Goto(r, pc),
             tx[r].pc \in {"note", "moved"}, UNCHANGED <<row, entity, index, behind>>
      PROVE  GraphHolds'
  <2>1. tx'[r].pc = pc /\ \A q \in Requests : q # r => tx'[q] = tx[q]
    BY <1>3, RequestType, GotoType DEF NotesInv, V!Pcs
  <2>2. ~Exporting(r) /\ ~Exporting(r)'
    BY <1>3, <2>1 DEF Exporting
  <2>3. QED
    BY <1>3, <2>1, <2>2, GraphKept
<1>4. ASSUME NEW r \in Requests, V!Fail(r) PROVE GraphHolds'
  <2>1. /\ tx' = [tx EXCEPT ![r] = Idle] /\ UNCHANGED <<row, entity, index>>
        /\ behind' = (behind \/ tx[r].pc \in {"installed", "exported"})
    BY <1>4 DEF V!Fail, V!files, V!Idle, Idle
  <2>2. tx'[r] = Idle /\ \A q \in Requests : q # r => tx'[q] = tx[q]
    BY <2>1 DEF NotesInv, V!TypeOK
  <2>3. ~Exporting(r)'
    BY <2>2 DEF Exporting, Idle
  <2>4. Exporting(r) => behind'
    BY <2>1, Zenon DEF Exporting
  <2>5. behind => behind'
    BY <2>1, Zenon
  <2>6. behind \/ Exporting(r) \/ ~behind'
    BY <2>1, Zenon DEF Exporting
  <2>7. behind \in BOOLEAN /\ behind' \in BOOLEAN
    BY <2>1 DEF NotesInv, V!TypeOK
  <2>8. QED
    BY <2>1, <2>2, <2>3, <2>4, <2>5, <2>6, <2>7, GraphKept
<1>5. QED
  <2>1. ASSUME NEW r \in Requests, V!Process(r) PROVE GraphHolds'
    BY <1>3, <1>4, <2>1, InstallGraph, FinishGraph, CommitGraph
       DEF V!Process, V!WriteNote, V!RemoveOld
  <2>2. QED
    BY <1>1, <1>2, <2>1 DEF V!Next

LEMMA VaultHolds == NotesInv /\ GraphHolds => V!TypeOK /\ V!NoteFound /\ V!GraphCurrent
<1>. SUFFICES ASSUME NotesInv, GraphHolds PROVE V!GraphCurrent
  BY DEF NotesInv
<1>1. (\A r \in Requests : tx[r] = Idle) => \A r \in Requests : ~Exporting(r)
  BY DEF Exporting, Idle
<1>2. QED
  BY <1>1 DEF GraphHolds, V!GraphCurrent, V!Idle, Idle, Listed, MentionedIn

------------------------------------------------------------------------------
(* Both. *)

StoresInv == ArchiveInv /\ (store = "vault" => NotesInv /\ GraphHolds)

LEMMA StoresStart == StoresInit => StoresInv
BY ArchiveStart, NotesStart, GraphStart DEF StoresInit, StoresInv

LEMMA StoresKeep ==
  ASSUME StoresInv, [ArchiveNext \/ VaultNext]_<<vars, vault, store>>
  PROVE  /\ StoresInv'
         /\ IF store = "vault" THEN V!KeepsOthers ELSE Verifies
<1>1. store' = store /\ [Next]_vars /\ (store = "vault" => [V!Next]_(V!vars))
  BY DEF ArchiveNext, VaultNext, vault, V!vars, V!files
<1>2. ArchiveInv' /\ Verifies
  BY <1>1, ArchiveKeeps DEF StoresInv
<1>3. store = "vault" => NotesInv' /\ GraphHolds' /\ V!KeepsOthers
  BY <1>1, VaultSteps, GraphSteps DEF StoresInv
<1>4. QED
  BY <1>1, <1>2, <1>3 DEF StoresInv

\* The inductive invariant of both stores.
LEMMA StoresInductive == Stores => []StoresInv
<1>1. StoresInv /\ [ArchiveNext \/ VaultNext]_<<vars, vault, store>> => StoresInv'
  BY StoresKeep
<1>2. QED
  BY <1>1, StoresStart, PTL DEF Stores

\* Every variable of the archive and of the vault has its type, and whoever holds the
\* vault's lock is a request that exports.
THEOREM StoresTypeCorrect == Stores => []TypesOK
<1>1. StoresInv => TypesOK
  BY VaultHolds, ArchiveHolds DEF StoresInv, TypesOK
<1>2. QED
  BY <1>1, StoresInductive, PTL

\* No accepted evidence is dropped, whatever fails, is captured meanwhile or is converted:
\* it is hot, or in a pack to which the catalog leads, damaged since or not; every
\* conversation that is not torn has its note where its row says; and the graph of an idle
\* vault is that of its ledger, unless the last export left it behind.
THEOREM StoresCorrect == Stores => []StoresHold
<1>1. StoresInv => StoresHold
  BY VaultHolds, ArchiveHolds DEF StoresInv, StoresHold
<1>2. QED
  BY <1>1, StoresInductive, PTL

\* Only what was read back intact is retired (transfer_batch); an export
\* touches no note of another conversation and no file of the owner's.
THEOREM NothingIsTaken == Stores => NothingTaken
<1>1. StoresInv /\ [ArchiveNext \/ VaultNext]_<<vars, vault, store>>
      => IF store = "vault" THEN V!KeepsOthers ELSE Verifies
  BY StoresKeep
<1>2. StoresInv /\ [ArchiveNext \/ VaultNext]_<<vars, vault, store>>
      => [IF store = "vault" THEN V!KeepsOthers ELSE Verifies]_<<vars, vault, store>>
  BY <1>1
<1>3. QED
  BY <1>2, StoresInductive, PTL DEF Stores, NothingTaken
=============================================================================
