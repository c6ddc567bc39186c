---------------------------- MODULE Restructure -----------------------------
(***************************************************************************)
(* Piles and their restructuring (services/restructure.py, routes_piles).  *)
(* A run lists the conversations that nobody has assigned by hand, oldest  *)
(* processing first, and sorts them anew one by one, each in a savepoint,  *)
(* while owners assign conversations and edit piles and other runs go on.  *)
(* PostgreSQL locks rows and commits a run whole; SQLite locks the whole   *)
(* database, and a savepoint that no transaction encloses commits when it  *)
(* is released.                                                            *)
(***************************************************************************)
EXTENDS Naturals, Sequences, FiniteSets

CONSTANTS
  Chats,          \* conversations with messages
  BuiltIns,       \* built-in piles, "discarded" among them
  UserPiles,      \* slugs for piles of the owner's
  Configs,        \* what an owner may configure: [enabled, interval]
  Runners,        \* requests that restructure
  Owner,          \* the owner's request
  RunLimit,       \* conversations in a run
  MaxTicks,       \* bound: committed rewrites
  MaxEdits,       \* bound: requests of the owner
  None

VARIABLES
  dialect,    \* "postgres" or "sqlite"
  pile,       \* piles by slug: active, config, last run
  chat,       \* conversations: pile, locked by hand, when processed
  holder,     \* who holds the row of a conversation
  run,        \* the requests of the runners
  assigning,  \* the request of the owner
  chosen,     \* history: the pile that the owner assigned, if she did
  reports,    \* history: what a request will report, or has reported, to have processed
  writers,    \* history: the committed rewrites of a conversation
  ticks, edits

restructureVars ==
  <<dialect, pile, chat, holder, run, assigning, chosen, reports, writers, ticks, edits>>

Seed == [active |-> TRUE, config |-> [enabled |-> FALSE, interval |-> 1], last |-> None]
NoRun == [state |-> "idle"]
NoReport == [done |-> {}, skipped |-> {}]

-----------------------------------------------------------------------------
(* Row locks and savepoints.                                               *)

\* A write waits for another transaction that holds the row, or the database.
Waits(who, c) ==
  \E d \in Chats : (d = c \/ dialect = "sqlite") /\ holder[d] \notin {None, who}

Released(who) == [c \in Chats |-> IF holder[c] = who THEN None ELSE holder[c]]

Sorted(c, p, stamp) == [chat EXCEPT ![c].pile = p, ![c].stamp = stamp]

-----------------------------------------------------------------------------
(* Which conversations a run takes.                                        *)

Unlocked(p) ==
  {c \in Chats : ~chat[c].locked /\ (p = None \/ chat[c].pile = p)
                 /\ (p = "discarded" \/ chat[c].pile # "discarded")}

\* The first few by the time of their processing, in either order when it is the same.
Listings(p) ==
  LET S == Unlocked(p)
      n == IF Cardinality(S) < RunLimit THEN Cardinality(S) ELSE RunLimit
  IN  {l \in [1..n -> S] :
         /\ \A i, j \in 1..n : i < j => l[i] # l[j] /\ chat[l[i]].stamp <= chat[l[j]].stamp
         /\ \A c \in S, i \in 1..n : c \in {l[j] : j \in 1..n} \/ chat[l[i]].stamp <= chat[c].stamp}

\* A pile is due when it is enabled and its interval has passed since its last run.
IsDue(row) ==
  /\ row.config.enabled
  /\ row.last = None \/ ticks - row.last >= row.config.interval

\* The pile is read once, and what a run knows of it is as it was then.
Begin(r, p, row, due) ==
  \E l \in Listings(p) :
    run' = [run EXCEPT ![r] = [state |-> "next", pile |-> p, row |-> row, queue |-> l,
                               done |-> {}, skipped |-> {}, new |-> [c \in {} |-> None], due |-> due]]

RestructurePile(r, p) ==
  /\ run[r] = NoRun
  /\ p \in DOMAIN pile
  /\ Begin(r, p, pile[p], {})
  /\ UNCHANGED <<dialect, pile, chat, holder, assigning, chosen, reports, writers, ticks, edits>>

RestructureAll(r) ==
  /\ run[r] = NoRun
  /\ Begin(r, None, Seed, {})
  /\ UNCHANGED <<dialect, pile, chat, holder, assigning, chosen, reports, writers, ticks, edits>>

\* Active piles are listed once; those that were due then are restructured one by one.
RestructureDue(r) ==
  /\ run[r] = NoRun
  /\ LET due == {p \in DOMAIN pile : pile[p].active /\ IsDue(pile[p])}
     IN  \E p \in due : Begin(r, p, pile[p], {<<q, pile[q]>> : q \in due \ {p}})
  /\ UNCHANGED <<dialect, pile, chat, holder, assigning, chosen, reports, writers, ticks, edits>>

-----------------------------------------------------------------------------
(* One conversation of a run.                                              *)

\* Faulty: what was listed is claimed.
ClaimableAny(c) == TRUE

Claimable(c) == ~chat[c].locked

\* Faulty: a refused claim undoes the whole transaction.
NothingKept(r) == [c \in {} |-> None]

\* What a run has sorted and not committed, after a claim that was refused.
Kept(r) == run[r].new

\* The claim waits for the row and then proves that nobody has assigned it; who has is
\* skipped, the savepoint is undone and the work before it kept.
Claim(r) ==
  /\ run[r].state = "next" /\ run[r].queue # <<>>
  /\ LET c == Head(run[r].queue)
     IN  /\ ~Waits(r, c)
         /\ IF Claimable(c)
              THEN /\ holder' = [holder EXCEPT ![c] = r]
                   /\ run' = [run EXCEPT ![r].state = "claimed"]
              ELSE /\ run' = [run EXCEPT ![r].queue = Tail(@), ![r].skipped = @ \cup {c},
                                          ![r].new = Kept(r)]
                   /\ UNCHANGED holder
  /\ UNCHANGED <<dialect, pile, chat, assigning, chosen, reports, writers, ticks, edits>>

\* The savepoint commits on SQLite unless an undone one before it still encloses it.
CommitsAlone(r) == dialect = "sqlite" /\ run[r].skipped = {}

\* The model names a pile, which may have been deactivated since it was offered.
Settle(r, p) ==
  /\ run[r].state = "claimed" /\ ticks < MaxTicks
  /\ LET c == Head(run[r].queue)
     IN  /\ run' = [run EXCEPT ![r].state = "next", ![r].queue = Tail(@), ![r].done = @ \cup {c},
                      ![r].new = IF CommitsAlone(r) THEN @
                                 ELSE [d \in DOMAIN @ \cup {c} |-> IF d = c THEN <<p, ticks + 1>> ELSE @[d]]]
         /\ IF CommitsAlone(r)
              THEN /\ chat' = Sorted(c, p, ticks + 1)
                   /\ writers' = [writers EXCEPT ![c] = @ \cup {r}]
                   /\ holder' = Released(r)
              ELSE UNCHANGED <<chat, writers, holder>>
  /\ ticks' = ticks + 1
  /\ UNCHANGED <<dialect, pile, assigning, chosen, reports, edits>>

\* The configuration is written back whole, as it was read, with the time of this run.
Commit(r) ==
  /\ run[r].state = "next" /\ run[r].queue = <<>>
  /\ LET own == run[r]
     IN  /\ chat' = [c \in Chats |->
                       IF c \in DOMAIN own.new
                         THEN [chat[c] EXCEPT !.pile = own.new[c][1], !.stamp = own.new[c][2]] ELSE chat[c]]
         /\ writers' = [c \in Chats |-> writers[c] \cup (IF c \in DOMAIN own.new THEN {r} ELSE {})]
         /\ pile' = IF own.pile = None THEN pile
                    ELSE [pile EXCEPT ![own.pile].config = own.row.config, ![own.pile].last = ticks]
         /\ reports' = [reports EXCEPT ![r] = [done |-> @.done \cup own.done,
                                               skipped |-> @.skipped \cup own.skipped]]
         /\ holder' = Released(r)
         /\ LET left == {d \in own.due : IsDue(d[2])}
            IN  IF left = {} THEN run' = [run EXCEPT ![r] = [state |-> "over"]]
                ELSE \E d \in left : run' = [run EXCEPT ![r] =
                       [state |-> "list", pile |-> d[1], row |-> d[2], due |-> own.due \ {d}]]
  /\ UNCHANGED <<dialect, assigning, chosen, ticks, edits>>

\* The next pile that was due; its conversations are listed only now.
NextDue(r) ==
  /\ run[r].state = "list"
  /\ Begin(r, run[r].pile, run[r].row, run[r].due)
  /\ UNCHANGED <<dialect, pile, chat, holder, assigning, chosen, reports, writers, ticks, edits>>

\* A failing model, a lost database, a deadlock or a wait that is too long: what is not
\* committed is undone, and nothing is reported.
Abort(r) ==
  /\ run[r].state \in {"next", "claimed"}
  /\ holder' = Released(r)
  /\ run' = [run EXCEPT ![r] = [state |-> "over"]]
  /\ reports' = [reports EXCEPT ![r] = NoReport]
  /\ UNCHANGED <<dialect, pile, chat, assigning, chosen, writers, ticks, edits>>

-----------------------------------------------------------------------------
(* The owner.                                                              *)

\* She assigns a conversation, or takes one back from the discarded pile.
OwnerClaim(c, recover) ==
  /\ assigning = None /\ edits < MaxEdits
  /\ ~Waits(Owner, c)
  /\ recover => chat[c].pile = "discarded"
  /\ holder' = [holder EXCEPT ![c] = Owner]
  /\ assigning' = [chat |-> c, recover |-> recover]
  /\ edits' = edits + 1
  /\ UNCHANGED <<dialect, pile, chat, run, chosen, reports, writers, ticks>>

\* An assigned conversation is locked; a recovered one is sorted like a new one.
OwnerCommit(p) ==
  /\ assigning # None /\ p \in DOMAIN pile /\ ticks < MaxTicks
  /\ LET c == assigning.chat
     IN  /\ chat' = [Sorted(c, p, ticks + 1) EXCEPT ![c].locked = ~assigning.recover]
         /\ chosen' = [chosen EXCEPT ![c] = IF assigning.recover THEN None ELSE p]
  /\ ticks' = ticks + 1
  /\ holder' = Released(Owner)
  /\ assigning' = None
  /\ UNCHANGED <<dialect, pile, run, reports, writers, edits>>

CreatePile(p, config) ==
  /\ p \in UserPiles \ DOMAIN pile /\ edits < MaxEdits
  /\ pile' = [q \in DOMAIN pile \cup {p} |->
                IF q = p THEN [Seed EXCEPT !.config = config] ELSE pile[q]]
  /\ edits' = edits + 1
  /\ UNCHANGED <<dialect, chat, holder, run, assigning, chosen, reports, writers, ticks>>

\* A configuration that is given replaces the old one, the time of the last run in it
\* included; a built-in pile stays active.
UpdatePile(p, config, active) ==
  /\ p \in DOMAIN pile /\ edits < MaxEdits
  /\ p \in BuiltIns => active
  /\ pile' = [pile EXCEPT ![p].active = active,
                         ![p].config = IF config = None THEN @ ELSE config,
                         ![p].last = IF config = None THEN @ ELSE None]
  /\ edits' = edits + 1
  /\ UNCHANGED <<dialect, chat, holder, run, assigning, chosen, reports, writers, ticks>>

\* Only piles of the owner's; the row and its conversations stay.
DeletePile(p) ==
  /\ p \in DOMAIN pile \ BuiltIns /\ edits < MaxEdits
  /\ pile' = [pile EXCEPT ![p].active = FALSE]
  /\ edits' = edits + 1
  /\ UNCHANGED <<dialect, chat, holder, run, assigning, chosen, reports, writers, ticks>>

-----------------------------------------------------------------------------
Init ==
  /\ dialect \in {"postgres", "sqlite"}
  /\ pile = [p \in BuiltIns |-> Seed]
  /\ chat = [c \in Chats |-> [pile |-> "ideas", locked |-> FALSE, stamp |-> 0]]
  /\ holder = [c \in Chats |-> None]
  /\ run = [r \in Runners |-> NoRun]
  /\ assigning = None
  /\ chosen = [c \in Chats |-> None]
  /\ reports = [r \in Runners |-> NoReport]
  /\ writers = [c \in Chats |-> {}]
  /\ ticks = 0 /\ edits = 0

Next ==
  \/ \E r \in Runners :
       \/ \E p \in DOMAIN pile : RestructurePile(r, p)
       \/ RestructureAll(r) \/ RestructureDue(r)
       \/ Claim(r)
       \/ \E p \in DOMAIN pile : Settle(r, p)
       \/ Commit(r) \/ NextDue(r) \/ Abort(r)
  \/ \E c \in Chats, recover \in BOOLEAN : OwnerClaim(c, recover)
  \/ \E p \in DOMAIN pile : OwnerCommit(p)
  \/ \E p \in UserPiles, config \in Configs : CreatePile(p, config)
  \/ \E p \in DOMAIN pile, config \in Configs \cup {None}, active \in BOOLEAN :
       UpdatePile(p, config, active)
  \/ \E p \in DOMAIN pile : DeletePile(p)

Spec == Init /\ [][Next]_restructureVars

\* Types; no built-in pile is ever inactive.
TypeOK ==
  /\ BuiltIns \subseteq DOMAIN pile /\ DOMAIN pile \subseteq BuiltIns \cup UserPiles
  /\ \A p \in BuiltIns : pile[p].active
  /\ chat \in [Chats -> [pile : DOMAIN pile, locked : BOOLEAN, stamp : 0..MaxTicks]]
  /\ holder \in [Chats -> Runners \cup {Owner, None}]

\* A conversation stays where its owner put it, whatever runs had listed it before, wait for
\* its row or have claimed others.
\* (services/restructure.py and processing.py: the guarded claim)
OwnerStands == \A c \in Chats : chosen[c] # None => chat[c].pile = chosen[c] /\ chat[c].locked

\* A request that reports has committed a rewrite of every conversation that it says it has
\* processed, and of none that it skipped throughout; being refused one costs it none of the
\* others. (services/restructure.py: _reprocess_sessions)
RunsReportTruly ==
  \A r \in Runners : run[r].state = "over" =>
    /\ \A c \in reports[r].done : r \in writers[c]
    /\ \A c \in reports[r].skipped \ reports[r].done : r \notin writers[c]
=============================================================================
