----------------------------- MODULE Publisher -----------------------------
(***************************************************************************)
(* The adapter of a Git-backed site: publish.py takes one approved draft   *)
(* through the site's article collection, a commit and a push, with a      *)
(* private receipt that lets a later run resume.  It may fail or be        *)
(* stopped anywhere.  Its requests are served by Editorial.                *)
(*                                                                         *)
(* The checkout has one branch; a commit is its number, its content the    *)
(* collection.  The owner's own site work happens between runs.            *)
(***************************************************************************)
EXTENDS Editorial

CONSTANTS
  Publishers,   \* runs of the adapter that may be going on; they are callers too
  Site,         \* the destination bound to the checkout
  SlugOf,       \* the slug of a payload
  MaxCommits,   \* bound: commits in the checkout
  MaxCrashes    \* bound: runs stopped between two effects

ASSUME PublisherAssumption ==
  /\ Publishers \subseteq Callers
  /\ Site \in Destinations
  /\ DOMAIN SlugOf = Copies
  /\ MaxCommits \in Nat /\ MaxCrashes \in Nat

VARIABLES
  file,      \* the collection in the worktree
  commits,   \* the collection in each commit
  pushed,    \* how many commits the remote has
  receipt,   \* the receipt file of each draft and copy
  run,       \* each run of the adapter
  crashes

siteVars == <<file, commits, pushed, receipt>>
vars == <<editorialVars, file, commits, pushed, receipt, run, crashes>>

Collections == SUBSET Copies

NoReceipt == [status |-> "none", commit |-> 0]
Receipts == [status : {"none", "written", "committed", "pushed"}, commit : Nat]

\* How far a run goes is up to its flags: Quit ends it after any stage.
Runs == [pc : {"preview", "decide", "export", "write", "validate", "commit", "record", "push",
               "pushing", "note"},
         draft : Drafts, copy : Copies, version : Nat, before : Collections,
         previous : Receipts]
NoRun == [pc |-> "none"]

TypeOK ==
  /\ EditorialTypeOK
  /\ file \in Collections
  /\ commits \in Seq(Collections)
  /\ pushed \in 1..Len(commits)
  /\ receipt \in [Drafts \X Copies -> Receipts]
  /\ run \in [Publishers -> Runs \cup {NoRun}]
  /\ crashes \in Nat

SiteInit ==
  /\ file = {}
  /\ commits = <<{}>>
  /\ pushed = 1
  /\ receipt = [k \in Drafts \X Copies |-> NoReceipt]
  /\ run = [p \in Publishers |-> NoRun]
  /\ crashes = 0

Init == EditorialInit /\ SiteInit

------------------------------------------------------------------------------
(* The checkout. *)

HEAD == Len(commits)
Dirty == file # commits[HEAD]

\* merge_article: the slug is the key.
MergeArticle(rows, copy) == {r \in rows : SlugOf[r] # SlugOf[copy]} \cup {copy}

After(p) == MergeArticle(run[p].before, run[p].copy)

Commit(rows) == HEAD < MaxCommits /\ commits' = Append(commits, rows)

\* Withdrawal of an article is the owner's own commit, outside of any run.
Withdraw(copy) ==
  /\ \A p \in Publishers : run[p] = NoRun
  /\ ~Dirty /\ copy \in file
  /\ file' = file \ {copy}
  /\ Commit(file')
  /\ UNCHANGED <<editorialVars, pushed, receipt, run>>

------------------------------------------------------------------------------
(* One run of main. *)

\* Faulty: the run's row is kept.
Halt(p) == run' = [run EXCEPT ![p].pc = "none"]
Goto(p, pc) == run' = [run EXCEPT ![p].pc = pc]
End(p) == run' = [run EXCEPT ![p] = NoRun]

Key(p) == <<run[p].draft, run[p].copy>>
AskedHash(p) == Hash(run[p].copy, Site)

\* The preview must show the copy and the destination that were asked for, without findings.
Launch(p, d, copy) ==
  /\ run[p] = NoRun /\ request[p] = Quiet
  /\ Exists(d)
  /\ PublicationHash(draft[d]) = Hash(copy, Site)
  /\ Ready(draft[d])
  /\ run' = [run EXCEPT ![p] = [pc |-> "preview", draft |-> d, copy |-> copy,
                                version |-> 0, before |-> {}, previous |-> NoReceipt]]
  /\ UNCHANGED <<editorialVars, siteVars>>

\* The draft must be approved; then the collection and the receipt are read.
Look(p) ==
  LET d == run[p].draft IN
  /\ run[p].pc = "preview"
  /\ draft[d].approval = AskedHash(p)
  /\ run' = [run EXCEPT ![p].pc = "decide", ![p].version = draft[d].version,
                        ![p].before = file, ![p].previous = receipt[Key(p)]]
  /\ UNCHANGED <<editorialVars, siteVars>>

\* Faulty: the worktree need not be clean.
AnyWorktree(p) == TRUE
\* The worktree holds what an earlier run wrote and did not commit.
OwnRetry(p) == run[p].previous.status = "written" /\ run[p].before = After(p)

\* Nothing to write: resume the recorded publication, unless HEAD has moved.
Resume(p) ==
  /\ run[p].pc = "decide"
  /\ Dirty => OwnRetry(p)
  /\ run[p].before = After(p)
  /\ run[p].previous # NoReceipt
  /\ run[p].previous.commit \in {0, HEAD}
  /\ Goto(p, "commit")
  /\ UNCHANGED <<editorialVars, siteVars>>

RequestExport(p) ==
  /\ run[p].pc = "decide"
  /\ Dirty => OwnRetry(p)
  /\ run[p].before # After(p)
  /\ BeginExport(p, [draft |-> run[p].draft, version |-> run[p].version,
                     hash |-> AskedHash(p)])
  /\ Goto(p, "export")
  /\ UNCHANGED siteVars

\* Faulty: any answer will do.
Answered(p) ==
  /\ run[p] # NoRun /\ run[p].pc = "export"
  /\ Export(p) \/ Refuse(p)
  /\ Goto(p, "write")
  /\ UNCHANGED siteVars

Exported(p) ==
  /\ run[p] # NoRun /\ run[p].pc = "export"
  /\ Export(p)
  /\ Goto(p, "write")
  /\ UNCHANGED siteVars

WriteFile(p) ==
  /\ run[p].pc = "write"
  /\ file' = After(p)
  /\ Goto(p, "validate")
  /\ UNCHANGED <<editorialVars, commits, pushed, receipt>>

\* The site's validation passes, and the receipt is written ...
Valid(p) ==
  LET written == [status |-> "written", commit |-> 0] IN
  /\ run[p].pc = "validate"
  /\ receipt' = [receipt EXCEPT ![Key(p)] = written]
  /\ run' = [run EXCEPT ![p].pc = "commit", ![p].previous = written]
  /\ UNCHANGED <<editorialVars, file, commits, pushed>>

\* ... or it fails, and the bytes of this run are taken back.
Invalid(p) ==
  /\ run[p].pc = "validate"
  /\ file' = IF file = After(p) THEN run[p].before ELSE file
  /\ End(p)
  /\ UNCHANGED <<editorialVars, commits, pushed, receipt>>

\* git commit of the collection; there must be something to commit.
GitCommit(p) ==
  /\ run[p].pc = "commit"
  /\ run[p].previous.commit = 0
  /\ Dirty
  /\ Commit(file)
  /\ Goto(p, "record")
  /\ UNCHANGED <<editorialVars, file, pushed, receipt>>

Recorded(p, status) ==
  LET previous == [status |-> status, commit |-> IF status = "committed" THEN HEAD
                                                 ELSE run[p].previous.commit] IN
  /\ receipt' = [receipt EXCEPT ![Key(p)] = previous]
  /\ UNCHANGED <<editorialVars, file, commits, pushed>>

RecordCommit(p) ==
  /\ run[p].pc = "record"
  /\ Recorded(p, "committed")
  /\ run' = [run EXCEPT ![p].pc = "push", ![p].previous = receipt'[Key(p)]]

Committed(p) ==
  /\ run[p].pc = "commit"
  /\ run[p].previous.commit # 0
  /\ Goto(p, "push")
  /\ UNCHANGED <<editorialVars, siteVars>>

\* Approval and evidence are read again before the push ...
Recheck(p) ==
  LET row == draft[run[p].draft] IN
  /\ run[p].pc = "push"
  /\ row.approval = AskedHash(p) /\ Stale(row) = {}
  /\ Goto(p, "pushing")
  /\ UNCHANGED <<editorialVars, siteVars>>

\* Faulty: git's exit status is not looked at.
TryPush(p) ==
  /\ run[p].pc = "pushing"
  /\ pushed' \in {pushed, HEAD}
  /\ Goto(p, "note")
  /\ UNCHANGED <<editorialVars, file, commits, receipt>>

\* ... which takes everything up to HEAD.
Push(p) ==
  /\ run[p].pc = "pushing"
  /\ pushed' = HEAD
  /\ Goto(p, "note")
  /\ UNCHANGED <<editorialVars, file, commits, receipt>>

RecordPush(p) ==
  /\ run[p].pc = "note"
  /\ Recorded(p, "pushed")
  /\ End(p)

\* The run has done what was asked, refuses to go on, or a request or git fails.
Quit(p) ==
  /\ run[p].pc \in {"preview", "decide", "export", "commit", "push", "pushing"}
  /\ End(p)
  /\ UNCHANGED <<editorialVars, siteVars>>

\* It is stopped between two effects.
Crash(p) ==
  /\ run[p].pc \in {"write", "validate", "record", "note"}
  /\ crashes < MaxCrashes
  /\ crashes' = crashes + 1
  /\ End(p)
  /\ UNCHANGED <<editorialVars, siteVars>>

------------------------------------------------------------------------------
Step(p) ==
  \/ \E d \in Drafts, copy \in Copies : Launch(p, d, copy)
  \/ Look(p) \/ Resume(p) \/ RequestExport(p) \/ Exported(p)
  \/ WriteFile(p) \/ Valid(p) \/ Invalid(p)
  \/ GitCommit(p) \/ RecordCommit(p) \/ Committed(p)
  \/ Recheck(p) \/ Push(p) \/ RecordPush(p) \/ Quit(p)

\* A run waits for the answer to its export.
Waits(c) == c \in Publishers /\ run[c] # NoRun /\ run[c].pc = "export"

Next ==
  \/ /\ \/ LedgerStep
        \/ \E c \in Callers \ Publishers : OwnerStep(c)
        \/ \E c \in Callers : ServerStep(c) \/ (~Waits(c) /\ Export(c))
     /\ UNCHANGED <<siteVars, run, crashes>>
  \/ \E p \in Publishers : Step(p) /\ UNCHANGED crashes
  \/ \E p \in Publishers : Crash(p)
  \/ \E copy \in Copies : Withdraw(copy) /\ UNCHANGED crashes

Spec == Init /\ [][Next]_vars

------------------------------------------------------------------------------
(* Properties. *)

\* Whatever a commit of the site holds was exported, hence approved, for this site.
SiteIsExported ==
  \A i \in 1..HEAD : \A copy \in commits[i] :
    \E d \in Drafts : [draft |-> d, hash |-> Hash(copy, Site)] \in exports

\* "Validates before committing": an article in a commit has a receipt, which a run writes
\* only once the site's validation has passed.
CommitsRecorded ==
  \A i \in 1..HEAD : \A copy \in commits[i] :
    \E d \in Drafts : receipt[<<d, copy>>] # NoReceipt

\* A receipt never claims too much: the commit it names holds the article, and what it
\* calls pushed is at the remote.
ReceiptsTrue ==
  \A k \in Drafts \X Copies :
    LET r == receipt[k] IN
    /\ r.commit # 0 => r.commit <= HEAD /\ k[2] \in commits[r.commit]
    /\ r.status = "pushed" => 0 < r.commit /\ r.commit <= pushed

\* What is committed and pushed was recorded as exported, and no receipt claims more than
\* happened.
RecordsTrue == CommitsRecorded /\ ReceiptsTrue
=============================================================================
