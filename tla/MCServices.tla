----------------------------- MODULE MCServices -----------------------------
(***************************************************************************)
(* Services of the backend, each on a small instance of its own, in one    *)
(* run: the semantic index, the projects of the provider, connection       *)
(* grants, saved pages, tasks with settings and reminders, the transcripts *)
(* of command-line agents, and completions through a browser.              *)
(***************************************************************************)
EXTENDS Projection

CONSTANTS
  Sources, Upstream, Places, Engines, MaxTime, Unset,
  Grants, Devices, Names, Limits, MaxReplaced, ServiceOwner, Deleted,
  CaptureKeys, Payloads, Requests, Processes, Enrichments, Sent, Modes,
  Clients, RequestKeys, Wishes, Changes, SettingChanges,
  MaxTasks, MaxTaskVersion, MaxClock, MaxSettings,
  Hosts, Spoken, Files, MaxMessages, MaxLength, MaxSeconds, MaxHandled,
  Calls, Talks, Prompts, Replies, Providers, MaxNodes, Home

VARIABLES
  service,  \* which of the services runs; the index has its own variables
  s1, s2, s3, s4, s5, s6, s7, s8, s9  \* those of any other service, as many as it has

-----------------------------------------------------------------------------
(* What the instances hold.                                                *)

Reminded == {[status |-> "open", remind |-> <<1, 1>>, due |-> None, notify |-> TRUE]}
FourChanges ==
  {[status |-> "done"], [remind |-> <<1, 2>>], [remind |-> None, due |-> 1], [remind |-> <<2, 1>>]}
Switches == {[enabled |-> TRUE], [digest |-> TRUE]}

\* What the model answers to a page: under the title as it was sent, or another.
Answered == {[title |-> Sent, rest |-> 1], [title |-> 1, rest |-> 1], [title |-> 1, rest |-> 2]}

\* One record without an id, one with an id, and one without a text.
Agent == {[id |-> None, role |-> "user", text |-> 1], [id |-> 5, role |-> "user", text |-> 2],
          [id |-> 6, role |-> "tool", text |-> None]}

-----------------------------------------------------------------------------
\* A limit is a number, and a row is neither of the two marks.
ASSUME GrantsAssumption ==
  /\ Limits \subseteq Nat \cup {None}
  /\ {None, Deleted} \cap [user : Nat, limit : Limits, count : Nat,
                           revoked : BOOLEAN, expired : BOOLEAN] = {}

-----------------------------------------------------------------------------
Projects == INSTANCE ProviderProjects
  WITH engine <- s1, now <- s2, observed <- s3, project <- s4, binding <- s5, remote <- s6,
       choice <- s7, applied <- s8, tx <- s9
Connections == INSTANCE Grants
  WITH admin <- s1, grant <- s2, tokens <- s3, redeem <- s4
Pages == INSTANCE SourceCapture
  WITH Keys <- CaptureKeys,
       mode <- s1, row <- s2, file <- s3, sources <- s4, request <- s5, served <- s6, repeated <- s7
Plans == INSTANCE Planner
  WITH tasks <- s1, commands <- s2, settings <- s3, trail <- s4, settingsTrail <- s5, clock <- s6,
       delivered <- s7, told <- s8, asked <- s9
Agents == INSTANCE Handoff
  WITH Records <- Spoken, Notes <- Files,
       script <- s1, hook <- s2, clock <- s3, offline <- s4, store <- s5, mark <- s6,
       handled <- s7, overwritten <- s8
Completions == INSTANCE Proxy
  WITH provider <- s1, talks <- s2, lock <- s3, taskLock <- s4, kept <- s5, call <- s6,
       stored <- s7, clock <- s8

state == <<s1, s2, s3, s4, s5, s6, s7, s8, s9>>

NoIndex == Init /\ \A r \in Records : kind[r] = "memory" /\ row[r].content = 1
None6To8 == s6 = None /\ s7 = None /\ s8 = None

ServicesInit ==
  \/ /\ service = "search" /\ Init
     /\ s1 = None /\ s2 = None /\ s3 = None /\ s4 = None /\ s5 = None /\ None6To8 /\ s9 = None
  \/ /\ NoIndex
     /\ \/ service = "projects" /\ Projects!Init
        \/ service = "grants" /\ Connections!Init /\ s5 = None /\ None6To8 /\ s9 = None
        \/ service = "pages" /\ Pages!Init /\ s8 = None /\ s9 = None
        \/ service = "plans" /\ Plans!Init
        \/ service = "agents" /\ Agents!Init /\ s9 = None
        \/ service = "completions" /\ Completions!Init /\ s9 = None

SearchNext == service = "search" /\ Next /\ UNCHANGED <<service, state>>
ProjectsNext == service = "projects" /\ Projects!Next /\ UNCHANGED <<service, vars>>
GrantsNext == service = "grants" /\ Connections!Next /\ UNCHANGED <<service, vars, s5, s6, s7, s8, s9>>
PagesNext == service = "pages" /\ Pages!Next /\ UNCHANGED <<service, vars, s8, s9>>
PlansNext == service = "plans" /\ Plans!Next /\ UNCHANGED <<service, vars>>
AgentsNext == service = "agents" /\ Agents!Next /\ UNCHANGED <<service, vars, s9>>
CompletionsNext == service = "completions" /\ Completions!Next /\ UNCHANGED <<service, vars, s9>>

Services ==
  ServicesInit /\ [][\/ SearchNext \/ ProjectsNext \/ GrantsNext \/ PagesNext
                     \/ PlansNext \/ AgentsNext \/ CompletionsNext]_<<service, vars, state>>

-----------------------------------------------------------------------------
\* What is not there is told apart from every choice and every binding.
ASSUME ProjectsAssumption ==
  /\ Unset \notin Places \cup {None} /\ Unset \notin Projects!Bindings
  /\ MaxTime \in Nat

\* An enrichment has a title and a rest, and what is none of these is told apart from them.
ASSUME PagesAssumption ==
  /\ \A e \in Enrichments : e = [title |-> e.title, rest |-> e.rest]
  /\ None \notin Enrichments /\ None \notin Pages!Titles /\ None \notin Pages!Rows

\* What clients ask has the types of what tasks hold, and None is none of it.
ASSUME PlannerAssumption ==
  /\ Wishes \subseteq Plans!TaskValues
  /\ \A change \in Changes :
       /\ "status" \in DOMAIN change => change.status \in {"open", "done", "archived"}
       /\ "remind" \in DOMAIN change => change.remind \in (Nat \X Nat) \cup {None}
       /\ "due" \in DOMAIN change => change.due \in Nat \cup {None}
       /\ "notify" \in DOMAIN change => change.notify \in BOOLEAN
  /\ None \notin Nat /\ MaxClock \in Nat
  /\ \A n \in 0..MaxClock : None # <<0, "digest", n>>

\* Nobody and nowhere are told apart from every call and every conversation.
ASSUME CompletionsAssumption ==
  None \notin Calls \cup Talks \cup {"chat", "task"} /\ Home \notin Talks

\* The bounds are numbers, and only so many devices ask for a token.
ASSUME BoundsAssumption ==
  /\ IsFiniteSet(Devices) /\ MaxReplaced \in Nat
  /\ MaxTasks \in Nat /\ MaxTaskVersion \in Nat \ {0}
  /\ MaxLength \in Nat /\ MaxSeconds \in Nat

-----------------------------------------------------------------------------
\* Types of all; a process serves one request with a capture key at a time, and a browser one call.
TypesOK ==
  /\ TypeOK
  /\ service = "projects" => Projects!TypeOK
  /\ service = "grants" => Connections!TypeOK
  /\ service = "pages" => Pages!TypeOK
  /\ service = "plans" => Plans!TypeOK
  /\ service = "agents" => Agents!TypeOK
  /\ service = "completions" => Completions!TypeOK

\* A source is in the project that its owner chose, if she ever did, and otherwise in the
\* one that its newest observation says, whichever order imports arrive in.
Membership == service = "projects" => Projects!ManualKept /\ Projects!NewestWins

\* Repeated and simultaneous requests count once: a grant's tokens are as many as it counts
\* and never more than it allows, a key makes one task, the history of a task has no fork,
\* and a reminder is announced under one key.
CountedOnce ==
  /\ service = "grants" => Connections!CountedOnce
  /\ service = "plans" => Plans!OncePerKey /\ Plans!HistoryChains /\ Plans!RemindedOnce

\* Who is told that a page is saved finds what she sent under its key, and the row shows what
\* the files do, unless another server process enriched the complete source again; and what
\* an agent's hook has dealt with is at the backend or on disk, whatever answer was lost.
SavedIsKept ==
  /\ service = "pages" => Pages!SavedIsStored /\ Pages!FilesShowRow /\ Pages!RepeatedAcross
  /\ service = "agents" => Agents!HandedOver

\* A completion answers its own prompt, or with a text that its page loaded with its
\* conversation; a repair is asked for where the reply was given, or in a new conversation
\* if the page did not know where; and a repeated history adds no turn twice.
CompletionsHold ==
  service = "completions" =>
    Completions!OwnAnswer /\ Completions!ShownAnswer /\ Completions!RepairsOwn /\ Completions!TurnsOnce
=============================================================================
