--------------------------- MODULE ProviderProjects ---------------------------
(***************************************************************************)
(* Project membership.  The browser observes which project of the provider *)
(* a conversation is in; captures carry the observation to the backend     *)
(* late, repeatedly and in any order, and bind the source to a project of  *)
(* the workspace unless the owner has chosen one herself.                  *)
(*                                                                         *)
(* A capture is one transaction and locks its conversation.  On sqlite it  *)
(* holds the only write lock before it reads a binding; on postgres the    *)
(* owner can write between its reads and its commit.                       *)
(***************************************************************************)
EXTENDS Naturals

CONSTANTS
  Sources,
  Upstream,   \* projects at the provider
  Places,     \* projects of the owner
  Engines,    \* databases: "sqlite", "postgres"
  MaxTime,    \* bound: time of the last observation
  None, Unset

VARIABLES
  engine,
  now,
  observed,   \* explicit memberships seen by the browser
  project,    \* Source.project_id
  binding,    \* SourceProjectBinding, or Unset
  remote,     \* ProviderProject.observed_at, or Unset
  choice,     \* history: the owner's last assignment of each source, or Unset
  applied,    \* history: the observations of completed captures
  tx          \* the capture of each source being served

tables == <<project, binding, remote>>
vars == <<engine, now, observed, tables, choice, applied, tx>>

Memberships == Upstream \cup {None}
Times == 0..MaxTime
Observations == [source : Sources, at : 1..MaxTime, project : Memberships]
Bindings == [at : Times, project : Memberships, manual : BOOLEAN]

Idle == [pc |-> "idle"]

TypeOK ==
  /\ engine \in Engines
  /\ now \in Times
  /\ observed \subseteq Observations /\ applied \subseteq observed
  /\ project \in [Sources -> Memberships \cup Places]
  /\ binding \in [Sources -> Bindings \cup {Unset}]
  /\ remote \in [Upstream -> Times \cup {Unset}]
  /\ choice \in [Sources -> Places \cup {None, Unset}]
  /\ \A s \in Sources : tx[s] # Idle =>
       /\ tx[s].observation \in observed /\ tx[s].observation.source = s
       /\ tx[s].binding \in Bindings \cup {Unset}
       /\ tx[s].project \in Memberships \cup Places
       /\ tx[s].remote \in Times \cup {Unset}

\* Assignments made before there were bindings.
Init ==
  /\ engine \in Engines
  /\ now = 0
  /\ observed = {} /\ applied = {}
  /\ choice \in [Sources -> Places \cup {None, Unset}]
  /\ project = [s \in Sources |-> IF choice[s] = Unset THEN None ELSE choice[s]]
  /\ binding = [s \in Sources |-> Unset]
  /\ remote = [u \in Upstream |-> Unset]
  /\ tx = [s \in Sources |-> Idle]

Observe(s, u) ==
  /\ now < MaxTime
  /\ now' = now + 1
  /\ observed' = observed \cup {[source |-> s, at |-> now + 1, project |-> u]}
  /\ UNCHANGED <<engine, tables, choice, applied, tx>>

------------------------------------------------------------------------------
(* apply_provider_project. *)

\* Faulty: whatever arrives is taken.
NewerAny(o) == TRUE
\* An undated capture is like one that is too old.
Newer(o) == binding[o.source] = Unset \/ o.at > binding[o.source].at

RemoteOf(u) == IF u = None THEN Unset ELSE remote[u]

Unlocked == engine = "sqlite" => \A s \in Sources : tx[s] = Idle

Begin(o) ==
  /\ tx[o.source] = Idle /\ Unlocked
  /\ IF Newer(o)
     THEN /\ tx' = [tx EXCEPT ![o.source] =
                      [pc |-> "apply", observation |-> o, binding |-> binding[o.source],
                       project |-> project[o.source], remote |-> RemoteOf(o.project)]]
          /\ UNCHANGED applied
     ELSE /\ applied' = applied \cup {o}
          /\ UNCHANGED tx
  /\ UNCHANGED <<engine, now, observed, tables, choice>>

\* Faulty: a source without a binding is not the owner's.
NeverManual(s) == FALSE
\* An upgraded source is the owner's if she ever assigned it, be it to no project.
AssignedBefore(s) == tx[s].project # None \/ choice[s] # Unset

\* Of the row of the binding, only the columns that the capture has set are written; the
\* project only if it differs from the one the capture read.
Bound(s) ==
  LET t == tx[s]  o == t.observation IN
  IF t.binding = Unset
  THEN [at |-> o.at, project |-> o.project, manual |-> AssignedBefore(s)]
  ELSE [binding[s] EXCEPT !.at = o.at, !.project = o.project]
IsManual(s) == IF tx[s].binding = Unset THEN AssignedBefore(s) ELSE tx[s].binding.manual
Writes(s) == ~IsManual(s) /\ tx[s].observation.project # tx[s].project

Observed(s) ==
  LET t == tx[s]  u == t.observation.project IN
  IF u # None /\ (t.remote = Unset \/ t.observation.at > t.remote)
  THEN [remote EXCEPT ![u] = t.observation.at] ELSE remote

\* Two transactions that insert the same binding, or the same project, collide.
Collides(s) ==
  LET t == tx[s]  u == t.observation.project IN
  \/ t.binding = Unset /\ binding[s] # Unset
  \/ u # None /\ t.remote = Unset /\ remote[u] # Unset

End(s) == tx' = [tx EXCEPT ![s] = Idle]

Commit(s) ==
  /\ tx[s] # Idle /\ ~Collides(s)
  /\ binding' = [binding EXCEPT ![s] = Bound(s)]
  /\ remote' = Observed(s)
  /\ project' = IF Writes(s) THEN [project EXCEPT ![s] = tx[s].observation.project]
                ELSE project
  /\ applied' = applied \cup {tx[s].observation}
  /\ End(s)
  /\ UNCHANGED <<engine, now, observed, choice>>

\* Also for any other reason; the browser tries again.
Fail(s) ==
  /\ tx[s] # Idle
  /\ End(s)
  /\ UNCHANGED <<engine, now, observed, tables, choice, applied>>

------------------------------------------------------------------------------
\* edit_source with a project, and lock_manual_project.
Edit(s, p) ==
  /\ Unlocked
  /\ project' = [project EXCEPT ![s] = p]
  /\ choice' = [choice EXCEPT ![s] = p]
  /\ binding' = [binding EXCEPT ![s] =
       IF @ = Unset THEN [at |-> 0, project |-> None, manual |-> TRUE]
       ELSE [@ EXCEPT !.manual = TRUE]]
  /\ UNCHANGED <<engine, now, observed, remote, applied, tx>>

Next ==
  \/ \E s \in Sources : \/ \E u \in Memberships : Observe(s, u)
                        \/ Commit(s) \/ Fail(s)
                        \/ \E p \in Places \cup {None} : Edit(s, p)
  \/ \E o \in observed : Begin(o)

Spec == Init /\ [][Next]_vars

------------------------------------------------------------------------------
(* Properties. *)

Assigned(s) == choice[s] # Unset => project[s] = choice[s]

\* On sqlite no import changes the project the owner has chosen, "No project" included and
\* before the upgrade included, whichever observation arrives when.
ManualKept == engine = "sqlite" => \A s \in Sources : Assigned(s)

\* "Manual project assignment takes precedence over subsequent imports": the same of every
\* database.
ManualFirst == \A s \in Sources : Assigned(s)

Newest(s, o) ==
  /\ o \in applied /\ o.source = s
  /\ \A p \in applied : p.source = s => p.at <= o.at

\* "Capture timestamps prevent replayed membership from overwriting newer evidence": a
\* source the owner has not assigned is in the project that its newest observation says.
NewestWins ==
  \A s \in Sources, o \in applied :
    Newest(s, o) /\ choice[s] = Unset => project[s] = o.project
=============================================================================
