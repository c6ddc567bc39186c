------------------------------ MODULE Handoff -------------------------------
(***************************************************************************)
(* Command-line agents hand their conversations to the backend             *)
(* (codex-plugin/hooks/savemycontext_codex_hook.py, claude-plugin's        *)
(* dump_markdown.py): the whole transcript at every stop, a Markdown file  *)
(* on demand, and a bundle on disk when the backend cannot be reached.     *)
(* A transcript is the sequence of its records and of what is nested in    *)
(* them, in the order in which they are visited.                           *)
(***************************************************************************)
EXTENDS Naturals, Sequences, FiniteSets, SequencesExt

CONSTANTS
  Hosts,         \* conversations with an agent
  Records,       \* what a transcript may hold: [id, role, text], id or text may be None
  Notes,         \* Markdown files to hand over
  MaxMessages,   \* of a bundle (5000 in the code)
  MaxLength,     \* bound: records of a transcript
  MaxSeconds,    \* bound: the clock
  MaxHandled,    \* bound: bundles dealt with
  None

VARIABLES
  script,      \* the transcripts
  hook,        \* what the hook or the command of a conversation is doing
  clock,       \* in half seconds
  offline,     \* bundles on disk, by name
  store,       \* what the backend holds of a conversation: texts by message id
  mark,        \* and the time of its last capture
  handled,     \* history: bundles whose hook or command has come to its end
  overwritten  \* history: bundles whose file was written over

handoffVars == <<script, hook, clock, offline, store, mark, handled, overwritten>>

Quiet == [state |-> "quiet"]

-----------------------------------------------------------------------------
(* The bundle.                                                             *)

\* A record without an id gets one from its position, its role and its text.
Message(record, index) ==
  [id |-> IF record.id # None THEN <<record.id>> ELSE <<index, record.role, record.text>>,
   role |-> record.role, text |-> record.text]

\* Records without a text, repeated ones, and those past the limit are left out.
Collected(records) ==
  LET add(messages, record) ==
        LET m == Message(record, Len(messages) + 1)
        IN  IF Len(messages) >= MaxMessages \/ record.text = None \/ Contains(messages, m)
            THEN messages ELSE Append(messages, m)
  IN  FoldLeft(add, <<>>, records)

Bundle(session, provider, messages) ==
  [session |-> session, provider |-> provider, at |-> clock, messages |-> messages]

\* The importer refuses a bundle in which two messages have one id.
Accepted(bundle) ==
  /\ bundle.messages # <<>>
  /\ \A i, j \in DOMAIN bundle.messages : bundle.messages[i].id = bundle.messages[j].id => i = j

-----------------------------------------------------------------------------
(* The importer, as a full snapshot whose completeness is unknown.         *)

Older(bundle) == bundle.session \in DOMAIN mark /\ bundle.at < mark[bundle.session]
Newer(bundle) == bundle.session \in DOMAIN mark => bundle.at > mark[bundle.session]

Known(session) == IF session \in DOMAIN store THEN store[session] ELSE [id \in {} |-> None]

\* Unseen messages are added, seen ones updated by a newer bundle; an older one changes nothing.
Import(bundle) ==
  LET session == bundle.session
      old == Known(session)
      given == {bundle.messages[i].id : i \in DOMAIN bundle.messages}
      text(id) == (CHOOSE m \in ToSet(bundle.messages) : m.id = id).text
      merged == [id \in DOMAIN old \cup given |->
                   IF id \in given /\ (id \notin DOMAIN old \/ Newer(bundle)) THEN text(id) ELSE old[id]]
  IN  IF Older(bundle) THEN UNCHANGED <<store, mark>>
      ELSE /\ store' = [s \in DOMAIN store \cup {session} |-> IF s = session THEN merged ELSE store[s]]
           /\ mark' = [s \in DOMAIN mark \cup {session} |-> IF s = session THEN bundle.at ELSE mark[s]]

-----------------------------------------------------------------------------
(* The hook and the commands.                                              *)

Turn(h, record) ==
  /\ Len(script[h]) < MaxLength
  /\ script' = [script EXCEPT ![h] = Append(@, record)]
  /\ UNCHANGED <<hook, clock, offline, store, mark, handled, overwritten>>

Posting(h, bundle) ==
  /\ hook[h] = Quiet /\ Cardinality(handled) < MaxHandled
  /\ hook' = [hook EXCEPT ![h] = [state |-> "posting", bundle |-> bundle]]

\* A stop reads the transcript; with nothing to say there is nothing to post.  (An answer
\* that only the event holds stands for a transcript of one record, with an id of its text.)
Stop(h) ==
  /\ Collected(script[h]) # <<>>
  /\ Posting(h, Bundle(<<h>>, "codex", Collected(script[h])))
  /\ UNCHANGED <<script, clock, offline, store, mark, handled, overwritten>>

\* A file handed over is a conversation of its own, named by its time and its text.
DumpMarkdown(h, note) ==
  /\ Posting(h, Bundle(<<clock, note>>, "codex", <<[id |-> <<note>>, role |-> "assistant", text |-> note]>>))
  /\ UNCHANGED <<script, clock, offline, store, mark, handled, overwritten>>

\* Claude's uploader does the same from a directory of its own.
DumpFromClaude(h, note) ==
  /\ Posting(h, Bundle(<<clock, note>>, "claude", <<[id |-> <<note>>, role |-> "assistant", text |-> note]>>))
  /\ UNCHANGED <<script, clock, offline, store, mark, handled, overwritten>>

Ended(h) ==
  /\ hook' = [hook EXCEPT ![h] = Quiet]
  /\ handled' = handled \cup {hook[h].bundle}

\* Faulty: a bundle is saved only if nobody answers.
SavedUnanswered(outcome) == outcome = "lost"

\* Every failure to hear that the bundle is stored has it saved.
Saved(outcome) == outcome \in {"lost", "refused", "unheard"}

\* The backend stores the bundle, refuses it, or is not reached; its answer may come too late.
Post(h, outcome) ==
  /\ hook[h].state = "posting"
  /\ LET bundle == hook[h].bundle
     IN  /\ outcome \in {"stored", "unheard"} => Accepted(bundle)
         /\ IF outcome \in {"stored", "unheard"} THEN Import(bundle) ELSE UNCHANGED <<store, mark>>
         /\ IF Saved(outcome)
              THEN hook' = [hook EXCEPT ![h].state = "saving"] /\ UNCHANGED handled
              ELSE Ended(h)
  /\ UNCHANGED <<script, clock, offline, overwritten>>

\* The file is named by its provider and the second.
Save(h) ==
  /\ hook[h].state = "saving"
  /\ LET name == <<hook[h].bundle.provider, clock \div 2>>
     IN  /\ offline' = [n \in DOMAIN offline \cup {name} |->
                          IF n = name THEN hook[h].bundle ELSE offline[n]]
         /\ overwritten' = overwritten \cup {offline[n] : n \in DOMAIN offline \cap {name}}
  /\ Ended(h)
  /\ UNCHANGED <<script, clock, store, mark>>

\* The agent gives the hook a limited time.
Kill(h) ==
  /\ hook[h] # Quiet
  /\ hook' = [hook EXCEPT ![h] = Quiet]
  /\ UNCHANGED <<script, clock, offline, store, mark, handled, overwritten>>

\* Later the owner imports a file, which stays where it is.
ImportFile(name) ==
  /\ Accepted(offline[name])
  /\ Import(offline[name])
  /\ UNCHANGED <<script, hook, clock, offline, handled, overwritten>>

Tick ==
  /\ clock < 2 * MaxSeconds
  /\ clock' = clock + 1
  /\ UNCHANGED <<script, hook, offline, store, mark, handled, overwritten>>

-----------------------------------------------------------------------------
Init ==
  /\ script = [h \in Hosts |-> <<>>]
  /\ hook = [h \in Hosts |-> Quiet]
  /\ clock = 0
  /\ offline = [n \in {} |-> None] /\ store = [s \in {} |-> None] /\ mark = [s \in {} |-> None]
  /\ handled = {} /\ overwritten = {}

Next ==
  \/ \E h \in Hosts :
       \/ \E record \in Records : Turn(h, record)
       \/ Stop(h)
       \/ \E note \in Notes : DumpMarkdown(h, note) \/ DumpFromClaude(h, note)
       \/ \E outcome \in {"stored", "unheard", "refused", "lost"} : Post(h, outcome)
       \/ Save(h)
       \/ Kill(h)
  \/ \E name \in DOMAIN offline : ImportFile(name)
  \/ Tick

Spec == Init /\ [][Next]_handoffVars

TypeOK ==
  /\ \A h \in Hosts : Len(script[h]) <= MaxLength /\ ToSet(script[h]) \subseteq Records
  /\ clock \in 0..(2 * MaxSeconds)
  /\ DOMAIN store = DOMAIN mark
  /\ \A n \in DOMAIN offline : offline[n].at \div 2 <= n[2]

Holds(bundle) == \A i \in DOMAIN bundle.messages : bundle.messages[i].id \in DOMAIN Known(bundle.session)

\* Whatever a hook or a command has dealt with is at the backend, every message of it, or on
\* disk, unless its file had the name of another: answers may be lost, bundles arrive late,
\* twice or out of order, and an older one that is ignored adds nothing.
HandedOver ==
  \A bundle \in handled : Holds(bundle) \/ bundle \in overwritten
                          \/ \E n \in DOMAIN offline : offline[n] = bundle

\* "If the backend is unreachable, it writes an offline bundle ... so the context can be
\* imported later": what a hook has dealt with is at the backend, or it is in a file of that
\* conversation, perhaps with what was said since.
ImportedLater ==
  \A bundle \in handled :
    \/ Holds(bundle)
    \/ \E n \in DOMAIN offline :
         /\ offline[n].session = bundle.session
         /\ ToSet(bundle.messages) \subseteq ToSet(offline[n].messages)
=============================================================================
