------------------------------- MODULE Proxy -------------------------------
(***************************************************************************)
(* Completions through a browser that the backend drives: the chat API of  *)
(* clients (openai_proxy) and the backend's own JSON tasks, which share    *)
(* one thread (browser_proxy_client).  A call opens a page in the          *)
(* provider's profile, collects the responses that the page receives,      *)
(* sends its prompt, takes the newest assistant text it has seen once the  *)
(* page is quiet, and files the turns under the page's address.            *)
(***************************************************************************)
EXTENDS Integers, Sequences, FiniteSets, SequencesExt

CONSTANTS
  Calls,         \* calls of clients, or of generate_json
  Talks,         \* conversations that the provider can hold
  Prompts, Replies,  \* what users and the provider say
  Providers,     \* a subset of {"chatgpt", "grok"}: whose parser reads the responses
  MaxNodes,      \* bound on the messages of a conversation at the provider
  Home, None

Pages == Talks \cup {Home}

VARIABLES
  provider,
  talks,     \* what the provider holds: [nodes, current]; <<>> until a call starts it
  lock,      \* the provider's lock in BrowserProxyService: the call in its browser
  taskLock,  \* the lock of the thread for tasks
  kept,      \* the address of that thread in browser-llm-state.json
  call,
  stored,    \* sessions of the backend by the page they are filed under: [turns, at]
  clock      \* captured_at of the last payload
vars == <<provider, talks, lock, taskLock, kept, call, stored, clock>>

-----------------------------------------------------------------------------
(* What a response holds, and what the parser makes of it *)

Turn(role, text) == [role |-> role, text |-> text]

\* A message of a conversation: "shown" is FALSE for the provider's thoughts.
Node(parent, role, text, shown) == [parent |-> parent, role |-> role, text |-> text, shown |-> shown]

\* The messages from the root to n, as indexes: a message comes after its parent.
Branch(nodes, n) ==
  LET path[i \in 0..Len(nodes)] == IF i = 0 THEN {} ELSE path[nodes[i].parent] \cup {i}
  IN path[n]

\* extract_chatgpt_mapping_path: the branch of the current node, and every message when the
\* response names none that it holds; the stream of a reply holds that reply.
MappingPath(nodes, response) ==
  IF response.loaded /\ response.current # 0 THEN Branch(nodes, response.current) ELSE response.messages

\* Faulty: the provider's thoughts are taken for messages.
ParsedThoughts(nodes, response) ==
  IF provider = "chatgpt" THEN MappingPath(nodes, response) ELSE response.messages

\* The messages of a response, as indexes: a loaded conversation holds all of its nodes,
\* and the stream of a reply that reply (its earlier, partial copies have its id, and the
\* last copy stays). ChatGPT's parser drops what the page does not show.
Visible(nodes, messages) == {i \in messages : nodes[i].shown}

ChatGPTMessages(nodes, response) == Visible(nodes, MappingPath(nodes, response))

\* Grok's parser takes every message. Its order, by time, and that of a branch or of a
\* mapping are the order of indexes.
Parsed(nodes, response) ==
  IF provider = "chatgpt" THEN ChatGPTMessages(nodes, response) ELSE response.messages

\* latest_assistant_text: 0 when a response has none.
Latest(nodes, response) ==
  LET texts == {i \in Parsed(nodes, response) : nodes[i].role = "assistant"}
  IN IF texts = {} THEN 0 ELSE Max(texts)

\* A conversation as the page loads it, whose current node may not be named.
Loaded(t, named) == [loaded |-> TRUE, current |-> IF named THEN talks[t].current ELSE 0,
                     messages |-> 1..Len(talks[t].nodes)]
Streamed(n) == [loaded |-> FALSE, current |-> n, messages |-> {n}]

-----------------------------------------------------------------------------
(* What is stored *)

\* The largest overlap of the end of "existing" with the beginning of "incoming".
Overlap(existing, incoming) ==
  LET sizes == {n \in 0..(IF Len(existing) < Len(incoming) THEN Len(existing) ELSE Len(incoming)) :
                  SubSeq(existing, Len(existing) - n + 1, Len(existing)) = SubSeq(incoming, 1, n)}
  IN Max(sizes)

MergeTurns(existing, incoming) ==
  existing \o SubSeq(incoming, Overlap(existing, incoming) + 1, Len(incoming))

Combined(existing, incoming, reply) ==
  LET turns == MergeTurns(existing, incoming)
  IN IF turns # <<>> /\ Last(turns) = reply THEN turns ELSE Append(turns, reply)

-----------------------------------------------------------------------------
NewCall ==
  [stage |-> "new", kind |-> None, messages |-> <<>>, target |-> Home, page |-> Home, talk |-> None, loading |-> {},
   found |-> 0, branch |-> {}, sent |-> 0, thread |-> None, first |-> 0, reply |-> 0, dom |-> FALSE, repaired |-> FALSE,
   store |-> FALSE, turns |-> <<>>, read |-> <<>>, at |-> 0]

Init ==
  /\ provider \in Providers
  /\ talks = [t \in Talks |-> [nodes |-> <<>>, current |-> 0]]
  /\ lock = None /\ taskLock = None /\ kept = Home
  /\ call = [c \in Calls |-> NewCall]
  /\ stored = [p \in Pages |-> [turns |-> <<>>, at |-> 0]]
  /\ clock = 0

ReplyTurn(c) == Turn("assistant", talks[call[c].talk].nodes[call[c].reply].text)

\* What a client may send as the conversation so far: nothing, or any tail of what an
\* answered call of the conversation sent and got.
Histories(page) ==
  {<<>>} \cup UNION {LET turns == Append(call[c].messages, ReplyTurn(c))
                     IN {SubSeq(turns, n, Len(turns)) : n \in 1..Len(turns)} :
                       c \in {d \in Calls : call[d].kind = "chat" /\ call[d].stage = "done" /\ call[d].page = page}}

\* create_chat_completion: the last message must be the user's.
Ask(c, page, history, prompt, store) ==
  /\ call[c].stage = "new"
  /\ call' = [call EXCEPT ![c].stage = "queued", ![c].kind = "chat",
                          ![c].messages = Append(history, Turn("user", prompt)),
                          ![c].target = page, ![c].store = store]
  /\ UNCHANGED <<provider, talks, lock, taskLock, kept, stored, clock>>

\* generate_json, under the lock of the thread.
BeginTask(c, prompt) ==
  /\ call[c].stage = "new"
  /\ taskLock = None
  /\ taskLock' = c
  /\ call' = [call EXCEPT ![c].stage = "queued", ![c].kind = "task", ![c].messages = <<Turn("user", prompt)>>,
                          ![c].target = kept]
  /\ UNCHANGED <<provider, talks, lock, kept, stored, clock>>

\* What complete() starts with: a page and an accumulator of its own. "branch" is history:
\* the messages that the page loads to show, or all if nothing says which.
Fresh(c, named) ==
  LET t == call[c].target
  IN [call[c] EXCEPT !.stage = "open", !.page = t, !.talk = IF t = Home THEN None ELSE t,
                     !.loading = IF t = Home THEN {} ELSE {Loaded(t, named)},
                     !.branch = IF t = Home THEN {}
                                ELSE IF named THEN Branch(talks[t].nodes, talks[t].current)
                                ELSE 1..Len(talks[t].nodes),
                     !.found = 0, !.sent = 0, !.reply = 0, !.dom = FALSE]

Open(c, named) ==
  /\ call[c].stage = "queued" /\ lock = None
  /\ lock' = c
  /\ call' = [call EXCEPT ![c] = Fresh(c, named)]
  /\ UNCHANGED <<provider, talks, taskLock, kept, stored, clock>>

\* What is left of a call: an answered client knows the conversation.
Ended(c, stage) ==
  IF stage = "done" /\ call[c].kind = "chat"
  THEN [NewCall EXCEPT !.stage = stage, !.kind = "chat", !.messages = call[c].messages,
                       !.talk = call[c].talk, !.page = call[c].page, !.reply = call[c].reply]
  ELSE [NewCall EXCEPT !.stage = stage, !.kind = call[c].kind]

\* A call ends with an exception; its locks are released by their contexts.
Fail(c) ==
  /\ call' = [call EXCEPT ![c] = Ended(c, "failed")]
  /\ lock' = IF lock = c THEN None ELSE lock
  /\ taskLock' = IF taskLock = c THEN None ELSE taskLock
  /\ UNCHANGED <<provider, talks, kept, stored, clock>>

\* No browser, no input field, no answer, a failed capture: complete() and ingest raise.
Break(c) == call[c].stage \in {"open", "sent", "read"} /\ Fail(c)

\* A response ends and is recorded; wait_for_reply reads the responses in that order,
\* and the newest that has an assistant's text decides.
Record(c, response) ==
  /\ call[c].stage \in {"open", "sent"}
  /\ response \in call[c].loading
  /\ LET latest == Latest(talks[call[c].talk].nodes, response)
     IN call' = [call EXCEPT ![c].loading = @ \ {response}, ![c].found = IF latest = 0 THEN @ ELSE latest]
  /\ UNCHANGED <<provider, talks, lock, taskLock, kept, stored, clock>>

\* send_prompt: into the page's conversation, or a new one.
Send(c, t) ==
  /\ call[c].stage = "open"
  /\ IF call[c].talk = None THEN talks[t].nodes = <<>> ELSE t = call[c].talk
  /\ Len(talks[t].nodes) < MaxNodes
  /\ LET n == Len(talks[t].nodes) + 1 IN
     /\ talks' = [talks EXCEPT ![t].nodes = Append(@, Node(talks[t].current, "user", Last(call[c].messages).text, TRUE)),
                               ![t].current = n]
     /\ call' = [call EXCEPT ![c].stage = "sent", ![c].talk = t, ![c].sent = n,
                             ![c].thread = IF call[c].repaired THEN @ ELSE t,
                             ![c].first = IF call[c].repaired THEN @ ELSE n]
  /\ UNCHANGED <<provider, lock, taskLock, kept, stored, clock>>

\* The page takes the address of its conversation, some time after the prompt.
Navigate(c) ==
  /\ call[c].stage = "sent" /\ call[c].page = Home
  /\ call' = [call EXCEPT ![c].page = call[c].talk]
  /\ UNCHANGED <<provider, talks, lock, taskLock, kept, stored, clock>>

\* The provider thinks, or answers; a page that waits for the answer receives its stream.
Speak(t, text, shown) ==
  /\ talks[t].nodes # <<>> /\ Len(talks[t].nodes) < MaxNodes
  /\ LET n == Len(talks[t].nodes) + 1
         last == talks[t].current IN
     /\ talks[t].nodes[last].role = "user" \/ ~talks[t].nodes[last].shown
     /\ ~shown => provider = "chatgpt" /\ talks[t].nodes[last].shown
     /\ talks' = [talks EXCEPT ![t].nodes = Append(@, Node(last, "assistant", text, shown)), ![t].current = n]
     /\ call' = [c \in Calls |->
                   IF call[c].stage = "sent" /\ call[c].talk = t
                   THEN [call[c] EXCEPT !.loading = @ \cup {Streamed(n)}] ELSE call[c]]
  /\ UNCHANGED <<provider, lock, taskLock, kept, stored, clock>>

\* The owner goes back to an earlier message in a tab of her own; she does not write.
Switch(t, n) ==
  /\ n \in 1..Len(talks[t].nodes) /\ n # talks[t].current
  /\ talks[t].nodes[n].role = "assistant" /\ talks[t].nodes[n].shown
  /\ \A c \in Calls : call[c].talk = t => call[c].stage \notin {"open", "sent"}
  /\ talks' = [talks EXCEPT ![t].current = n]
  /\ UNCHANGED <<provider, lock, taskLock, kept, call, stored, clock>>

\* complete() returns: the page is closed and its lock released. "dom" is the text that
\* the page shows when the time is over.
Replied(c, n, dom) ==
  /\ call' = [call EXCEPT ![c].stage = "replied", ![c].reply = n, ![c].dom = dom, ![c].loading = {}]
  /\ lock' = None
  /\ UNCHANGED <<provider, talks, taskLock, kept, stored, clock>>

Return(c) == call[c].stage = "sent" /\ call[c].found # 0 /\ Replied(c, call[c].found, FALSE)

GiveUp(c, n) ==
  /\ call[c].stage = "sent"
  /\ LET t == talks[call[c].talk]
     IN n \in Branch(t.nodes, t.current) /\ t.nodes[n].shown
  /\ Replied(c, n, TRUE)

\* A task keeps the address, and asks once more if the reply is no JSON.
Keep(c, parsed) ==
  /\ call[c].kind = "task" /\ call[c].stage = "replied"
  /\ kept' = call[c].page
  /\ IF parsed \/ call[c].repaired
     THEN /\ call' = [call EXCEPT ![c] = Ended(c, IF parsed THEN "done" ELSE "failed")]
          /\ taskLock' = None
     ELSE /\ call' = [call EXCEPT ![c].stage = "queued", ![c].target = call[c].page, ![c].repaired = TRUE]
          /\ UNCHANGED taskLock
  /\ UNCHANGED <<provider, talks, lock, stored, clock>>

\* The API answers without storing, or reads the session of the page and merges.
Merge(c) ==
  /\ call[c].kind = "chat" /\ call[c].stage = "replied"
  /\ IF call[c].store
     THEN /\ clock' = clock + 1
          /\ call' = [call EXCEPT ![c].stage = "read", ![c].at = clock + 1,
                        ![c].read = stored[call[c].page].turns,
                        ![c].turns = Combined(stored[call[c].page].turns, call[c].messages, ReplyTurn(c))]
     ELSE call' = [call EXCEPT ![c] = Ended(c, "done")] /\ UNCHANGED clock
  /\ UNCHANGED <<provider, talks, lock, taskLock, kept, stored>>

\* The full snapshot is ingested, unless a later one was; a failure of the second phase
\* answers all the same.
Store(c) ==
  /\ call[c].stage = "read"
  /\ call' = [call EXCEPT ![c] = Ended(c, "done")]
  /\ IF call[c].at < stored[call[c].page].at THEN UNCHANGED stored
     ELSE stored' = [stored EXCEPT ![call[c].page] = [turns |-> call[c].turns, at |-> call[c].at]]
  /\ UNCHANGED <<provider, talks, lock, taskLock, kept, clock>>

ChatStep(c) ==
  \/ \E page \in Pages, prompt \in Prompts, store \in BOOLEAN :
       /\ page # Home => \E d \in Calls : call[d].kind = "chat" /\ call[d].stage = "done" /\ call[d].page = page
       /\ \E history \in Histories(page) : Ask(c, page, history, prompt, store)
  \/ Merge(c)
  \/ Store(c)

TaskStep(c) ==
  \/ \E prompt \in Prompts : BeginTask(c, prompt)
  \/ \E parsed \in BOOLEAN : Keep(c, parsed)

BrowserStep(c) ==
  \/ \E named \in BOOLEAN : Open(c, named)
  \/ Break(c)
  \/ \E response \in call[c].loading : Record(c, response)
  \/ \E t \in Talks : Send(c, t)
  \/ Navigate(c)
  \/ Return(c)
  \/ \E n \in 1..MaxNodes : GiveUp(c, n)

ProviderStep(t) ==
  \/ \E text \in Replies, shown \in BOOLEAN : Speak(t, text, shown)
  \/ \E n \in 1..MaxNodes : Switch(t, n)

Next ==
  \/ \E c \in Calls : ChatStep(c) \/ TaskStep(c) \/ BrowserStep(c)
  \/ \E t \in Talks : ProviderStep(t)

Spec == Init /\ [][Next]_vars

-----------------------------------------------------------------------------
Stages == {"new", "queued", "open", "sent", "replied", "read", "done", "failed"}

\* Types, and the call in the browser, which the two locks agree on.
TypeOK ==
  /\ provider \in Providers
  /\ \A t \in Talks : talks[t].current \in 0..Len(talks[t].nodes)
  /\ \A c \in Calls :
       /\ call[c].stage \in Stages
       /\ call[c].page \in Pages /\ call[c].target \in Pages /\ call[c].talk \in Talks \cup {None}
       /\ call[c].stage \in {"open", "sent"} <=> lock = c
       /\ call[c].kind = "task" => (call[c].stage \in {"queued", "open", "sent", "replied"} <=> taskLock = c)
  /\ kept \in Pages

\* complete() has returned a text of the page's responses.
Answered(c) == call[c].stage = "replied" /\ ~call[c].dom

\* A call that starts a conversation and finds its answer in the page's responses has the
\* answer to its own prompt, however many calls came before it in the profile.
\* (browser_proxy/service.py: a page and an accumulator for every completion)
OwnAnswer ==
  \A c \in Calls : Answered(c) /\ call[c].target = Home =>
    LET nodes == talks[call[c].talk].nodes IN call[c].sent \in Branch(nodes, call[c].reply)

\* A call that continues a conversation of ChatGPT has a text of the assistant which is no
\* thought: one after its own prompt, or of the branch that its page opened with; of any
\* branch only if the loaded conversation did not name its current message.
\* (browser_proxy/parsers.py: extract_chatgpt_mapping_path)
ShownAnswer ==
  \A c \in Calls : Answered(c) /\ provider = "chatgpt" =>
    LET nodes == talks[call[c].talk].nodes IN
    /\ nodes[call[c].reply].role = "assistant" /\ nodes[call[c].reply].shown
    /\ \/ call[c].reply \in call[c].branch
       \/ call[c].sent \in Branch(nodes, call[c].reply)

\* A task that asks for its reply once more does it in the conversation of that reply, where
\* nobody has asked since; or at the beginning of another, if the page had not yet taken its
\* conversation's address when the reply came.
\* (browser_proxy_client.py: the lock of the thread covers the repair)
RepairsOwn ==
  \A c \in Calls : call[c].repaired /\ call[c].stage = "sent" =>
    LET nodes == talks[call[c].talk].nodes IN
    IF call[c].target = Home THEN call[c].sent = 1
    ELSE /\ call[c].talk = call[c].thread
         /\ \A n \in 1..Len(nodes) :
              nodes[n].role = "user" => n <= call[c].first \/ n = call[c].sent

\* A client that sends any tail of the conversation again adds its new turn and the reply
\* to what is stored, and no turn a second time. (openai_proxy.py: _merge_turns)
TurnsOnce ==
  \A c \in Calls : call[c].stage = "read" /\ IsSuffix(Front(call[c].messages), call[c].read) =>
    call[c].turns = call[c].read \o <<Last(call[c].messages), ReplyTurn(c)>>

\* test_browser_proxy_llm_client.py:81: the second task of the thread has the second reply.
AnswersPrompt ==
  \A c \in Calls : call[c].kind = "task" /\ Answered(c) =>
    call[c].sent \in Branch(talks[call[c].talk].nodes, call[c].reply)
=============================================================================
