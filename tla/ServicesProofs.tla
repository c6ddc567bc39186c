---------------------------- MODULE ServicesProofs ----------------------------
(***************************************************************************)
(* Completions through a browser, the semantic index, the provider's       *)
(* projects, connection grants, saved pages, tasks and the bundles of      *)
(* agents, for any calls, conversations of any length, records, sources,   *)
(* devices, clients and requests, and any bounds.                          *)
(***************************************************************************)
EXTENDS MCServices, Sequences, FiniteSetTheorems, SequenceTheorems, WellFoundedInduction, TLAPS

------------------------------------------------------------------------------
(* Induction over the natural numbers, by their sets.                         *)

LEMMA LeastNat ==
  ASSUME NEW T \in SUBSET Nat, T # {}
  PROVE  \E x \in T : \A y \in T : x <= y
<1> DEFINE R == {ss \in Nat \X Nat : ss[1] < ss[2]}
<1>1. R = OpToRel(<, Nat)
  BY DEF OpToRel
<1>2. IsWellFoundedOn(R, Nat)
  BY NatLessThanWellFounded, <1>1, Zenon
<1> HIDE DEF R
<1>3. PICK x \in T : \A y \in T : ~ (<<y, x>> \in R)
  BY <1>2, WFMin, Zenon
<1>4. ASSUME NEW y \in T PROVE x <= y
  <2>1. ~ (y < x)
    BY <1>3 DEF R
  <2>2. QED
    BY <2>1
<1>5. QED
  BY <1>4

LEMMA NatSetInduction ==
  ASSUME NEW T, 0 \in T, \A n \in Nat : n \in T => n + 1 \in T
  PROVE  \A n \in Nat : n \in T
<1> DEFINE Bad == {n \in Nat : n \notin T}
<1>1. SUFFICES ASSUME Bad # {} PROVE FALSE
  OBVIOUS
<1>2. PICK x \in Bad : \A y \in Bad : x <= y
  BY <1>1, LeastNat
<1>3. x # 0 /\ x - 1 \in Nat /\ x - 1 \notin Bad
  BY <1>2
<1>4. x - 1 \in T
  BY <1>3
<1>5. (x - 1) + 1 \in T
  BY <1>3, <1>4
<1>6. QED
  BY <1>2, <1>5

\* A set of numbers up to n that is not empty has a greatest one.
LEMMA GreatestNat ==
  ASSUME NEW n \in Nat, NEW T \in SUBSET (0..n), T # {}
  PROVE  \E x \in T : \A y \in T : x >= y
<1> DEFINE Far == {n - x : x \in T}
<1>1. Far \in SUBSET Nat /\ Far # {}
  <2>1. \A x \in T : x \in 0..n
    OBVIOUS
  <2>2. \A x \in T : n - x \in Nat
    BY <2>1
  <2>3. QED
    BY <2>2
<1>2. PICK z \in Far : \A y \in Far : z <= y
  BY <1>1, LeastNat
<1>3. PICK x \in T : z = n - x
  OBVIOUS
<1>4. ASSUME NEW y \in T PROVE x >= y
  <2>1. n - y \in Far
    OBVIOUS
  <2>2. z <= n - y
    BY <1>2, <2>1
  <2>3. x \in Nat /\ y \in Nat
    OBVIOUS
  <2>4. QED
    BY <1>3, <2>2, <2>3
<1>5. QED
  BY <1>4

LEMMA SameSeq ==
  ASSUME NEW T, NEW p \in Seq(T), NEW q \in Seq(T), Len(p) = Len(q),
         \A i \in 1..Len(p) : p[i] = q[i]
  PROVE  p = q
OBVIOUS

------------------------------------------------------------------------------
(* Branches of a conversation.                                                *)

Texts == Prompts \cup Replies
NodeSet == [parent : Nat, role : {"user", "assistant"}, text : Texts, shown : BOOLEAN]

\* A message comes after its parent.
Tree(nodes) == nodes \in Seq(NodeSet) /\ \A i \in 1..Len(nodes) : nodes[i].parent < i

LEMMA TreeNode ==
  ASSUME NEW nodes, Tree(nodes), NEW i \in 1..Len(nodes)
  PROVE  nodes[i] \in NodeSet /\ nodes[i].parent \in 0..(i - 1)
<1>1. Len(nodes) \in Nat
  BY DEF Tree
<1>2. nodes[i] \in NodeSet /\ nodes[i].parent < i
  BY DEF Tree
<1>3. nodes[i].parent \in Nat
  BY <1>2 DEF NodeSet
<1>4. QED
  BY <1>1, <1>2, <1>3

\* The recursion, as far as k.
Follows(path, nodes, k) ==
  path = [i \in 0..k |-> IF i = 0 THEN {} ELSE path[nodes[i].parent] \cup {i}]

LEMMA BranchIs ==
  ASSUME NEW nodes, NEW n
  PROVE  Completions!Branch(nodes, n) = (CHOOSE path : Follows(path, nodes, Len(nodes)))[n]
BY DEF Completions!Branch, Follows

LEMMA PathExists ==
  ASSUME NEW nodes, Tree(nodes)
  PROVE  \E path : Follows(path, nodes, Len(nodes))
<1> DEFINE T == {k \in Nat : k <= Len(nodes) => \E path : Follows(path, nodes, k)}
<1>1. 0 \in T
  <2>1. Follows([i \in 0..0 |-> {}], nodes, 0)
    BY DEF Follows
  <2>2. QED
    BY <2>1
<1>2. ASSUME NEW k \in Nat, k \in T PROVE k + 1 \in T
  <2>1. SUFFICES ASSUME k + 1 <= Len(nodes) PROVE \E path : Follows(path, nodes, k + 1)
    OBVIOUS
  <2>2. PICK path : Follows(path, nodes, k)
    BY <1>2, <2>1 DEF Tree
  <2>3. PICK next : next = [i \in 0..(k + 1) |->
                              IF i = k + 1 THEN path[nodes[i].parent] \cup {i} ELSE path[i]]
    OBVIOUS
  <2>4. \A i \in 0..k : path[i] = IF i = 0 THEN {} ELSE path[nodes[i].parent] \cup {i}
    BY <2>2 DEF Follows
  <2>5. \A i \in 1..(k + 1) : nodes[i].parent \in 0..(i - 1)
    <3>1. Len(nodes) \in Nat
      BY DEF Tree
    <3>2. QED
      BY <2>1, <3>1, TreeNode
  <2>6. ASSUME NEW i \in 0..(k + 1)
        PROVE  next[i] = IF i = 0 THEN {} ELSE next[nodes[i].parent] \cup {i}
    <3>1. CASE i = 0
      <4>0. 0 \in 0..k /\ 0 \in 0..(k + 1) /\ 0 # k + 1
        OBVIOUS
      <4>1. next[0] = path[0] /\ path[0] = {}
        BY <2>3, <2>4, <4>0
      <4>2. QED
        BY <3>1, <4>1
    <3>2. CASE i # 0
      <4>1. nodes[i].parent \in 0..k
        BY <2>5, <3>2
      <4>2. next[nodes[i].parent] = path[nodes[i].parent]
        BY <2>3, <4>1
      <4>3. next[i] = path[nodes[i].parent] \cup {i}
        <5>1. CASE i = k + 1
          BY <2>3, <5>1
        <5>2. CASE i # k + 1
          <6>1. i \in 0..k
            BY <5>2
          <6>2. next[i] = path[i]
            BY <2>3, <5>2
          <6>3. QED
            BY <2>4, <3>2, <6>1, <6>2
        <5>3. QED
          BY <5>1, <5>2
      <4>4. QED
        BY <3>2, <4>2, <4>3
    <3>3. QED
      BY <3>1, <3>2
  <2>7. Follows(next, nodes, k + 1)
    BY <2>3, <2>6 DEF Follows
  <2>8. QED
    BY <2>7
<1>3. Len(nodes) \in T
  <2> HIDE DEF T
  <2>1. Len(nodes) \in Nat
    BY DEF Tree
  <2>2. QED
    BY <1>1, <1>2, <2>1, NatSetInduction
<1>4. QED
  BY <1>3 DEF Tree

\* The recursion equation of a branch.
LEMMA BranchStep ==
  ASSUME NEW nodes, Tree(nodes)
  PROVE  /\ Completions!Branch(nodes, 0) = {}
         /\ \A n \in 1..Len(nodes) :
              Completions!Branch(nodes, n) = Completions!Branch(nodes, nodes[n].parent) \cup {n}
<1>1. PICK path : path = CHOOSE p : Follows(p, nodes, Len(nodes))
  OBVIOUS
<1>2. Follows(path, nodes, Len(nodes))
  BY <1>1, PathExists
<1>3. \A n : Completions!Branch(nodes, n) = path[n]
  BY <1>1, BranchIs
<1>4. \A i \in 0..Len(nodes) : path[i] = IF i = 0 THEN {} ELSE path[nodes[i].parent] \cup {i}
  BY <1>2 DEF Follows
<1>5. Len(nodes) \in Nat
  BY DEF Tree
<1>6. path[0] = {}
  <2>1. 0 \in 0..Len(nodes)
    BY <1>5
  <2>2. QED
    BY <1>4, <2>1
<1>7. ASSUME NEW n \in 1..Len(nodes) PROVE path[n] = path[nodes[n].parent] \cup {n}
  <2>1. n \in 0..Len(nodes) /\ n # 0
    BY <1>5
  <2>2. QED
    BY <1>4, <2>1
<1>8. QED
  BY <1>3, <1>6, <1>7

\* A branch holds messages up to its end.
LEMMA BranchBelow ==
  ASSUME NEW nodes, Tree(nodes), NEW n \in 0..Len(nodes)
  PROVE  Completions!Branch(nodes, n) \subseteq 1..n
<1> DEFINE T == {k \in Nat : \A i \in 0..Len(nodes) : i <= k => Completions!Branch(nodes, i) \subseteq 1..i}
<1>0. Len(nodes) \in Nat
  BY DEF Tree
<1>1. 0 \in T
  BY BranchStep, <1>0
<1>2. ASSUME NEW k \in Nat, k \in T PROVE k + 1 \in T
  <2>1. SUFFICES ASSUME NEW i \in 0..Len(nodes), i <= k + 1
                 PROVE  Completions!Branch(nodes, i) \subseteq 1..i
    OBVIOUS
  <2>2. CASE i <= k
    BY <1>2, <2>2
  <2>3. CASE i = k + 1
    <3>1. i \in 1..Len(nodes)
      BY <2>3
    <3>2. nodes[i].parent \in 0..k /\ nodes[i].parent \in 0..Len(nodes)
      BY <1>0, <2>3, <3>1, TreeNode
    <3>3. Completions!Branch(nodes, nodes[i].parent) \subseteq 1..nodes[i].parent
      BY <1>2, <3>2
    <3>4. Completions!Branch(nodes, i) = Completions!Branch(nodes, nodes[i].parent) \cup {i}
      BY <3>1, BranchStep
    <3>5. QED
      BY <2>3, <3>2, <3>3, <3>4
  <2>4. QED
    BY <2>1, <2>2, <2>3, <1>0
<1>3. n \in T
  <2> HIDE DEF T
  <2>1. n \in Nat
    BY <1>0
  <2>2. QED
    BY <1>1, <1>2, <2>1, NatSetInduction
<1>4. QED
  BY <1>3, <1>0

\* Messages added to a conversation leave its branches as they are.
LEMMA BranchStays ==
  ASSUME NEW nodes, Tree(nodes), NEW more, Tree(more), Len(nodes) <= Len(more),
         \A i \in 1..Len(nodes) : more[i] = nodes[i], NEW n \in 0..Len(nodes)
  PROVE  Completions!Branch(more, n) = Completions!Branch(nodes, n)
<1> DEFINE T == {k \in Nat : \A i \in 0..Len(nodes) :
                   i <= k => Completions!Branch(more, i) = Completions!Branch(nodes, i)}
<1>0. Len(nodes) \in Nat /\ Len(more) \in Nat
  BY DEF Tree
<1>1. 0 \in T
  BY BranchStep, <1>0
<1>2. ASSUME NEW k \in Nat, k \in T PROVE k + 1 \in T
  <2>1. SUFFICES ASSUME NEW i \in 0..Len(nodes), i <= k + 1
                 PROVE  Completions!Branch(more, i) = Completions!Branch(nodes, i)
    OBVIOUS
  <2>2. CASE i <= k
    BY <1>2, <2>2
  <2>3. CASE i = k + 1
    <3>1. i \in 1..Len(nodes) /\ i \in 1..Len(more)
      BY <2>3, <1>0
    <3>2. nodes[i].parent \in 0..k /\ nodes[i].parent \in 0..Len(nodes)
      BY <1>0, <2>3, <3>1, TreeNode
    <3>3. Completions!Branch(more, nodes[i].parent) = Completions!Branch(nodes, nodes[i].parent)
      BY <1>2, <3>2
    <3>4. Completions!Branch(nodes, i) = Completions!Branch(nodes, nodes[i].parent) \cup {i}
      BY <3>1, BranchStep
    <3>5. Completions!Branch(more, i) = Completions!Branch(more, more[i].parent) \cup {i}
      BY <3>1, BranchStep
    <3>6. QED
      BY <3>1, <3>3, <3>4, <3>5
  <2>4. QED
    BY <2>1, <2>2, <2>3, <1>0
<1>3. n \in T
  <2> HIDE DEF T
  <2>1. n \in Nat
    BY <1>0
  <2>2. QED
    BY <1>1, <1>2, <2>1, NatSetInduction
<1>4. QED
  BY <1>3, <1>0

------------------------------------------------------------------------------
(* The invariant: s1 is the provider, s2 its conversations, s3 and s4 the     *)
(* locks of the browser and of the tasks, s5 the page of the tasks, s6 the    *)
(* calls, s7 what is stored and s8 the clock.                                 *)

Says == [role : {"user", "assistant"}, text : Texts]
Responses == [loaded : BOOLEAN, current : Nat, messages : SUBSET Nat]

CallSet ==
  [stage : Completions!Stages, kind : {None, "chat", "task"}, messages : Seq(Says),
   target : Completions!Pages, page : Completions!Pages, talk : Talks \cup {None},
   loading : SUBSET Responses, found : Nat, branch : SUBSET Nat, sent : Nat,
   thread : Talks \cup {None}, first : Nat, reply : Nat, dom : BOOLEAN, repaired : BOOLEAN, store : BOOLEAN, turns : Seq(Says),
   read : Seq(Says), at : Nat]

TalkSet == [nodes : Seq(NodeSet), current : Nat]

\* A conversation that has begun has a current message.
TalkHolds(talk) ==
  /\ talk \in TalkSet
  /\ Tree(talk.nodes)
  /\ talk.current \in 0..Len(talk.nodes)
  /\ talk.nodes # <<>> => talk.current # 0

TalksHold(T) == DOMAIN T = Talks /\ \A t \in Talks : TalkHolds(T[t])

\* Conversations only get longer.
Grown(T, U) ==
  \A t \in Talks : /\ Len(T[t].nodes) <= Len(U[t].nodes)
                   /\ \A i \in 1..Len(T[t].nodes) : U[t].nodes[i] = T[t].nodes[i]

Begun(T, t) == t \in Talks => T[t].nodes # <<>>

\* What call r may take for its answer.
Right(nodes, r, n) ==
  /\ n \in 1..Len(nodes)
  /\ s1 = "chatgpt" =>
       /\ nodes[n].role = "assistant" /\ nodes[n].shown
       /\ n \in r.branch \/ r.sent \in Completions!Branch(nodes, n)
  /\ r.target = Home => r.sent \in Completions!Branch(nodes, n)

\* A response that the page of call r receives.
Loads(nodes, r, x) ==
  \/ /\ x.loaded /\ r.target # Home
     /\ x.current \in 0..Len(nodes) /\ x.messages \subseteq 1..Len(nodes)
     /\ Completions!MappingPath(nodes, x) \subseteq r.branch
  \/ /\ ~x.loaded /\ r.stage = "sent"
     /\ \E n \in 1..Len(nodes) : x.messages = {n} /\ r.sent \in Completions!Branch(nodes, n)

Answers(r) == r.stage = "read" \/ (r.stage = "done" /\ r.kind = "chat")
Asks(r) == r.stage \in {"queued", "open", "sent", "replied"} \/ Answers(r)

\* What is stored ends with a reply.
Ends(turns) == turns # <<>> => turns[Len(turns)].role = "assistant"

NewHolds(T, r) ==
  /\ r.stage = "new" => r.talk = None /\ r.target = Home /\ r.page = Home
  /\ r.stage # "new" => r.kind \in {"chat", "task"}
  /\ r.stage = "read" => r.kind = "chat"
  /\ Begun(T, r.talk) /\ Begun(T, r.target) /\ Begun(T, r.page)
  /\ Asks(r) => r.messages # <<>> /\ r.messages[Len(r.messages)].role = "user"
  /\ r.stage \in {"sent", "replied"} \/ Answers(r) => r.talk \in Talks

OpenHolds(r) ==
  r.stage = "open" =>
    /\ r.page = r.target
    /\ r.talk = IF r.target = Home THEN None ELSE r.target
    /\ r.target = Home => r.loading = {} /\ r.found = 0
    /\ r.sent = 0

SentHolds(T, r) ==
  /\ r.stage = "sent" =>
       /\ r.target # Home => r.talk = r.target
       /\ r.sent \in 1..Len(T[r.talk].nodes)
       /\ r.sent \in Completions!Branch(T[r.talk].nodes, T[r.talk].current)
  /\ r.stage \in {"sent", "replied"} => r.page \in {Home, r.talk}

FoundHolds(T, r) ==
  r.stage \in {"open", "sent"} =>
    /\ \A x \in r.loading : Loads(T[r.talk].nodes, r, x)
    /\ r.found # 0 => Right(T[r.talk].nodes, r, r.found)

ReplyHolds(T, r) ==
  /\ r.stage = "replied" \/ Answers(r) => r.reply \in 1..Len(T[r.talk].nodes)
  /\ r.stage = "replied" /\ ~r.dom => Right(T[r.talk].nodes, r, r.reply)

TurnsHold(T, r) ==
  /\ Ends(r.read)
  /\ r.stage = "read" =>
       /\ r.turns # <<>> /\ Ends(r.turns)
       /\ Completions!IsSuffix(Completions!Front(r.messages), r.read) =>
            r.turns = r.read \o <<Completions!Last(r.messages),
                                  Completions!Turn("assistant", T[r.talk].nodes[r.reply].text)>>

CallHolds(T, r) ==
  /\ r \in CallSet
  /\ NewHolds(T, r) /\ OpenHolds(r) /\ SentHolds(T, r)
  /\ FoundHolds(T, r) /\ ReplyHolds(T, r) /\ TurnsHold(T, r)

\* Users have asked up to message n.
AskedUpTo(nodes, n) == \A i \in 1..Len(nodes) : nodes[i].role = "user" => i <= n

\* While a task is under way, nobody else asks in its conversation.
TaskHolds(T, r) ==
  /\ r.repaired => r.kind = "task" /\ r.stage \in {"queued", "open", "sent", "replied"}
  /\ r.kind = "task" /\ ~r.repaired /\ r.stage \in {"sent", "replied"} =>
       r.thread = r.talk /\ AskedUpTo(T[r.talk].nodes, r.first)
  /\ r.repaired /\ r.stage \in {"queued", "open"} /\ r.target \in Talks =>
       r.thread = r.target /\ AskedUpTo(T[r.target].nodes, r.first)
  /\ r.repaired /\ r.stage = "sent" =>
       /\ \A i \in 1..Len(T[r.talk].nodes) :
            T[r.talk].nodes[i].role = "user" => i <= r.first \/ i = r.sent
       /\ IF r.target = Home THEN r.sent = 1 ELSE r.talk = r.thread

\* The conversations that a call knows of.
Knows(r) == {r.talk, r.target, r.page} \cap Talks

\* Those of clients are not those of tasks.
ApartHolds ==
  \A c \in Calls : s6[c].kind = "chat" =>
    /\ s5 \notin Knows(s6[c])
    /\ \A d \in Calls : s6[d].kind = "task" => Knows(s6[c]) \cap Knows(s6[d]) = {}

Tasks(r) == r.kind = "task" /\ r.stage \in {"queued", "open", "sent", "replied"}

LocksHold ==
  \A c \in Calls : /\ s6[c].stage \in {"open", "sent"} <=> s3 = c
                   /\ Tasks(s6[c]) <=> s4 = c

StoredHolds ==
  \A p \in Completions!Pages : s7[p].turns \in Seq(Says) /\ s7[p].at \in Nat /\ Ends(s7[p].turns)

CompletionsInv ==
  /\ s1 \in Providers /\ TalksHold(s2) /\ s5 \in Completions!Pages /\ Begun(s2, s5) /\ s8 \in Nat
  /\ DOMAIN s6 = Calls /\ DOMAIN s7 = Completions!Pages
  /\ StoredHolds
  /\ \A c \in Calls : CallHolds(s2, s6[c]) /\ TaskHolds(s2, s6[c])
  /\ ApartHolds /\ LocksHold

------------------------------------------------------------------------------

LEMMA NewCallHolds ==
  /\ Completions!NewCall \in CallSet
  /\ \A T : CallHolds(T, Completions!NewCall) /\ TaskHolds(T, Completions!NewCall)
<1>1. Completions!NewCall \in CallSet
  BY DEF Completions!NewCall, CallSet, Completions!Stages, Completions!Pages
<1>2. \A T : NewHolds(T, Completions!NewCall) /\ TurnsHold(T, Completions!NewCall)
  BY CompletionsAssumption
  DEF Completions!NewCall, NewHolds, TurnsHold, Begun, Asks, Answers, Ends
<1>3. \A T : TaskHolds(T, Completions!NewCall)
  BY DEF Completions!NewCall, TaskHolds
<1>4. QED
  BY <1>1, <1>2, <1>3
  DEF CallHolds, OpenHolds, SentHolds, FoundHolds, ReplyHolds, Answers, Completions!NewCall

LEMMA CompletionsStart == Completions!Init => CompletionsInv
<1>. SUFFICES ASSUME Completions!Init PROVE CompletionsInv
  OBVIOUS
<1>1. TalksHold(s2)
  <2>1. TalkHolds([nodes |-> <<>>, current |-> 0])
    BY DEF TalkHolds, TalkSet, Tree
  <2>2. QED
    BY <2>1 DEF Completions!Init, TalksHold
<1>2. \A c \in Calls : s6[c] = Completions!NewCall
  BY DEF Completions!Init
<1>3. StoredHolds
  <2>1. \A p \in Completions!Pages : s7[p].turns = <<>> /\ s7[p].at = 0
    BY DEF Completions!Init
  <2>2. <<>> \in Seq(Says) /\ 0 \in Nat /\ Ends(<<>>)
    BY DEF Ends
  <2>3. QED
    BY <2>1, <2>2, Zenon DEF StoredHolds
<1>4. /\ Completions!NewCall.stage = "new" /\ Completions!NewCall.kind = None
  BY DEF Completions!NewCall
<1>5. ApartHolds /\ LocksHold
  BY <1>2, <1>4, CompletionsAssumption DEF Completions!Init, ApartHolds, LocksHold, Tasks
<1>6. QED
  BY <1>1, <1>2, <1>3, <1>5, NewCallHolds, CompletionsAssumption
  DEF Completions!Init, CompletionsInv, Begun, Completions!Pages

\* A call that does nothing is not disturbed by what others add to conversations.
LEMMA CallStays ==
  ASSUME NEW T, NEW U, TalksHold(T), TalksHold(U), Grown(T, U), NEW r, CallHolds(T, r),
         r.stage = "sent" => r.sent \in Completions!Branch(U[r.talk].nodes, U[r.talk].current)
  PROVE  CallHolds(U, r)
<1>1. \A t \in Talks : /\ Tree(T[t].nodes) /\ Tree(U[t].nodes)
                       /\ Len(T[t].nodes) \in Nat /\ Len(U[t].nodes) \in Nat
  BY DEF TalksHold, TalkHolds, Tree
<1>2. \A t \in Talks : /\ Len(T[t].nodes) <= Len(U[t].nodes)
                       /\ \A i \in 1..Len(T[t].nodes) : U[t].nodes[i] = T[t].nodes[i]
  BY DEF Grown
<1>3. \A t \in Talks : \A n \in 0..Len(T[t].nodes) :
        Completions!Branch(U[t].nodes, n) = Completions!Branch(T[t].nodes, n)
  BY <1>1, <1>2, BranchStays
<1>4. \A t : Begun(T, t) => Begun(U, t)
  <2>1. SUFFICES ASSUME NEW t \in Talks, T[t].nodes # <<>>, U[t].nodes = <<>> PROVE FALSE
    BY DEF Begun
  <2>2. T[t].nodes \in Seq(NodeSet)
    BY <1>1 DEF Tree
  <2>3. Len(T[t].nodes) # 0 /\ Len(U[t].nodes) = 0
    BY <2>1, <2>2
  <2>4. QED
    BY <1>1, <1>2, <2>3
<1>5. NewHolds(U, r)
  BY <1>4 DEF CallHolds, NewHolds
<1>6. ASSUME r.talk \in Talks, NEW n, Right(T[r.talk].nodes, r, n) PROVE Right(U[r.talk].nodes, r, n)
  BY <1>1, <1>2, <1>3, <1>6 DEF Right
<1>7. ASSUME r.talk \in Talks, NEW x, Loads(T[r.talk].nodes, r, x) PROVE Loads(U[r.talk].nodes, r, x)
  <2>1. CASE x.loaded /\ r.target # Home
             /\ x.current \in 0..Len(T[r.talk].nodes) /\ x.messages \subseteq 1..Len(T[r.talk].nodes)
             /\ Completions!MappingPath(T[r.talk].nodes, x) \subseteq r.branch
    <3>1. Completions!MappingPath(U[r.talk].nodes, x) = Completions!MappingPath(T[r.talk].nodes, x)
      BY <1>3, <1>7, <2>1 DEF Completions!MappingPath
    <3>2. QED
      BY <1>1, <1>2, <1>7, <2>1, <3>1 DEF Loads
  <2>2. CASE /\ ~x.loaded /\ r.stage = "sent"
             /\ \E n \in 1..Len(T[r.talk].nodes) :
                  x.messages = {n} /\ r.sent \in Completions!Branch(T[r.talk].nodes, n)
    BY <1>1, <1>2, <1>3, <1>7, <2>2 DEF Loads
  <2>3. QED
    BY <1>7, <2>1, <2>2 DEF Loads
<1>8. SentHolds(U, r)
  <2>1. CASE r.stage # "sent"
    BY <2>1 DEF CallHolds, SentHolds
  <2>2. CASE r.stage = "sent"
    <3>1. r.talk \in Talks
      BY <2>2 DEF CallHolds, NewHolds
    <3>2. QED
      BY <1>1, <1>2, <2>2, <3>1 DEF CallHolds, SentHolds
  <2>3. QED
    BY <2>1, <2>2
<1>9. FoundHolds(U, r)
  <2>1. SUFFICES ASSUME r.stage \in {"open", "sent"}
                 PROVE  /\ \A x \in r.loading : Loads(U[r.talk].nodes, r, x)
                        /\ r.found # 0 => Right(U[r.talk].nodes, r, r.found)
    BY DEF FoundHolds
  <2>2. CASE r.talk \in Talks
    BY <1>6, <1>7, <2>1, <2>2 DEF CallHolds, FoundHolds
  <2>3. CASE r.talk \notin Talks
    <3>1. r.stage = "open" /\ r.target = Home
      BY <2>1, <2>3 DEF CallHolds, NewHolds, OpenHolds, CallSet, Completions!Pages
    <3>2. QED
      BY <3>1 DEF CallHolds, OpenHolds
  <2>4. QED
    BY <2>2, <2>3
<1>10. ReplyHolds(U, r)
  <2>1. CASE r.stage = "replied" \/ Answers(r)
    <3>1. r.talk \in Talks
      BY <2>1 DEF CallHolds, NewHolds
    <3>2. QED
      BY <1>1, <1>2, <1>6, <2>1, <3>1 DEF CallHolds, ReplyHolds
  <2>2. CASE ~(r.stage = "replied" \/ Answers(r))
    BY <2>2 DEF ReplyHolds
  <2>3. QED
    BY <2>1, <2>2
<1>11. TurnsHold(U, r)
  <2>1. CASE r.stage = "read"
    <3>1. r.talk \in Talks /\ r.reply \in 1..Len(T[r.talk].nodes)
      BY <2>1 DEF CallHolds, NewHolds, ReplyHolds, Answers
    <3>2. U[r.talk].nodes[r.reply] = T[r.talk].nodes[r.reply]
      BY <1>2, <3>1
    <3>3. QED
      BY <3>2 DEF CallHolds, TurnsHold
  <2>2. CASE r.stage # "read"
    BY <2>2 DEF CallHolds, TurnsHold
  <2>3. QED
    BY <2>1, <2>2
<1>12. QED
  BY <1>5, <1>8, <1>9, <1>10, <1>11 DEF CallHolds

\* A call that changes beside conversations that do not.
LEMMA CallChanges ==
  ASSUME CompletionsInv, NEW c \in Calls, NEW r, CallHolds(s2, r), TaskHolds(s2, r),
         s6' = [s6 EXCEPT ![c] = r], s1' = s1, s2' = s2,
         s5' \in Completions!Pages, Begun(s2, s5'), s8' \in Nat,
         DOMAIN s7' = Completions!Pages, StoredHolds',
         r.kind = "chat" => s5' \notin Knows(r),
         \A d \in Calls \ {c} :
           /\ s6[d].kind = "chat" => s5' \notin Knows(s6[d])
           /\ {r.kind, s6[d].kind} = {"chat", "task"} => Knows(r) \cap Knows(s6[d]) = {}
           /\ s3' = d <=> s3 = d
           /\ s4' = d <=> s4 = d,
         r.stage \in {"open", "sent"} <=> s3' = c,
         Tasks(r) <=> s4' = c
  PROVE  CompletionsInv'
<1>1. DOMAIN s6 = Calls /\ s6'[c] = r /\ \A d \in Calls \ {c} : s6'[d] = s6[d]
  BY DEF CompletionsInv
<1>2. ASSUME NEW d \in Calls PROVE (CallHolds(s2, s6[d]) /\ TaskHolds(s2, s6[d]))'
  <2>1. \A x : CallHolds(s2, x) => CallHolds(s2, x)'
    <3>1. SUFFICES ASSUME NEW x, CallHolds(s2, x) PROVE CallHolds(s2, x)'
      OBVIOUS
    <3>2. \A nodes, n : Right(nodes, x, n) => Right(nodes, x, n)'
      BY DEF Right
    <3>3. FoundHolds(s2, x)' /\ ReplyHolds(s2, x)'
      BY <3>1, <3>2 DEF CallHolds, FoundHolds, ReplyHolds
    <3>4. NewHolds(s2, x)' /\ SentHolds(s2, x)' /\ TurnsHold(s2, x)'
      BY <3>1 DEF CallHolds, NewHolds, SentHolds, TurnsHold, Begun
    <3>5. QED
      BY <3>1, <3>3, <3>4 DEF CallHolds
  <2>2. CallHolds(s2, s6'[d]) /\ TaskHolds(s2, s6'[d])
    BY <1>1 DEF CompletionsInv
  <2>3. QED
    BY <2>1, <2>2 DEF TaskHolds
<1>3. ApartHolds'
  <2>1. SUFFICES ASSUME NEW b \in Calls, s6'[b].kind = "chat"
                 PROVE  /\ s5' \notin Knows(s6'[b])
                        /\ \A d \in Calls : s6'[d].kind = "task" => Knows(s6'[b]) \cap Knows(s6'[d]) = {}
    BY DEF ApartHolds, Knows
  <2>2. s5' \notin Knows(s6'[b])
    BY <1>1, <2>1
  <2>3. ASSUME NEW d \in Calls, s6'[d].kind = "task" PROVE Knows(s6'[b]) \cap Knows(s6'[d]) = {}
    <3>1. CASE b # c /\ d # c
      BY <1>1, <2>1, <2>3, <3>1 DEF CompletionsInv, ApartHolds
    <3>2. CASE b = c \/ d = c
      BY <1>1, <2>1, <2>3, <3>2
    <3>3. QED
      BY <3>1, <3>2
  <2>4. QED
    BY <2>2, <2>3
<1>4. LocksHold'
  <2>1. SUFFICES ASSUME NEW d \in Calls
                 PROVE  /\ s6'[d].stage \in {"open", "sent"} <=> s3' = d
                        /\ Tasks(s6'[d]) <=> s4' = d
    BY DEF LocksHold, Tasks
  <2>2. CASE d = c
    BY <1>1, <2>2
  <2>3. CASE d # c
    BY <1>1, <2>3 DEF CompletionsInv, LocksHold
  <2>4. QED
    BY <2>2, <2>3
<1>5. Begun(s2, s5)' /\ TalksHold(s2)'
  BY DEF CompletionsInv, Begun
<1>6. QED
  BY <1>1, <1>2, <1>3, <1>4, <1>5 DEF CompletionsInv

LEMMA Held ==
  ASSUME CompletionsInv, NEW c \in Calls
  PROVE  /\ CallHolds(s2, s6[c]) /\ TaskHolds(s2, s6[c]) /\ s6[c] \in CallSet
         /\ s6[c].stage \in {"open", "sent"} <=> s3 = c
         /\ Tasks(s6[c]) <=> s4 = c
         /\ \A t \in Talks : TalkHolds(s2[t]) /\ Tree(s2[t].nodes) /\ Len(s2[t].nodes) \in Nat
BY DEF CompletionsInv, CallHolds, LocksHold, TalksHold, TalkHolds, Tree

\* What a call knows of when it is new.
LEMMA Unknown ==
  ASSUME CompletionsInv, NEW c \in Calls, s6[c].stage = "new"
  PROVE  s6[c].talk = None /\ s6[c].target = Home /\ s6[c].page = Home /\ ~s6[c].repaired
BY Held DEF CallHolds, NewHolds, TaskHolds

LEMMA ReplyType ==
  ASSUME CompletionsInv, NEW c \in Calls, s6[c].stage = "replied" \/ Answers(s6[c])
  PROVE  Completions!ReplyTurn(c) \in Says /\ Completions!ReplyTurn(c).role = "assistant"
<1>1. s6[c].talk \in Talks /\ s6[c].reply \in 1..Len(s2[s6[c].talk].nodes)
  BY Held DEF CallHolds, NewHolds, ReplyHolds
<1>2. s2[s6[c].talk].nodes[s6[c].reply] \in NodeSet
  BY <1>1, Held, TreeNode
<1>3. QED
  BY <1>2 DEF Completions!ReplyTurn, Completions!Turn, Says, NodeSet

LEMMA HistoryType ==
  ASSUME CompletionsInv, NEW page, NEW history \in Completions!Histories(page)
  PROVE  history \in Seq(Says)
<1>1. CASE history = <<>>
  BY <1>1
<1>2. CASE history # <<>>
  <2>1. PICK d \in Calls : /\ s6[d].kind = "chat" /\ s6[d].stage = "done"
                           /\ \E n \in 1..Len(Append(s6[d].messages, Completions!ReplyTurn(d))) :
                                history = SubSeq(Append(s6[d].messages, Completions!ReplyTurn(d)), n,
                                                 Len(Append(s6[d].messages, Completions!ReplyTurn(d))))
    BY <1>2 DEF Completions!Histories
  <2>2. Completions!ReplyTurn(d) \in Says
    BY <2>1, ReplyType DEF Answers
  <2>3. PICK turns : turns = Append(s6[d].messages, Completions!ReplyTurn(d))
    OBVIOUS
  <2>4. turns \in Seq(Says)
    BY <2>2, <2>3, Held DEF CallSet
  <2>5. PICK n \in 1..Len(turns) : history = SubSeq(turns, n, Len(turns))
    BY <2>1, <2>3
  <2>6. QED
    BY <2>4, <2>5
<1>3. QED
  BY <1>1, <1>2

LEMMA AskKeeps ==
  ASSUME CompletionsInv, NEW c \in Calls, NEW page \in Completions!Pages, NEW prompt \in Prompts,
         NEW store \in BOOLEAN,
         page # Home => \E d \in Calls : s6[d].kind = "chat" /\ s6[d].stage = "done" /\ s6[d].page = page,
         NEW history \in Completions!Histories(page), Completions!Ask(c, page, history, prompt, store)
  PROVE  CompletionsInv'
<1>1. PICK r : r = [s6[c] EXCEPT !.stage = "queued", !.kind = "chat",
                                 !.messages = Append(history, Completions!Turn("user", prompt)),
                                 !.target = page, !.store = store]
  OBVIOUS
<1>2. /\ s6[c].stage = "new" /\ UNCHANGED <<s1, s2, s3, s4, s5, s7, s8>>
      /\ s6' = [s6 EXCEPT ![c] = r]
  BY <1>1 DEF Completions!Ask
<1>3. PICK turn : turn = Completions!Turn("user", prompt)
  OBVIOUS
<1>4. turn \in Says /\ turn.role = "user"
  BY <1>3 DEF Completions!Turn, Says, Texts
<1>5. PICK messages : messages = Append(history, turn)
  OBVIOUS
<1>6. messages \in Seq(Says) /\ messages # <<>> /\ messages[Len(messages)] = turn
  BY <1>4, <1>5, HistoryType
<1>7. /\ r.stage = "queued" /\ r.kind = "chat" /\ r.messages = messages /\ r.target = page
      /\ r.page = Home /\ r.talk = None /\ r.read = s6[c].read /\ ~r.repaired
  BY <1>1, <1>2, <1>3, <1>5, Held, Unknown DEF CallSet
<1>8. r \in CallSet
  <2>1. PICK q : q = [s6[c] EXCEPT !.stage = "queued", !.kind = "chat", !.messages = messages,
                                   !.target = page]
    OBVIOUS
  <2>2. q \in CallSet
    <3>1. s6[c] \in CallSet
      BY Held
    <3>2. "queued" \in Completions!Stages
      BY DEF Completions!Stages
    <3>3. QED
      BY <1>6, <2>1, <3>1, <3>2 DEF CallSet
  <2>3. r = [q EXCEPT !.store = store]
    BY <1>1, <1>3, <1>5, <2>1, Held DEF CallSet
  <2>4. QED
    BY <2>2, <2>3, Zenon DEF CallSet
<1>9. Begun(s2, page) /\ \A d \in Calls : s6[d].kind = "task" => Knows(r) \cap Knows(s6[d]) = {}
  <2>1. CASE page = Home
    BY <1>7, <2>1, CompletionsAssumption DEF Knows, Begun
  <2>2. CASE page # Home
    <3>1. PICK d \in Calls : s6[d].kind = "chat" /\ s6[d].stage = "done" /\ s6[d].page = page
      BY <2>2
    <3>2. Begun(s2, page)
      BY <3>1, Held DEF CallHolds, NewHolds
    <3>3. Knows(r) \subseteq Knows(s6[d])
      BY <1>7, <3>1, CompletionsAssumption DEF Knows
    <3>4. QED
      BY <3>1, <3>2, <3>3 DEF CompletionsInv, ApartHolds
  <2>3. QED
    BY <2>1, <2>2
<1>10. s5 \notin Knows(r)
  <2>1. CASE page = Home
    BY <1>7, <2>1, CompletionsAssumption DEF Knows
  <2>2. CASE page # Home
    <3>1. PICK d \in Calls : s6[d].kind = "chat" /\ s6[d].stage = "done" /\ s6[d].page = page
      BY <2>2
    <3>2. Knows(r) \subseteq Knows(s6[d])
      BY <1>7, <3>1, CompletionsAssumption DEF Knows
    <3>3. QED
      BY <3>1, <3>2 DEF CompletionsInv, ApartHolds
  <2>3. QED
    BY <2>1, <2>2
<1>11. CallHolds(s2, r)
  <2>1. NewHolds(s2, r)
    BY <1>4, <1>6, <1>7, <1>9, CompletionsAssumption DEF NewHolds, Answers, Begun
  <2>2. TurnsHold(s2, r)
    BY <1>7, Held DEF CallHolds, TurnsHold
  <2>3. QED
    BY <1>7, <1>8, <2>1, <2>2 DEF CallHolds, OpenHolds, SentHolds, FoundHolds, ReplyHolds, Answers
<1>12. TaskHolds(s2, r)
  BY <1>7 DEF TaskHolds
<1>13. ~Tasks(r) /\ s3 # c /\ s4 # c
  BY <1>2, <1>7, Held DEF Tasks
<1>14. /\ s5' \in Completions!Pages /\ Begun(s2, s5') /\ s8' \in Nat
       /\ DOMAIN s7' = Completions!Pages /\ StoredHolds'
  BY <1>2 DEF CompletionsInv, StoredHolds
<1>15. \A d \in Calls : s6[d].kind = "chat" => s5' \notin Knows(s6[d])
  BY <1>2 DEF CompletionsInv, ApartHolds
<1>16. QED
  BY <1>2, <1>7, <1>9, <1>10, <1>11, <1>12, <1>13, <1>14, <1>15, CallChanges

LEMMA BeginKeeps ==
  ASSUME CompletionsInv, NEW c \in Calls, NEW prompt \in Prompts, Completions!BeginTask(c, prompt)
  PROVE  CompletionsInv'
<1>1. PICK turn : turn = Completions!Turn("user", prompt)
  OBVIOUS
<1>2. PICK r : r = [s6[c] EXCEPT !.stage = "queued", !.kind = "task", !.messages = <<turn>>, !.target = s5]
  OBVIOUS
<1>3. /\ s6[c].stage = "new" /\ s4 = None /\ s4' = c /\ UNCHANGED <<s1, s2, s3, s5, s7, s8>>
      /\ s6' = [s6 EXCEPT ![c] = r]
  BY <1>1, <1>2 DEF Completions!BeginTask
<1>4. turn \in Says /\ turn.role = "user"
  BY <1>1 DEF Completions!Turn, Says, Texts
<1>5. /\ r.stage = "queued" /\ r.kind = "task" /\ r.messages = <<turn>> /\ r.target = s5
      /\ r.page = Home /\ r.talk = None /\ r.read = s6[c].read /\ ~r.repaired
  BY <1>2, <1>3, Held, Unknown DEF CallSet
<1>6. r \in CallSet
  <2>1. <<turn>> \in Seq(Says) /\ s5 \in Completions!Pages
    BY <1>4 DEF CompletionsInv
  <2>2. s6[c] \in CallSet
    BY Held
  <2>3. "queued" \in Completions!Stages
    BY DEF Completions!Stages
  <2>4. QED
    BY <1>2, <2>1, <2>2, <2>3 DEF CallSet
<1>7. CallHolds(s2, r)
  <2>1. NewHolds(s2, r)
    BY <1>4, <1>5, CompletionsAssumption DEF NewHolds, Answers, Begun, CompletionsInv
  <2>2. TurnsHold(s2, r)
    BY <1>5, Held DEF CallHolds, TurnsHold
  <2>3. QED
    BY <1>5, <1>6, <2>1, <2>2 DEF CallHolds, OpenHolds, SentHolds, FoundHolds, ReplyHolds, Answers
<1>8. TaskHolds(s2, r)
  BY <1>5 DEF TaskHolds
<1>9. Tasks(r) /\ s3 # c
  BY <1>3, <1>5, Held DEF Tasks
<1>10. /\ s5' \in Completions!Pages /\ Begun(s2, s5') /\ s8' \in Nat
       /\ DOMAIN s7' = Completions!Pages /\ StoredHolds'
  BY <1>3 DEF CompletionsInv, StoredHolds
<1>11. \A d \in Calls : s6[d].kind = "chat" => s5' \notin Knows(s6[d]) /\ Knows(r) \cap Knows(s6[d]) = {}
  <2>1. Knows(r) \subseteq {s5}
    BY <1>5, CompletionsAssumption DEF Knows
  <2>2. QED
    BY <1>3, <2>1 DEF CompletionsInv, ApartHolds
<1>12. \A d \in Calls : s4 # d
  BY <1>3, CompletionsAssumption
<1>13. QED
  BY <1>3, <1>5, <1>7, <1>8, <1>9, <1>10, <1>11, <1>12, CallChanges

\* A call that goes on in the conversations it knows of.
LEMMA CallMoves ==
  ASSUME CompletionsInv, NEW c \in Calls, NEW r, CallHolds(s2, r), TaskHolds(s2, r),
         s6' = [s6 EXCEPT ![c] = r], UNCHANGED <<s1, s2, s5>>,
         s8' \in Nat, DOMAIN s7' = Completions!Pages, StoredHolds',
         r.kind = s6[c].kind, Knows(r) \subseteq Knows(s6[c]),
         \A d \in Calls \ {c} : (s3' = d <=> s3 = d) /\ (s4' = d <=> s4 = d),
         r.stage \in {"open", "sent"} <=> s3' = c,
         Tasks(r) <=> s4' = c
  PROVE  CompletionsInv'
<1>1. s5' \in Completions!Pages /\ Begun(s2, s5')
  BY DEF CompletionsInv
<1>2. \A d \in Calls : s6[d].kind = "chat" => s5' \notin Knows(s6[d])
  BY DEF CompletionsInv, ApartHolds
<1>3. r.kind = "chat" => s5' \notin Knows(r)
  BY <1>2
<1>4. ASSUME NEW d \in Calls \ {c}, {r.kind, s6[d].kind} = {"chat", "task"}
      PROVE  Knows(r) \cap Knows(s6[d]) = {}
  <2>1. (s6[c].kind = "chat" /\ s6[d].kind = "task") \/ (s6[c].kind = "task" /\ s6[d].kind = "chat")
    BY <1>4
  <2>2. Knows(s6[c]) \cap Knows(s6[d]) = {}
    BY <2>1 DEF CompletionsInv, ApartHolds
  <2>3. QED
    BY <2>2
<1>5. QED
  BY <1>1, <1>2, <1>3, <1>4, CallChanges

LEMMA Unmoved ==
  ASSUME CompletionsInv, UNCHANGED <<s7, s8>>
  PROVE  s8' \in Nat /\ DOMAIN s7' = Completions!Pages /\ StoredHolds'
BY DEF CompletionsInv, StoredHolds

LEMMA OpenKeeps ==
  ASSUME CompletionsInv, NEW c \in Calls, NEW named \in BOOLEAN, Completions!Open(c, named)
  PROVE  CompletionsInv'
<1>1. PICK t : t = s6[c].target
  OBVIOUS
<1>2. PICK loading : loading = IF t = Home THEN {} ELSE {Completions!Loaded(t, named)}
  OBVIOUS
<1>3. PICK branch : branch = IF t = Home THEN {}
                            ELSE IF named THEN Completions!Branch(s2[t].nodes, s2[t].current)
                            ELSE 1..Len(s2[t].nodes)
  OBVIOUS
<1>4. PICK r : r = [s6[c] EXCEPT !.stage = "open", !.page = t, !.talk = IF t = Home THEN None ELSE t,
                                 !.loading = loading, !.branch = branch,
                                 !.found = 0, !.sent = 0, !.reply = 0, !.dom = FALSE]
  OBVIOUS
<1>5. /\ s6[c].stage = "queued" /\ s3 = None /\ s3' = c /\ s6' = [s6 EXCEPT ![c] = r]
      /\ UNCHANGED <<s1, s2, s4, s5, s7, s8>>
  BY <1>1, <1>2, <1>3, <1>4 DEF Completions!Open, Completions!Fresh
<1>6. s6[c] \in CallSet /\ CallHolds(s2, s6[c]) /\ TaskHolds(s2, s6[c])
  BY Held
<1>7. t \in Completions!Pages /\ (t # Home => t \in Talks)
  BY <1>1, <1>6 DEF CallSet, Completions!Pages
<1>8. /\ branch \in SUBSET Nat /\ loading \in SUBSET Responses
      /\ t # Home => \A x \in loading : /\ x.loaded /\ x.current \in 0..Len(s2[t].nodes)
                                        /\ x.messages \subseteq 1..Len(s2[t].nodes)
                                        /\ Completions!MappingPath(s2[t].nodes, x) \subseteq branch
  <2>1. CASE t = Home
    BY <1>2, <1>3, <2>1
  <2>2. CASE t # Home
    <3>1. /\ Tree(s2[t].nodes) /\ Len(s2[t].nodes) \in Nat /\ s2[t].current \in 0..Len(s2[t].nodes)
      BY <1>7, <2>2, Held DEF TalkHolds
    <3>2. Completions!Branch(s2[t].nodes, s2[t].current) \subseteq 1..s2[t].current
      BY <3>1, BranchBelow
    <3>3. PICK x : x = Completions!Loaded(t, named)
      OBVIOUS
    <3>4. PICK current : current = IF named THEN s2[t].current ELSE 0
      OBVIOUS
    <3>5. x = [loaded |-> TRUE, current |-> current, messages |-> 1..Len(s2[t].nodes)]
      BY <3>3, <3>4 DEF Completions!Loaded
    <3>6. current \in 0..Len(s2[t].nodes)
      BY <3>1, <3>4
    <3>7. x \in Responses
      BY <3>1, <3>5, <3>6 DEF Responses
    <3>8. s2[t].current # 0
      <4>1. Begun(s2, t)
        BY <1>1, <1>6 DEF CallHolds, NewHolds
      <4>2. QED
        BY <1>7, <2>2, <4>1, Held DEF Begun, TalkHolds
    <3>9. Completions!MappingPath(s2[t].nodes, x) = branch
      <4>1. CASE named
        BY <1>3, <2>2, <3>4, <3>5, <3>8, <4>1 DEF Completions!MappingPath
      <4>2. CASE ~named
        BY <1>3, <2>2, <3>4, <3>5, <4>2 DEF Completions!MappingPath
      <4>3. QED
        BY <4>1, <4>2
    <3>10. branch \in SUBSET Nat
      <4>1. CASE named
        BY <1>3, <2>2, <3>1, <3>2, <4>1
      <4>2. CASE ~named
        BY <1>3, <2>2, <3>1, <4>2
      <4>3. QED
        BY <4>1, <4>2
    <3>11. loading = {x}
      BY <1>2, <2>2, <3>3
    <3>12. x.loaded /\ x.current = current /\ x.messages = 1..Len(s2[t].nodes)
      BY <3>5
    <3>13. QED
      BY <3>6, <3>7, <3>9, <3>10, <3>11, <3>12
  <2>3. QED
    BY <2>1, <2>2
<1>9. /\ r.stage = "open" /\ r.page = t /\ r.target = t /\ r.talk = (IF t = Home THEN None ELSE t)
      /\ r.loading = loading /\ r.branch = branch /\ r.found = 0 /\ r.sent = 0
  BY <1>1, <1>4, <1>6 DEF CallSet
<1>10. /\ r.kind = s6[c].kind /\ r.messages = s6[c].messages /\ r.read = s6[c].read
       /\ r.repaired = s6[c].repaired /\ r.first = s6[c].first /\ r.thread = s6[c].thread
  BY <1>4, <1>6 DEF CallSet
<1>11. r \in CallSet
  <2>1. "open" \in Completions!Stages /\ (IF t = Home THEN None ELSE t) \in Talks \cup {None}
        /\ 0 \in Nat /\ FALSE \in BOOLEAN
    BY <1>7 DEF Completions!Stages
  <2>2. QED
    BY <1>4, <1>6, <1>7, <1>8, <2>1 DEF CallSet
<1>12. CallHolds(s2, r)
  <2>1. NewHolds(s2, r)
    BY <1>1, <1>5, <1>6, <1>9, <1>10, CompletionsAssumption
    DEF CallHolds, NewHolds, Asks, Answers, Begun
  <2>2. OpenHolds(r) /\ SentHolds(s2, r) /\ ReplyHolds(s2, r) /\ TurnsHold(s2, r)
    BY <1>2, <1>6, <1>9, <1>10
    DEF CallHolds, OpenHolds, SentHolds, ReplyHolds, Answers, TurnsHold
  <2>3. FoundHolds(s2, r)
    BY <1>2, <1>8, <1>9 DEF FoundHolds, Loads
  <2>4. QED
    BY <1>11, <2>1, <2>2, <2>3 DEF CallHolds
<1>13. TaskHolds(s2, r)
  BY <1>1, <1>5, <1>6, <1>9, <1>10 DEF TaskHolds
<1>14. Knows(r) \subseteq Knows(s6[c])
  BY <1>1, <1>9, CompletionsAssumption DEF Knows
<1>15. Tasks(r) <=> s4' = c
  BY <1>5, <1>9, <1>10, Held DEF Tasks
<1>16. \A d \in Calls : s3 # d
  BY <1>5, CompletionsAssumption
<1>17. QED
  BY <1>5, <1>9, <1>10, <1>12, <1>13, <1>14, <1>15, <1>16, Unmoved, CallMoves

\* A call that is over, without an answer.
LEMMA EndsNew ==
  ASSUME NEW T, NEW stage \in {"done", "failed"}, NEW whose \in {"chat", "task"}, NEW r,
         r = [Completions!NewCall EXCEPT !.stage = stage, !.kind = whose],
         stage = "done" => whose = "task"
  PROVE  /\ CallHolds(T, r) /\ TaskHolds(T, r) /\ Knows(r) = {}
         /\ r.kind = whose /\ r.stage = stage /\ ~Tasks(r)
<1>1. PICK q : q = Completions!NewCall
  OBVIOUS
<1>2. q \in CallSet /\ CallHolds(T, q) /\ ~q.repaired /\ q.talk = None /\ q.target = Home /\ q.page = Home
  BY <1>1, NewCallHolds DEF Completions!NewCall
<1>3. stage \in Completions!Stages /\ whose \in {None, "chat", "task"}
  BY DEF Completions!Stages
<1>4. r \in CallSet
  BY <1>1, <1>2, <1>3 DEF CallSet
<1>5. /\ r.stage = stage /\ r.kind = whose /\ ~r.repaired /\ r.talk = None /\ r.target = Home
      /\ r.page = Home /\ r.read = q.read
  BY <1>1, <1>2 DEF CallSet
<1>6. NewHolds(T, r) /\ TurnsHold(T, r)
  BY <1>2, <1>5, CompletionsAssumption
  DEF CallHolds, NewHolds, TurnsHold, Asks, Answers, Begun
<1>7. CallHolds(T, r)
  BY <1>4, <1>5, <1>6 DEF CallHolds, OpenHolds, SentHolds, FoundHolds, ReplyHolds, Answers
<1>8. QED
  BY <1>5, <1>7, CompletionsAssumption DEF TaskHolds, Knows, Tasks

LEMMA FailKeeps ==
  ASSUME CompletionsInv, NEW c \in Calls, Completions!Break(c)
  PROVE  CompletionsInv'
<1>1. s6[c].kind \in {"chat", "task"}
  BY Held DEF Completions!Break, CallHolds, NewHolds
<1>2. PICK r : r = [Completions!NewCall EXCEPT !.stage = "failed", !.kind = s6[c].kind]
  OBVIOUS
<1>3. /\ s6' = [s6 EXCEPT ![c] = r] /\ UNCHANGED <<s1, s2, s5, s7, s8>>
      /\ s3' = (IF s3 = c THEN None ELSE s3) /\ s4' = (IF s4 = c THEN None ELSE s4)
  BY <1>2 DEF Completions!Break, Completions!Fail, Completions!Ended
<1>4. /\ CallHolds(s2, r) /\ TaskHolds(s2, r) /\ Knows(r) = {}
      /\ r.kind = s6[c].kind /\ r.stage = "failed" /\ ~Tasks(r)
  BY <1>1, <1>2, EndsNew
<1>5. \A d \in Calls : d # None
  BY CompletionsAssumption
<1>6. QED
  BY <1>3, <1>4, <1>5, Unmoved, CallMoves

\* The greatest of the texts is one of them.
LEMMA LatestIs ==
  ASSUME NEW nodes, Tree(nodes), NEW x, x.messages \subseteq 1..Len(nodes),
         x.loaded => x.current \in 0..Len(nodes), Completions!Latest(nodes, x) # 0
  PROVE  LET n == Completions!Latest(nodes, x) IN
         /\ n \in 1..Len(nodes) /\ nodes[n].role = "assistant"
         /\ s1 = "chatgpt" => nodes[n].shown
         /\ s1 = "chatgpt" /\ x.loaded => n \in Completions!MappingPath(nodes, x)
         /\ ~x.loaded => n \in x.messages
<1>1. PICK texts : texts = {i \in Completions!Parsed(nodes, x) : nodes[i].role = "assistant"}
  OBVIOUS
<1>2. PICK n : n = Completions!Latest(nodes, x)
  OBVIOUS
<1>3. texts # {} /\ n = CHOOSE i \in texts : \A j \in texts : i >= j
  BY <1>1, <1>2 DEF Completions!Latest, Completions!Max
<1>4. Len(nodes) \in Nat
  BY DEF Tree
<1>5. texts \subseteq 1..Len(nodes)
  <2>1. x.loaded => Completions!Branch(nodes, x.current) \subseteq 1..Len(nodes)
    <3>1. SUFFICES ASSUME x.loaded PROVE Completions!Branch(nodes, x.current) \subseteq 1..Len(nodes)
      OBVIOUS
    <3>2. Completions!Branch(nodes, x.current) \subseteq 1..x.current
      BY <3>1, BranchBelow
    <3>3. QED
      BY <1>4, <3>1, <3>2
  <2>2. Completions!MappingPath(nodes, x) \subseteq 1..Len(nodes)
    BY <2>1 DEF Completions!MappingPath
  <2>3. QED
    BY <1>1, <2>2 DEF Completions!Parsed, Completions!ChatGPTMessages, Completions!Visible
<1>6. n \in texts
  <2>1. texts \in SUBSET (0..Len(nodes))
    BY <1>4, <1>5
  <2>2. \E i \in texts : \A j \in texts : i >= j
    BY <1>3, <1>4, <2>1, GreatestNat
  <2>3. QED
    BY <1>3, <2>2
<1>7. ~x.loaded => Completions!MappingPath(nodes, x) = x.messages
  BY DEF Completions!MappingPath
<1>8. QED
  BY <1>1, <1>2, <1>5, <1>6, <1>7
  DEF Completions!Parsed, Completions!ChatGPTMessages, Completions!Visible

LEMMA RecordKeeps ==
  ASSUME CompletionsInv, NEW c \in Calls, NEW x \in s6[c].loading, Completions!Record(c, x)
  PROVE  CompletionsInv'
<1>1. PICK nodes : nodes = s2[s6[c].talk].nodes
  OBVIOUS
<1>2. PICK latest : latest = Completions!Latest(nodes, x)
  OBVIOUS
<1>3. PICK r : r = [s6[c] EXCEPT !.loading = @ \ {x}, !.found = IF latest = 0 THEN @ ELSE latest]
  OBVIOUS
<1>4. /\ s6[c].stage \in {"open", "sent"} /\ s6' = [s6 EXCEPT ![c] = r]
      /\ UNCHANGED <<s1, s2, s3, s4, s5, s7, s8>>
  BY <1>1, <1>2, <1>3 DEF Completions!Record
<1>5. s6[c] \in CallSet /\ CallHolds(s2, s6[c]) /\ TaskHolds(s2, s6[c])
  BY Held
<1>6. s6[c].talk \in Talks
  <2>1. s6[c].stage = "open" => s6[c].target # Home
    BY <1>5 DEF CallHolds, OpenHolds
  <2>2. QED
    BY <1>4, <1>5, <2>1 DEF CallHolds, NewHolds, OpenHolds, CallSet, Completions!Pages
<1>7. Tree(nodes) /\ Len(nodes) \in Nat
  BY <1>1, <1>6, Held
<1>8. Loads(nodes, s6[c], x)
  BY <1>1, <1>4, <1>5 DEF CallHolds, FoundHolds
<1>9. latest # 0 => Right(nodes, s6[c], latest)
  <2>1. SUFFICES ASSUME latest # 0 PROVE Right(nodes, s6[c], latest)
    OBVIOUS
  <2>2. /\ x.messages \subseteq 1..Len(nodes)
        /\ x.loaded => /\ s6[c].target # Home /\ x.current \in 0..Len(nodes)
                       /\ Completions!MappingPath(nodes, x) \subseteq s6[c].branch
    BY <1>7, <1>8 DEF Loads
  <2>3. /\ latest \in 1..Len(nodes) /\ nodes[latest].role = "assistant"
        /\ s1 = "chatgpt" => nodes[latest].shown
        /\ s1 = "chatgpt" /\ x.loaded => latest \in Completions!MappingPath(nodes, x)
        /\ ~x.loaded => latest \in x.messages
    BY <1>2, <1>7, <2>1, <2>2, LatestIs
  <2>4. CASE x.loaded
    BY <2>2, <2>3, <2>4 DEF Right
  <2>5. CASE ~x.loaded
    <3>1. s6[c].sent \in Completions!Branch(nodes, latest)
      BY <1>8, <2>3, <2>5 DEF Loads
    <3>2. QED
      BY <2>3, <3>1 DEF Right
  <2>6. QED
    BY <2>4, <2>5
<1>10. /\ r.stage = s6[c].stage /\ r.kind = s6[c].kind /\ r.messages = s6[c].messages
       /\ r.target = s6[c].target /\ r.page = s6[c].page /\ r.talk = s6[c].talk
       /\ r.loading = s6[c].loading \ {x} /\ r.found = (IF latest = 0 THEN s6[c].found ELSE latest)
       /\ r.branch = s6[c].branch /\ r.sent = s6[c].sent /\ r.first = s6[c].first
       /\ r.thread = s6[c].thread
       /\ r.repaired = s6[c].repaired /\ r.read = s6[c].read
  BY <1>3, <1>5 DEF CallSet
<1>11. latest \in Nat
  BY <1>7, <1>9 DEF Right
<1>12. r \in CallSet
  BY <1>3, <1>5, <1>11 DEF CallSet
<1>13. \A n : Right(nodes, s6[c], n) => Right(nodes, r, n)
  BY <1>10 DEF Right
<1>14. \A y : Loads(nodes, s6[c], y) => Loads(nodes, r, y)
  BY <1>10 DEF Loads
<1>15. CallHolds(s2, r)
  <2>1. NewHolds(s2, r) /\ SentHolds(s2, r) /\ ReplyHolds(s2, r) /\ TurnsHold(s2, r)
    BY <1>4, <1>5, <1>10
    DEF CallHolds, NewHolds, SentHolds, ReplyHolds, Answers, Asks, TurnsHold, Begun
  <2>2. OpenHolds(r)
    BY <1>4, <1>5, <1>10 DEF CallHolds, OpenHolds
  <2>3. FoundHolds(s2, r)
    BY <1>1, <1>4, <1>5, <1>9, <1>10, <1>13, <1>14 DEF CallHolds, FoundHolds
  <2>4. QED
    BY <1>12, <2>1, <2>2, <2>3 DEF CallHolds
<1>16. TaskHolds(s2, r) /\ Knows(r) = Knows(s6[c]) /\ (Tasks(r) <=> Tasks(s6[c]))
  BY <1>5, <1>10 DEF TaskHolds, Knows, Tasks
<1>17. /\ r.stage \in {"open", "sent"} <=> s3' = c
       /\ Tasks(r) <=> s4' = c
  BY <1>4, <1>10, <1>16, Held
<1>18. QED
  BY <1>4, <1>10, <1>15, <1>16, <1>17, Unmoved, CallMoves

------------------------------------------------------------------------------
(* What is stored of a completion.                                            *)

LEMMA OverlapIs ==
  ASSUME NEW a \in Seq(Says), NEW b \in Seq(Says)
  PROVE  LET n == Completions!Overlap(a, b) IN
         /\ n \in 0..Len(a) /\ n <= Len(b)
         /\ SubSeq(a, Len(a) - n + 1, Len(a)) = SubSeq(b, 1, n)
         /\ \A m \in 0..Len(a) :
              m <= Len(b) /\ SubSeq(a, Len(a) - m + 1, Len(a)) = SubSeq(b, 1, m) => m <= n
<1>1. PICK bound : bound = IF Len(a) < Len(b) THEN Len(a) ELSE Len(b)
  OBVIOUS
<1>2. PICK sizes : sizes = {n \in 0..bound : SubSeq(a, Len(a) - n + 1, Len(a)) = SubSeq(b, 1, n)}
  OBVIOUS
<1>3. PICK n : n = CHOOSE x \in sizes : \A y \in sizes : x >= y
  OBVIOUS
<1>4. n = Completions!Overlap(a, b)
  BY <1>1, <1>2, <1>3 DEF Completions!Overlap, Completions!Max
<1>5. Len(a) \in Nat /\ Len(b) \in Nat /\ bound \in Nat /\ bound <= Len(a) /\ bound <= Len(b)
  BY <1>1
<1>6. 0 \in sizes
  <2>1. SubSeq(a, Len(a) - 0 + 1, Len(a)) = <<>> /\ SubSeq(b, 1, 0) = <<>>
    BY <1>5
  <2>2. QED
    BY <1>2, <1>5, <2>1
<1>7. sizes \in SUBSET (0..bound) /\ sizes # {}
  BY <1>2, <1>6
<1>8. n \in sizes /\ \A y \in sizes : n >= y
  <2>1. \E x \in sizes : \A y \in sizes : x >= y
    BY <1>5, <1>7, GreatestNat
  <2>2. QED
    BY <1>3, <2>1
<1>9. n \in 0..Len(a) /\ n <= Len(b) /\ SubSeq(a, Len(a) - n + 1, Len(a)) = SubSeq(b, 1, n)
  BY <1>2, <1>5, <1>8
<1>10. ASSUME NEW m \in 0..Len(a), m <= Len(b), SubSeq(a, Len(a) - m + 1, Len(a)) = SubSeq(b, 1, m)
       PROVE  m <= n
  <2>1. m \in sizes
    BY <1>1, <1>2, <1>5, <1>10
  <2>2. QED
    BY <1>8, <1>9, <2>1
<1>11. QED
  BY <1>4, <1>9, <1>10

LEMMA CombinedHolds ==
  ASSUME NEW a \in Seq(Says), Ends(a), NEW b \in Seq(Says), b # <<>>, b[Len(b)].role = "user",
         NEW reply \in Says, reply.role = "assistant"
  PROVE  LET turns == Completions!Combined(a, b, reply) IN
         /\ turns \in Seq(Says) /\ turns # <<>> /\ Ends(turns)
         /\ Completions!IsSuffix(Completions!Front(b), a) => turns = a \o <<Completions!Last(b), reply>>
<1>1. PICK n : n = Completions!Overlap(a, b)
  OBVIOUS
<1>2. PICK merged : merged = a \o SubSeq(b, n + 1, Len(b))
  OBVIOUS
<1>3. merged = Completions!MergeTurns(a, b)
  BY <1>1, <1>2 DEF Completions!MergeTurns
<1>4. PICK turns : turns = Completions!Combined(a, b, reply)
  OBVIOUS
<1>5. turns = IF merged # <<>> /\ merged[Len(merged)] = reply THEN merged ELSE Append(merged, reply)
  BY <1>3, <1>4 DEF Completions!Combined, Completions!Last
<1>6. /\ n \in 0..Len(a) /\ n <= Len(b)
      /\ SubSeq(a, Len(a) - n + 1, Len(a)) = SubSeq(b, 1, n)
      /\ \A m \in 0..Len(a) :
              m <= Len(b) /\ SubSeq(a, Len(a) - m + 1, Len(a)) = SubSeq(b, 1, m) => m <= n
  BY <1>1, OverlapIs
<1>7. Len(a) \in Nat /\ Len(b) \in Nat /\ Len(b) # 0
  OBVIOUS
<1>8. merged \in Seq(Says)
  <2>1. SubSeq(b, n + 1, Len(b)) \in Seq(Says)
    BY <1>6, <1>7
  <2>2. QED
    BY <1>2, <2>1
<1>9. turns \in Seq(Says) /\ turns # <<>> /\ turns[Len(turns)] = reply
  BY <1>5, <1>8
<1>10. ASSUME Completions!IsSuffix(Completions!Front(b), a)
       PROVE  turns = a \o <<Completions!Last(b), reply>>
  <2>1. PICK h : h = Len(b) - 1
    OBVIOUS
  <2>2. h \in Nat
    BY <1>7, <2>1
  <2>3. PICK front : front = Completions!Front(b)
    OBVIOUS
  <2>4. front = SubSeq(b, 1, h) /\ Len(front) = h /\ front \in Seq(Says)
    BY <1>7, <2>1, <2>2, <2>3 DEF Completions!Front
  <2>5. /\ Len(Completions!Reverse(front)) = h /\ Len(Completions!Reverse(a)) = Len(a)
        /\ \A i \in 1..h : Completions!Reverse(front)[i] = front[h - i + 1]
        /\ \A i \in 1..Len(a) : Completions!Reverse(a)[i] = a[Len(a) - i + 1]
        /\ Completions!Reverse(front) \in Seq(Says) /\ Completions!Reverse(a) \in Seq(Says)
    BY <1>7, <2>2, <2>4 DEF Completions!Reverse
  <2>6. /\ h <= Len(a)
        /\ SubSeq(Completions!Reverse(front), 1, h) = SubSeq(Completions!Reverse(a), 1, h)
    BY <1>10, <2>3, <2>5 DEF Completions!IsSuffix, Completions!IsPrefix
  <2>7. \A i \in 1..h : front[h - i + 1] = a[Len(a) - i + 1]
    <3>1. SUFFICES ASSUME NEW i \in 1..h PROVE front[h - i + 1] = a[Len(a) - i + 1]
      OBVIOUS
    <3>2. SubSeq(Completions!Reverse(front), 1, h)[i] = SubSeq(Completions!Reverse(a), 1, h)[i]
      BY <2>6
    <3>3. i \in 1..Len(a)
      BY <1>7, <2>2, <2>6
    <3>4. /\ SubSeq(Completions!Reverse(front), 1, h)[i] = Completions!Reverse(front)[i]
          /\ SubSeq(Completions!Reverse(a), 1, h)[i] = Completions!Reverse(a)[i]
      BY <1>7, <2>2, <2>5, <2>6
    <3>5. QED
      BY <2>5, <3>2, <3>3, <3>4
  <2>8. \A i \in 1..h : b[i] = a[Len(a) - h + i]
    <3>1. SUFFICES ASSUME NEW i \in 1..h PROVE b[i] = a[Len(a) - h + i]
      OBVIOUS
    <3>2. h - i + 1 \in 1..h
      BY <2>2
    <3>3. front[h - (h - i + 1) + 1] = a[Len(a) - (h - i + 1) + 1]
      BY <2>7, <3>2
    <3>4. h - (h - i + 1) + 1 = i /\ Len(a) - (h - i + 1) + 1 = Len(a) - h + i
      BY <1>7, <2>2
    <3>5. front[i] = b[i]
      BY <1>7, <2>1, <2>2, <2>4
    <3>6. QED
      BY <3>3, <3>4, <3>5
  <2>9. SubSeq(a, Len(a) - h + 1, Len(a)) = SubSeq(b, 1, h)
    <3>1. PICK p : p = SubSeq(a, Len(a) - h + 1, Len(a))
      OBVIOUS
    <3>2. PICK q : q = SubSeq(b, 1, h)
      OBVIOUS
    <3>3. p \in Seq(Says) /\ q \in Seq(Says) /\ Len(p) = h /\ Len(q) = h
      BY <1>7, <2>1, <2>2, <2>6, <3>1, <3>2
    <3>4. \A i \in 1..h : p[i] = a[Len(a) - h + i] /\ q[i] = b[i]
      BY <1>7, <2>1, <2>2, <2>6, <3>1, <3>2
    <3>5. p = q
      <4>1. Len(p) = Len(q) /\ \A i \in 1..Len(p) : p[i] = q[i]
        BY <2>8, <3>3, <3>4
      <4>2. QED
        BY <3>3, <4>1, SameSeq, Zenon
    <3>6. QED
      BY <3>1, <3>2, <3>5
  <2>10. h <= n
    <3>1. h \in 0..Len(a) /\ h <= Len(b)
      BY <1>7, <2>1, <2>2, <2>6
    <3>2. QED
      BY <1>6, <2>9, <3>1
  <2>11. n # Len(b)
    <3>1. SUFFICES ASSUME n = Len(b) PROVE FALSE
      OBVIOUS
    <3>2. a # <<>> /\ Len(b) \in 1..Len(a)
      BY <1>6, <1>7, <3>1
    <3>3. SubSeq(a, Len(a) - n + 1, Len(a))[n] = a[Len(a)]
      BY <1>6, <1>7, <3>1, <3>2
    <3>4. SubSeq(b, 1, n)[n] = b[Len(b)]
      BY <1>6, <1>7, <3>1
    <3>5. a[Len(a)] = b[Len(b)]
      BY <1>6, <3>3, <3>4
    <3>6. QED
      BY <3>2, <3>5 DEF Ends
  <2>12. n = h
    BY <1>6, <1>7, <2>1, <2>2, <2>10, <2>11
  <2>13. PICK last : last = b[Len(b)]
    OBVIOUS
  <2>14. last \in Says /\ last = Completions!Last(b) /\ last # reply
    BY <1>7, <2>13 DEF Completions!Last
  <2>15. SubSeq(b, n + 1, Len(b)) = <<last>>
    <3>1. PICK p : p = SubSeq(b, n + 1, Len(b))
      OBVIOUS
    <3>2. n + 1 = Len(b)
      BY <1>7, <2>1, <2>12
    <3>3. p \in Seq(Says) /\ Len(p) = 1 /\ p[1] = last
      BY <1>7, <2>13, <3>1, <3>2
    <3>4. <<last>> \in Seq(Says) /\ Len(<<last>>) = 1 /\ <<last>>[1] = last
      BY <2>14
    <3>5. p = <<last>>
      BY <3>3, <3>4
    <3>6. QED
      BY <3>1, <3>5
  <2>16. merged = a \o <<last>> /\ merged[Len(merged)] = last
    <3>1. merged = a \o <<last>>
      BY <1>2, <2>15
    <3>2. Len(a \o <<last>>) = Len(a) + 1 /\ (a \o <<last>>)[Len(a) + 1] = last
      BY <1>7, <2>14
    <3>3. QED
      BY <3>1, <3>2
  <2>17. turns = Append(a \o <<last>>, reply)
    BY <1>5, <2>14, <2>16
  <2>18. Append(a \o <<last>>, reply) = a \o <<last, reply>>
    BY <2>14
  <2>19. QED
    BY <2>14, <2>17, <2>18
<1>11. QED
  BY <1>4, <1>9, <1>10 DEF Ends

LEMMA NavigateKeeps ==
  ASSUME CompletionsInv, NEW c \in Calls, Completions!Navigate(c)
  PROVE  CompletionsInv'
<1>1. PICK r : r = [s6[c] EXCEPT !.page = s6[c].talk]
  OBVIOUS
<1>2. /\ s6[c].stage = "sent" /\ s6' = [s6 EXCEPT ![c] = r]
      /\ UNCHANGED <<s1, s2, s3, s4, s5, s7, s8>>
  BY <1>1, Held DEF Completions!Navigate, CompletionsInv, CallSet
<1>3. s6[c] \in CallSet /\ CallHolds(s2, s6[c]) /\ TaskHolds(s2, s6[c])
  BY Held
<1>4. s6[c].talk \in Talks
  BY <1>2, <1>3 DEF CallHolds, NewHolds
<1>5. /\ r.stage = "sent" /\ r.kind = s6[c].kind /\ r.messages = s6[c].messages
      /\ r.target = s6[c].target /\ r.page = s6[c].talk /\ r.talk = s6[c].talk
      /\ r.loading = s6[c].loading /\ r.found = s6[c].found
      /\ r.branch = s6[c].branch /\ r.sent = s6[c].sent /\ r.first = s6[c].first
       /\ r.thread = s6[c].thread
      /\ r.repaired = s6[c].repaired /\ r.read = s6[c].read
  BY <1>1, <1>2, <1>3 DEF CallSet
<1>6. r \in CallSet
  BY <1>1, <1>3, <1>4 DEF CallSet, Completions!Pages
<1>7. CallHolds(s2, r)
  <2>1. NewHolds(s2, r) /\ SentHolds(s2, r) /\ ReplyHolds(s2, r) /\ TurnsHold(s2, r) /\ OpenHolds(r)
    BY <1>2, <1>3, <1>5
    DEF CallHolds, NewHolds, OpenHolds, SentHolds, ReplyHolds, Answers, Asks, TurnsHold, Begun
  <2>2. FoundHolds(s2, r)
    BY <1>2, <1>3, <1>5 DEF CallHolds, FoundHolds, Right, Loads
  <2>3. QED
    BY <1>6, <2>1, <2>2 DEF CallHolds
<1>8. TaskHolds(s2, r) /\ Knows(r) \subseteq Knows(s6[c]) /\ (Tasks(r) <=> Tasks(s6[c]))
  BY <1>2, <1>3, <1>5 DEF TaskHolds, Knows, Tasks
<1>9. /\ r.stage \in {"open", "sent"} <=> s3' = c
      /\ Tasks(r) <=> s4' = c
  BY <1>2, <1>5, <1>8, Held
<1>10. QED
  BY <1>2, <1>5, <1>7, <1>8, <1>9, Unmoved, CallMoves

LEMMA RepliedKeeps ==
  ASSUME CompletionsInv, NEW c \in Calls, s6[c].stage = "sent", NEW n, NEW dom \in BOOLEAN,
         n \in 1..Len(s2[s6[c].talk].nodes),
         ~dom => Right(s2[s6[c].talk].nodes, s6[c], n), Completions!Replied(c, n, dom)
  PROVE  CompletionsInv'
<1>1. PICK q : q = [s6[c] EXCEPT !.stage = "replied", !.reply = n, !.loading = {}]
  OBVIOUS
<1>2. PICK r : r = [q EXCEPT !.dom = dom]
  OBVIOUS
<1>3. s6[c] \in CallSet /\ CallHolds(s2, s6[c]) /\ TaskHolds(s2, s6[c])
  BY Held
<1>4. s6[c].talk \in Talks
  BY <1>3 DEF CallHolds, NewHolds
<1>5. n \in Nat
  BY <1>4, Held
<1>6. q \in CallSet
  <2>1. "replied" \in Completions!Stages /\ {} \in SUBSET Responses
    BY DEF Completions!Stages
  <2>2. QED
    BY <1>1, <1>3, <1>5, <2>1 DEF CallSet
<1>7. r \in CallSet
  BY <1>2, <1>6, Zenon DEF CallSet
<1>8. r = [s6[c] EXCEPT !.stage = "replied", !.reply = n, !.dom = dom, !.loading = {}]
  BY <1>1, <1>2, <1>3 DEF CallSet
<1>9. /\ s6' = [s6 EXCEPT ![c] = r] /\ s3' = None /\ UNCHANGED <<s1, s2, s4, s5, s7, s8>>
  BY <1>8 DEF Completions!Replied
<1>10. /\ q.stage = "replied" /\ q.kind = s6[c].kind /\ q.messages = s6[c].messages
       /\ q.target = s6[c].target /\ q.page = s6[c].page /\ q.talk = s6[c].talk
       /\ q.reply = n /\ q.branch = s6[c].branch /\ q.sent = s6[c].sent /\ q.first = s6[c].first
       /\ q.thread = s6[c].thread
       /\ q.repaired = s6[c].repaired /\ q.read = s6[c].read
  BY <1>1, <1>3 DEF CallSet
<1>11. /\ r.stage = q.stage /\ r.kind = q.kind /\ r.messages = q.messages
       /\ r.target = q.target /\ r.page = q.page /\ r.talk = q.talk
       /\ r.reply = q.reply /\ r.branch = q.branch /\ r.sent = q.sent /\ r.first = q.first
       /\ r.thread = q.thread
       /\ r.repaired = q.repaired /\ r.read = q.read
  BY <1>2, <1>6 DEF CallSet
<1>12. r.dom = dom
  BY <1>2, <1>6, Zenon DEF CallSet
<1>13. CallHolds(s2, r)
  <2>1. NewHolds(s2, r) /\ SentHolds(s2, r) /\ TurnsHold(s2, r) /\ OpenHolds(r) /\ FoundHolds(s2, r)
    BY <1>3, <1>10, <1>11
    DEF CallHolds, NewHolds, OpenHolds, SentHolds, FoundHolds, Answers, Asks, TurnsHold, Begun
  <2>2. \A m : Right(s2[s6[c].talk].nodes, s6[c], m) => Right(s2[r.talk].nodes, r, m)
    BY <1>10, <1>11 DEF Right
  <2>3. ReplyHolds(s2, r)
    BY <1>10, <1>11, <1>12, <2>2 DEF ReplyHolds, Answers
  <2>4. QED
    BY <1>7, <2>1, <2>3 DEF CallHolds
<1>14. TaskHolds(s2, r) /\ Knows(r) = Knows(s6[c]) /\ (Tasks(r) <=> Tasks(s6[c]))
  BY <1>3, <1>10, <1>11 DEF TaskHolds, Knows, Tasks
<1>15. /\ ~(r.stage \in {"open", "sent"}) /\ s3' # c
       /\ Tasks(r) <=> s4' = c
       /\ \A d \in Calls \ {c} : s3' = d <=> s3 = d
  <2>1. s3 = c
    BY Held
  <2>2. QED
    BY <1>9, <1>10, <1>11, <1>14, <2>1, Held, CompletionsAssumption
<1>16. QED
  BY <1>9, <1>10, <1>11, <1>13, <1>14, <1>15, Unmoved, CallMoves

LEMMA ReturnKeeps ==
  ASSUME CompletionsInv, NEW c \in Calls, Completions!Return(c)
  PROVE  CompletionsInv'
<1>1. s6[c].stage = "sent" /\ s6[c].found # 0 /\ Completions!Replied(c, s6[c].found, FALSE)
  BY DEF Completions!Return
<1>2. Right(s2[s6[c].talk].nodes, s6[c], s6[c].found)
  BY <1>1, Held DEF CallHolds, FoundHolds
<1>3. QED
  BY <1>1, <1>2, RepliedKeeps DEF Right

LEMMA GiveUpKeeps ==
  ASSUME CompletionsInv, NEW c \in Calls, NEW n, Completions!GiveUp(c, n)
  PROVE  CompletionsInv'
<1>1. /\ s6[c].stage = "sent" /\ Completions!Replied(c, n, TRUE)
      /\ n \in Completions!Branch(s2[s6[c].talk].nodes, s2[s6[c].talk].current)
  BY DEF Completions!GiveUp
<1>2. s6[c].talk \in Talks
  BY <1>1, Held DEF CallHolds, NewHolds
<1>3. /\ Tree(s2[s6[c].talk].nodes) /\ Len(s2[s6[c].talk].nodes) \in Nat
      /\ s2[s6[c].talk].current \in 0..Len(s2[s6[c].talk].nodes)
  BY <1>2, Held DEF TalkHolds
<1>4. n \in 1..Len(s2[s6[c].talk].nodes)
  BY <1>1, <1>3, BranchBelow
<1>5. QED
  BY <1>1, <1>4, RepliedKeeps

LEMMA KeepKeeps ==
  ASSUME CompletionsInv, NEW c \in Calls, NEW parsed \in BOOLEAN, Completions!Keep(c, parsed)
  PROVE  CompletionsInv'
<1>1. /\ s6[c].kind = "task" /\ s6[c].stage = "replied" /\ s5' = s6[c].page
      /\ UNCHANGED <<s1, s2, s3, s7, s8>>
  BY DEF Completions!Keep
<1>2. s6[c] \in CallSet /\ CallHolds(s2, s6[c]) /\ TaskHolds(s2, s6[c]) /\ s4 = c
  BY <1>1, Held DEF Tasks
<1>3. s5' \in Completions!Pages /\ Begun(s2, s5')
  BY <1>1, <1>2 DEF CallSet, CallHolds, NewHolds
<1>4. \A d \in Calls : s6[d].kind = "chat" => s5' \notin Knows(s6[d]) /\ Knows(s6[c]) \cap Knows(s6[d]) = {}
  <2>1. SUFFICES ASSUME NEW d \in Calls, s6[d].kind = "chat"
                 PROVE  s5' \notin Knows(s6[d]) /\ Knows(s6[c]) \cap Knows(s6[d]) = {}
    OBVIOUS
  <2>2. Knows(s6[d]) \cap Knows(s6[c]) = {}
    BY <1>1, <2>1 DEF CompletionsInv, ApartHolds
  <2>3. s5' \in Talks => s5' \in Knows(s6[c])
    BY <1>1 DEF Knows
  <2>4. QED
    BY <2>2, <2>3 DEF Knows
<1>5. CASE parsed \/ s6[c].repaired
  <2>1. PICK r : r = [Completions!NewCall EXCEPT !.stage = IF parsed THEN "done" ELSE "failed", !.kind = "task"]
    OBVIOUS
  <2>2. s6' = [s6 EXCEPT ![c] = r] /\ s4' = None
    BY <1>1, <1>5, <2>1 DEF Completions!Keep, Completions!Ended
  <2>3. PICK stage \in {"done", "failed"} : stage = IF parsed THEN "done" ELSE "failed"
    OBVIOUS
  <2>4. /\ CallHolds(s2, r) /\ TaskHolds(s2, r) /\ Knows(r) = {}
        /\ r.kind = "task" /\ r.stage = stage /\ ~Tasks(r)
    BY <2>1, <2>3, EndsNew
  <2>5. s3' # c
    BY <1>1, Held
  <2>6. s4' # c /\ \A d \in Calls \ {c} : (s3' = d <=> s3 = d) /\ (s4' = d <=> s4 = d)
    BY <1>1, <1>2, <2>2, CompletionsAssumption
  <2>7. \A d \in Calls \ {c} : Knows(r) \cap Knows(s6[d]) = {}
    BY <2>4
  <2>8. ~(r.stage \in {"open", "sent"}) /\ ~(r.kind = "chat")
    BY <2>4
  <2>9. s8' \in Nat /\ DOMAIN s7' = Completions!Pages /\ StoredHolds'
    BY <1>1, Unmoved
  <2>10. QED
    BY <1>1, <1>3, <1>4, <2>2, <2>4, <2>5, <2>6, <2>7, <2>8, <2>9, CallChanges
<1>6. CASE ~(parsed \/ s6[c].repaired)
  <2>1. PICK q : q = [s6[c] EXCEPT !.stage = "queued", !.target = s6[c].page]
    OBVIOUS
  <2>2. PICK r : r = [q EXCEPT !.repaired = TRUE]
    OBVIOUS
  <2>3. q \in CallSet
    <3>1. "queued" \in Completions!Stages /\ s6[c].page \in Completions!Pages
      BY <1>2 DEF Completions!Stages, CallSet
    <3>2. QED
      BY <1>2, <2>1, <3>1 DEF CallSet
  <2>4. r \in CallSet /\ r.repaired
    BY <2>2, <2>3, Zenon DEF CallSet
  <2>5. r = [s6[c] EXCEPT !.stage = "queued", !.target = s6[c].page, !.repaired = TRUE]
    BY <1>2, <2>1, <2>2 DEF CallSet
  <2>6. s6' = [s6 EXCEPT ![c] = r] /\ s4' = s4
    BY <1>6, <2>5 DEF Completions!Keep
  <2>7. /\ r.stage = "queued" /\ r.kind = "task" /\ r.messages = s6[c].messages
        /\ r.target = s6[c].page /\ r.page = s6[c].page /\ r.talk = s6[c].talk
        /\ r.first = s6[c].first /\ r.thread = s6[c].thread /\ r.read = s6[c].read
    BY <1>1, <1>2, <2>1, <2>2, <2>3 DEF CallSet
  <2>8. CallHolds(s2, r)
    <3>1. NewHolds(s2, r) /\ TurnsHold(s2, r)
      BY <1>1, <1>2, <2>7 DEF CallHolds, NewHolds, TurnsHold, Asks, Answers, Begun
    <3>2. QED
      BY <2>4, <2>7, <3>1 DEF CallHolds, OpenHolds, SentHolds, FoundHolds, ReplyHolds, Answers
  <2>9. TaskHolds(s2, r)
    <3>1. r.target \in Talks => r.target = s6[c].talk
      BY <1>1, <1>2, <2>7, CompletionsAssumption DEF CallHolds, SentHolds
    <3>2. ~s6[c].repaired
      BY <1>6
    <3>3. QED
      BY <1>1, <1>2, <2>4, <2>7, <3>1, <3>2 DEF TaskHolds
  <2>10. Knows(r) \subseteq Knows(s6[c]) /\ Tasks(r)
    BY <2>7 DEF Knows, Tasks
  <2>11. s3' # c
    BY <1>1, Held
  <2>12. \A d \in Calls \ {c} :
           {r.kind, s6[d].kind} = {"chat", "task"} => Knows(r) \cap Knows(s6[d]) = {}
    <3>1. SUFFICES ASSUME NEW d \in Calls \ {c}, {r.kind, s6[d].kind} = {"chat", "task"}
                   PROVE  Knows(r) \cap Knows(s6[d]) = {}
      OBVIOUS
    <3>2. s6[d].kind = "chat"
      BY <2>7, <3>1
    <3>3. QED
      BY <1>4, <2>10, <3>2
  <2>13. QED
    BY <1>1, <1>2, <1>3, <1>4, <2>6, <2>7, <2>8, <2>9, <2>10, <2>11, <2>12, Unmoved, CallChanges
<1>7. QED
  BY <1>5, <1>6

\* A chat call that has been answered.
LEMMA AnsweredHolds ==
  ASSUME CompletionsInv, NEW c \in Calls, s6[c].kind = "chat", s6[c].stage \in {"replied", "read"}, NEW r,
         r = [Completions!NewCall EXCEPT !.stage = "done", !.kind = "chat", !.messages = s6[c].messages,
                                         !.talk = s6[c].talk, !.page = s6[c].page, !.reply = s6[c].reply]
  PROVE  /\ CallHolds(s2, r) /\ TaskHolds(s2, r) /\ Knows(r) \subseteq Knows(s6[c])
         /\ r.kind = "chat" /\ r.stage = "done" /\ ~Tasks(r)
<1>1. PICK q : q = Completions!NewCall
  OBVIOUS
<1>2. q \in CallSet /\ CallHolds(s2, q) /\ ~q.repaired /\ q.target = Home
  BY <1>1, NewCallHolds DEF Completions!NewCall
<1>3. s6[c] \in CallSet /\ CallHolds(s2, s6[c])
  BY Held
<1>4. "done" \in Completions!Stages
  BY DEF Completions!Stages
<1>5. r \in CallSet
  BY <1>1, <1>2, <1>3, <1>4 DEF CallSet
<1>6. /\ r.stage = "done" /\ r.kind = "chat" /\ ~r.repaired /\ r.talk = s6[c].talk /\ r.target = Home
      /\ r.page = s6[c].page /\ r.read = q.read /\ r.messages = s6[c].messages
      /\ r.reply = s6[c].reply
  BY <1>1, <1>2 DEF CallSet
<1>7. NewHolds(s2, r)
  BY <1>3, <1>6, CompletionsAssumption
  DEF CallHolds, NewHolds, Asks, Answers, Begun
<1>8. TurnsHold(s2, r) /\ ReplyHolds(s2, r)
  BY <1>2, <1>3, <1>6 DEF CallHolds, TurnsHold, ReplyHolds, Answers
<1>9. CallHolds(s2, r)
  BY <1>5, <1>6, <1>7, <1>8 DEF CallHolds, OpenHolds, SentHolds, FoundHolds
<1>10. QED
  BY <1>6, <1>9, CompletionsAssumption DEF TaskHolds, Knows, Tasks

LEMMA MergeKeeps ==
  ASSUME CompletionsInv, NEW c \in Calls, Completions!Merge(c)
  PROVE  CompletionsInv'
<1>1. /\ s6[c].kind = "chat" /\ s6[c].stage = "replied" /\ UNCHANGED <<s1, s2, s3, s4, s5, s7>>
  BY DEF Completions!Merge
<1>2. s6[c] \in CallSet /\ CallHolds(s2, s6[c]) /\ TaskHolds(s2, s6[c]) /\ s4 # c /\ s3 # c
  BY <1>1, Held DEF Tasks
<1>3. DOMAIN s7' = Completions!Pages /\ StoredHolds' /\ s8 \in Nat
  BY <1>1 DEF CompletionsInv, StoredHolds
<1>4. CASE s6[c].store
  <2>1. PICK reply : reply = Completions!ReplyTurn(c)
    OBVIOUS
  <2>2. PICK read : read = s7[s6[c].page].turns
    OBVIOUS
  <2>3. PICK turns : turns = Completions!Combined(read, s6[c].messages, reply)
    OBVIOUS
  <2>4. PICK r : r = [s6[c] EXCEPT !.stage = "read", !.at = s8 + 1, !.read = read, !.turns = turns]
    OBVIOUS
  <2>5. s6' = [s6 EXCEPT ![c] = r] /\ s8' = s8 + 1
    BY <1>4, <2>1, <2>2, <2>3, <2>4 DEF Completions!Merge
  <2>6. reply \in Says /\ reply.role = "assistant"
        /\ reply = Completions!Turn("assistant", s2[s6[c].talk].nodes[s6[c].reply].text)
    BY <1>1, <2>1, ReplyType DEF Completions!ReplyTurn
  <2>7. read \in Seq(Says) /\ Ends(read)
    BY <1>2, <2>2 DEF CompletionsInv, StoredHolds, CallSet
  <2>8. /\ s6[c].messages \in Seq(Says) /\ s6[c].messages # <<>>
        /\ s6[c].messages[Len(s6[c].messages)].role = "user"
    BY <1>1, <1>2 DEF CallHolds, NewHolds, Asks, CallSet
  <2>9. /\ turns \in Seq(Says) /\ turns # <<>> /\ Ends(turns)
        /\ Completions!IsSuffix(Completions!Front(s6[c].messages), read) =>
             turns = read \o <<Completions!Last(s6[c].messages), reply>>
    BY <2>3, <2>6, <2>7, <2>8, CombinedHolds
  <2>10. r \in CallSet
    <3>1. "read" \in Completions!Stages /\ s8 + 1 \in Nat
      BY <1>3 DEF Completions!Stages
    <3>2. QED
      BY <1>2, <2>4, <2>7, <2>9, <3>1 DEF CallSet
  <2>11. /\ r.stage = "read" /\ r.kind = "chat" /\ r.messages = s6[c].messages
         /\ r.target = s6[c].target /\ r.page = s6[c].page /\ r.talk = s6[c].talk
         /\ r.reply = s6[c].reply /\ r.repaired = s6[c].repaired /\ r.read = read /\ r.turns = turns
    BY <1>1, <1>2, <2>4 DEF CallSet
  <2>12. CallHolds(s2, r)
    <3>1. NewHolds(s2, r)
      BY <1>1, <1>2, <2>11 DEF CallHolds, NewHolds, Asks, Answers, Begun
    <3>2. TurnsHold(s2, r)
      BY <2>6, <2>7, <2>9, <2>11 DEF TurnsHold
    <3>3. ReplyHolds(s2, r)
      BY <1>1, <1>2, <2>11 DEF CallHolds, ReplyHolds, Answers
    <3>4. QED
      BY <2>10, <2>11, <3>1, <3>2, <3>3 DEF CallHolds, OpenHolds, SentHolds, FoundHolds
  <2>13. TaskHolds(s2, r) /\ Knows(r) = Knows(s6[c]) /\ ~Tasks(r)
    BY <1>1, <1>2, <2>11 DEF TaskHolds, Knows, Tasks
  <2>14. s8' \in Nat
    BY <1>3, <2>5
  <2>15. QED
    BY <1>1, <1>2, <1>3, <2>5, <2>11, <2>12, <2>13, <2>14, CallMoves
<1>5. CASE ~s6[c].store
  <2>1. PICK r : r = [Completions!NewCall EXCEPT
                        !.stage = "done", !.kind = "chat", !.messages = s6[c].messages,
                        !.talk = s6[c].talk, !.page = s6[c].page, !.reply = s6[c].reply]
    OBVIOUS
  <2>2. s6' = [s6 EXCEPT ![c] = r] /\ s8' = s8
    BY <1>1, <1>5, <2>1 DEF Completions!Merge, Completions!Ended
  <2>3. /\ CallHolds(s2, r) /\ TaskHolds(s2, r) /\ Knows(r) \subseteq Knows(s6[c])
        /\ r.kind = "chat" /\ r.stage = "done" /\ ~Tasks(r)
    BY <1>1, <2>1, AnsweredHolds
  <2>4. QED
    BY <1>1, <1>2, <1>3, <2>2, <2>3, CallMoves
<1>6. QED
  BY <1>4, <1>5

LEMMA SnapshotKeeps ==
  ASSUME CompletionsInv, NEW c \in Calls, Completions!Store(c)
  PROVE  CompletionsInv'
<1>1. s6[c].stage = "read" /\ UNCHANGED <<s1, s2, s3, s4, s5, s8>>
  BY Zenon DEF Completions!Store
<1>2. s6[c] \in CallSet /\ CallHolds(s2, s6[c]) /\ TaskHolds(s2, s6[c]) /\ s4 # c /\ s3 # c
  BY <1>1, Held DEF Tasks
<1>3. s6[c].kind = "chat"
  BY <1>1, <1>2 DEF CallHolds, NewHolds
<1>4. PICK r : r = [Completions!NewCall EXCEPT
                      !.stage = "done", !.kind = "chat", !.messages = s6[c].messages,
                      !.talk = s6[c].talk, !.page = s6[c].page, !.reply = s6[c].reply]
  OBVIOUS
<1>5. s6' = [s6 EXCEPT ![c] = r]
  BY <1>1, <1>3, <1>4 DEF Completions!Store, Completions!Ended
<1>6. /\ CallHolds(s2, r) /\ TaskHolds(s2, r) /\ Knows(r) \subseteq Knows(s6[c])
      /\ r.kind = "chat" /\ r.stage = "done" /\ ~Tasks(r)
  BY <1>1, <1>3, <1>4, AnsweredHolds
<1>7. DOMAIN s7' = Completions!Pages /\ StoredHolds'
  <2>1. CASE s7' = s7
    BY <2>1 DEF CompletionsInv, StoredHolds
  <2>2. CASE s7' = [s7 EXCEPT ![s6[c].page] = [turns |-> s6[c].turns, at |-> s6[c].at]]
    <3>1. s6[c].turns \in Seq(Says) /\ s6[c].at \in Nat /\ Ends(s6[c].turns)
      BY <1>1, <1>2 DEF CallSet, CallHolds, TurnsHold
    <3>2. PICK entry : entry = [turns |-> s6[c].turns, at |-> s6[c].at]
      OBVIOUS
    <3>3. entry.turns = s6[c].turns /\ entry.at = s6[c].at
      BY <3>2
    <3>4. \A p \in Completions!Pages : s7'[p] = s7[p] \/ s7'[p] = entry
      BY <2>2, <3>2 DEF CompletionsInv
    <3>5. DOMAIN s7' = Completions!Pages
      BY <2>2 DEF CompletionsInv
    <3>6. QED
      BY <3>1, <3>3, <3>4, <3>5 DEF CompletionsInv, StoredHolds
  <2>3. QED
    BY <1>1, <2>1, <2>2 DEF Completions!Store
<1>8. s8' \in Nat
  BY <1>1 DEF CompletionsInv
<1>9. /\ UNCHANGED <<s1, s2, s5>> /\ r.kind = s6[c].kind
      /\ ~(r.stage \in {"open", "sent"}) /\ s3' # c /\ s4' # c
      /\ \A d \in Calls \ {c} : (s3' = d <=> s3 = d) /\ (s4' = d <=> s4 = d)
  BY <1>1, <1>2, <1>3, <1>6
<1>10. QED
  BY <1>5, <1>6, <1>7, <1>8, <1>9, CallMoves

------------------------------------------------------------------------------
(* Steps that change a conversation.                                          *)

\* A message added to a conversation.
LEMMA AddedHolds ==
  ASSUME NEW x, TalkHolds(x), NEW node \in NodeSet, node.parent = x.current, NEW y,
         y = [x EXCEPT !.nodes = Append(@, node), !.current = Len(x.nodes) + 1]
  PROVE  /\ TalkHolds(y) /\ Len(y.nodes) = Len(x.nodes) + 1 /\ y.current = Len(x.nodes) + 1
         /\ y.nodes[Len(x.nodes) + 1] = node
         /\ \A i \in 1..Len(x.nodes) : y.nodes[i] = x.nodes[i]
         /\ Completions!Branch(y.nodes, y.current) =
              Completions!Branch(x.nodes, x.current) \cup {y.current}
<1>1. x \in TalkSet /\ Tree(x.nodes) /\ x.current \in 0..Len(x.nodes) /\ x.nodes \in Seq(NodeSet)
      /\ Len(x.nodes) \in Nat
  BY DEF TalkHolds, Tree
<1>2. PICK n : n = Len(x.nodes) + 1
  OBVIOUS
<1>3. PICK nodes : nodes = Append(x.nodes, node)
  OBVIOUS
<1>4. y.nodes = nodes /\ y.current = n /\ y = [nodes |-> nodes, current |-> n]
  BY <1>1, <1>2, <1>3 DEF TalkSet
<1>5. /\ nodes \in Seq(NodeSet) /\ Len(nodes) = n /\ nodes[n] = node
      /\ \A i \in 1..Len(x.nodes) : nodes[i] = x.nodes[i]
  BY <1>1, <1>2, <1>3
<1>6. Tree(nodes)
  <2>1. ASSUME NEW i \in 1..Len(nodes) PROVE nodes[i].parent < i
    <3>1. CASE i = n
      BY <1>1, <1>2, <1>5, <3>1
    <3>2. CASE i # n
      <4>1. i \in 1..Len(x.nodes)
        BY <1>1, <1>2, <1>5, <3>2
      <4>2. QED
        BY <1>1, <1>5, <4>1 DEF Tree
    <3>3. QED
      BY <3>1, <3>2
  <2>2. QED
    BY <1>5, <2>1 DEF Tree
<1>7. TalkHolds(y)
  <2>1. n \in Nat /\ n # 0
    BY <1>1, <1>2
  <2>2. y \in TalkSet
    BY <1>4, <1>5, <2>1 DEF TalkSet
  <2>3. y.current \in 0..Len(y.nodes) /\ y.current # 0
    BY <1>4, <1>5, <2>1
  <2>4. QED
    BY <1>4, <1>6, <2>2, <2>3 DEF TalkHolds
<1>8. Completions!Branch(nodes, n) = Completions!Branch(nodes, x.current) \cup {n}
  <2>1. n \in 1..Len(nodes)
    BY <1>1, <1>2, <1>5
  <2>2. QED
    BY <1>5, <1>6, <2>1, BranchStep
<1>9. Completions!Branch(nodes, x.current) = Completions!Branch(x.nodes, x.current)
  BY <1>1, <1>2, <1>5, <1>6, BranchStays
<1>10. QED
  BY <1>2, <1>4, <1>5, <1>7, <1>8, <1>9

\* Conversations after a message has been added to one of them.
LEMMA TalkAdded ==
  ASSUME CompletionsInv, NEW t \in Talks, NEW node \in NodeSet, node.parent = s2[t].current,
         s2' = [s2 EXCEPT ![t].nodes = Append(@, node), ![t].current = Len(s2[t].nodes) + 1]
  PROVE  /\ TalksHold(s2') /\ Grown(s2, s2')
         /\ \A u \in Talks \ {t} : s2'[u] = s2[u]
         /\ Len(s2'[t].nodes) = Len(s2[t].nodes) + 1 /\ s2'[t].current = Len(s2[t].nodes) + 1
         /\ s2'[t].nodes[Len(s2[t].nodes) + 1] = node
         /\ \A i \in 1..Len(s2[t].nodes) : s2'[t].nodes[i] = s2[t].nodes[i]
         /\ Completions!Branch(s2'[t].nodes, s2'[t].current) =
              Completions!Branch(s2[t].nodes, s2[t].current) \cup {s2'[t].current}
<1>1. PICK x : x = s2[t]
  OBVIOUS
<1>2. PICK y : y = [x EXCEPT !.nodes = Append(@, node), !.current = Len(x.nodes) + 1]
  OBVIOUS
<1>3. TalkHolds(x) /\ DOMAIN s2 = Talks /\ Len(x.nodes) \in Nat
  BY <1>1 DEF CompletionsInv, TalksHold, TalkHolds, Tree
<1>4. DOMAIN s2' = Talks /\ s2'[t] = y /\ \A u \in Talks \ {t} : s2'[u] = s2[u]
  BY <1>1, <1>2, <1>3
<1>5. /\ TalkHolds(y) /\ Len(y.nodes) = Len(x.nodes) + 1 /\ y.current = Len(x.nodes) + 1
      /\ y.nodes[Len(x.nodes) + 1] = node
      /\ \A i \in 1..Len(x.nodes) : y.nodes[i] = x.nodes[i]
      /\ Completions!Branch(y.nodes, y.current) =
           Completions!Branch(x.nodes, x.current) \cup {y.current}
  <2>1. TalkHolds(x) /\ node \in NodeSet /\ node.parent = x.current
    BY <1>1, <1>3
  <2>2. \A z : z = [x EXCEPT !.nodes = Append(@, node), !.current = Len(x.nodes) + 1] =>
          /\ TalkHolds(z) /\ Len(z.nodes) = Len(x.nodes) + 1 /\ z.current = Len(x.nodes) + 1
          /\ z.nodes[Len(x.nodes) + 1] = node
          /\ \A i \in 1..Len(x.nodes) : z.nodes[i] = x.nodes[i]
          /\ Completions!Branch(z.nodes, z.current) =
               Completions!Branch(x.nodes, x.current) \cup {z.current}
    BY <2>1, AddedHolds, Zenon
  <2>3. QED
    BY <1>2, <2>2, Zenon
<1>6. TalksHold(s2')
  BY <1>4, <1>5 DEF CompletionsInv, TalksHold
<1>7. Grown(s2, s2')
  <2>1. SUFFICES ASSUME NEW u \in Talks
                 PROVE  /\ Len(s2[u].nodes) <= Len(s2'[u].nodes)
                        /\ \A i \in 1..Len(s2[u].nodes) : s2'[u].nodes[i] = s2[u].nodes[i]
    BY DEF Grown
  <2>2. Len(s2[u].nodes) \in Nat
    BY DEF CompletionsInv, TalksHold, TalkHolds, Tree
  <2>3. CASE u = t
    BY <1>1, <1>3, <1>4, <1>5, <2>3
  <2>4. CASE u # t
    BY <1>4, <2>2, <2>4
  <2>5. QED
    BY <2>3, <2>4
<1>8. QED
  BY <1>1, <1>4, <1>5, <1>6, <1>7

\* The conversations change, and of the calls what r says.
LEMMA TalksChange ==
  ASSUME CompletionsInv, TalksHold(s2'), Grown(s2, s2'), UNCHANGED <<s1, s3, s4, s5, s7, s8>>,
         DOMAIN s6' = Calls,
         \A c \in Calls : /\ CallHolds(s2', s6'[c]) /\ TaskHolds(s2', s6'[c])
                          /\ s6'[c].kind = s6[c].kind
                          /\ s6'[c].stage \in {"open", "sent"} <=> s6[c].stage \in {"open", "sent"}
                          /\ Tasks(s6'[c]) <=> Tasks(s6[c]),
         ApartHolds'
  PROVE  CompletionsInv'
<1>1. ASSUME NEW d \in Calls PROVE (CallHolds(s2, s6[d]) /\ TaskHolds(s2, s6[d]))'
  <2>1. SUFFICES ASSUME NEW x, CallHolds(s2', x) PROVE CallHolds(s2, x)'
    BY DEF TaskHolds
  <2>2. \A nodes, n : Right(nodes, x, n) => Right(nodes, x, n)'
    BY DEF Right
  <2>3. FoundHolds(s2, x)' /\ ReplyHolds(s2, x)'
    BY <2>1, <2>2 DEF CallHolds, FoundHolds, ReplyHolds
  <2>4. NewHolds(s2, x)' /\ SentHolds(s2, x)' /\ TurnsHold(s2, x)'
    BY <2>1 DEF CallHolds, NewHolds, SentHolds, TurnsHold, Begun
  <2>5. QED
    BY <2>1, <2>3, <2>4 DEF CallHolds
<1>2. LocksHold'
  BY DEF CompletionsInv, LocksHold, Tasks
<1>3. Begun(s2, s5)'
  <2>1. SUFFICES ASSUME s5 \in Talks, s2'[s5].nodes = <<>> PROVE FALSE
    BY DEF Begun
  <2>2. s2[s5].nodes # <<>> /\ s2[s5].nodes \in Seq(NodeSet)
    BY <2>1 DEF CompletionsInv, Begun, TalksHold, TalkHolds, TalkSet
  <2>3. Len(s2[s5].nodes) # 0 /\ Len(s2[s5].nodes) \in Nat /\ Len(s2'[s5].nodes) = 0
    BY <2>1, <2>2
  <2>4. QED
    BY <2>1, <2>3 DEF Grown
<1>4. StoredHolds'
  BY DEF CompletionsInv, StoredHolds
<1>5. QED
  BY <1>1, <1>2, <1>3, <1>4 DEF CompletionsInv, TalksHold

\* A task is not disturbed by what happens in conversations it does not know of.
LEMMA TaskStays ==
  ASSUME NEW T, NEW U, NEW t, NEW r, r \in CallSet, TaskHolds(T, r), NewHolds(T, r),
         \A u \in Talks \ {t} : U[u] = T[u], t \notin Knows(r) \/ ~Tasks(r)
  PROVE  TaskHolds(U, r)
<1>1. CASE ~Tasks(r)
  BY <1>1 DEF TaskHolds, Tasks
<1>2. CASE t \notin Knows(r)
  <2>1. r.talk \in Talks => r.talk \in Talks \ {t}
    BY <1>2 DEF Knows
  <2>2. r.target \in Talks => r.target \in Talks \ {t}
    BY <1>2 DEF Knows
  <2>3. (r.talk \in Talks => U[r.talk] = T[r.talk]) /\ (r.target \in Talks => U[r.target] = T[r.target])
    BY <2>1, <2>2
  <2>4. r.stage \in {"sent", "replied"} => r.talk \in Talks
    BY DEF NewHolds
  <2>5. QED
    BY <2>3, <2>4 DEF TaskHolds, AskedUpTo
<1>3. QED
  BY <1>1, <1>2

LEMMA SendKeeps ==
  ASSUME CompletionsInv, NEW c \in Calls, NEW t \in Talks, Completions!Send(c, t)
  PROVE  CompletionsInv'
<1>1. PICK n : n = Len(s2[t].nodes) + 1
  OBVIOUS
<1>2. PICK node : node = Completions!Node(s2[t].current, "user", Completions!Last(s6[c].messages).text, TRUE)
  OBVIOUS
<1>3. PICK r : r = [s6[c] EXCEPT !.stage = "sent", !.talk = t, !.sent = n,
                                 !.thread = IF s6[c].repaired THEN @ ELSE t,
                                 !.first = IF s6[c].repaired THEN @ ELSE n]
  OBVIOUS
<1>4. /\ s6[c].stage = "open" /\ UNCHANGED <<s1, s3, s4, s5, s7, s8>>
      /\ s6[c].talk = None => s2[t].nodes = <<>>
      /\ s6[c].talk # None => t = s6[c].talk
  BY DEF Completions!Send
<1>5. s2' = [s2 EXCEPT ![t].nodes = Append(@, node), ![t].current = n] /\ s6' = [s6 EXCEPT ![c] = r]
  BY <1>1, <1>2, <1>3 DEF Completions!Send
<1>6. s6[c] \in CallSet /\ CallHolds(s2, s6[c]) /\ TaskHolds(s2, s6[c]) /\ s3 = c
  BY <1>4, Held
<1>7. /\ Tree(s2[t].nodes) /\ Len(s2[t].nodes) \in Nat /\ s2[t].current \in Nat /\ TalkHolds(s2[t])
      /\ n \in Nat
  BY <1>1, Held DEF TalkHolds
<1>8. node \in NodeSet /\ node.parent = s2[t].current /\ node.role = "user"
  <2>1. /\ s6[c].messages \in Seq(Says) /\ s6[c].messages # <<>>
    BY <1>4, <1>6 DEF CallHolds, NewHolds, Asks, CallSet
  <2>2. s6[c].messages[Len(s6[c].messages)] \in Says
    BY <2>1
  <2>3. Completions!Last(s6[c].messages).text \in Texts
    BY <2>2 DEF Completions!Last, Says
  <2>4. QED
    BY <1>2, <1>7, <2>3 DEF Completions!Node, NodeSet
<1>9. /\ TalksHold(s2') /\ Grown(s2, s2')
      /\ \A u \in Talks \ {t} : s2'[u] = s2[u]
      /\ Len(s2'[t].nodes) = n /\ s2'[t].current = n
      /\ s2'[t].nodes[n] = node
      /\ \A i \in 1..Len(s2[t].nodes) : s2'[t].nodes[i] = s2[t].nodes[i]
      /\ Completions!Branch(s2'[t].nodes, s2'[t].current) =
           Completions!Branch(s2[t].nodes, s2[t].current) \cup {s2'[t].current}
  <2>1. s2' = [s2 EXCEPT ![t].nodes = Append(@, node), ![t].current = Len(s2[t].nodes) + 1]
    BY <1>1, <1>5
  <2>2. /\ TalksHold(s2') /\ Grown(s2, s2')
        /\ \A u \in Talks \ {t} : s2'[u] = s2[u]
        /\ Len(s2'[t].nodes) = Len(s2[t].nodes) + 1 /\ s2'[t].current = Len(s2[t].nodes) + 1
        /\ s2'[t].nodes[Len(s2[t].nodes) + 1] = node
        /\ \A i \in 1..Len(s2[t].nodes) : s2'[t].nodes[i] = s2[t].nodes[i]
        /\ Completions!Branch(s2'[t].nodes, s2'[t].current) =
             Completions!Branch(s2[t].nodes, s2[t].current) \cup {s2'[t].current}
    BY <1>8, <2>1, TalkAdded, Zenon
  <2>3. QED
    BY <1>1, <2>2
<1>10. Tree(s2'[t].nodes)
  BY <1>9 DEF TalksHold, TalkHolds
<1>11. \A k \in 0..Len(s2[t].nodes) : Completions!Branch(s2'[t].nodes, k) = Completions!Branch(s2[t].nodes, k)
  <2>1. SUFFICES ASSUME NEW k \in 0..Len(s2[t].nodes)
                 PROVE  Completions!Branch(s2'[t].nodes, k) = Completions!Branch(s2[t].nodes, k)
    OBVIOUS
  <2>2. Len(s2[t].nodes) <= Len(s2'[t].nodes)
    BY <1>1, <1>7, <1>9
  <2>3. Tree(s2[t].nodes) /\ \A i \in 1..Len(s2[t].nodes) : s2'[t].nodes[i] = s2[t].nodes[i]
    BY <1>7, <1>9
  <2>4. QED
    BY <1>10, <2>2, <2>3, BranchStays
<1>12. \A u : Begun(s2, u) => Begun(s2', u)
  <2>1. SUFFICES ASSUME NEW u \in Talks, s2[u].nodes # <<>>, s2'[u].nodes = <<>> PROVE FALSE
    BY DEF Begun
  <2>2. CASE u = t
    BY <1>7, <1>1, <1>9, <2>1, <2>2
  <2>3. CASE u # t
    BY <1>9, <2>1, <2>3
  <2>4. QED
    BY <2>2, <2>3
<1>13. Begun(s2', t)
  BY <1>1, <1>7, <1>9 DEF Begun
<1>14. /\ r.stage = "sent" /\ r.kind = s6[c].kind /\ r.messages = s6[c].messages
       /\ r.target = s6[c].target /\ r.page = s6[c].page /\ r.talk = t
       /\ r.loading = s6[c].loading /\ r.found = s6[c].found /\ r.branch = s6[c].branch
       /\ r.sent = n /\ r.first = (IF s6[c].repaired THEN s6[c].first ELSE n)
       /\ r.thread = (IF s6[c].repaired THEN s6[c].thread ELSE t)
       /\ r.repaired = s6[c].repaired /\ r.read = s6[c].read
  BY <1>3, <1>6 DEF CallSet
<1>15. r \in CallSet
  <2>1. "sent" \in Completions!Stages
    BY DEF Completions!Stages
  <2>2. QED
    BY <1>3, <1>6, <1>7, <2>1 DEF CallSet
<1>16. /\ s6[c].page = s6[c].target
       /\ s6[c].target = Home => s6[c].talk = None /\ s6[c].loading = {} /\ s6[c].found = 0
       /\ s6[c].target # Home => s6[c].talk = s6[c].target /\ s6[c].target = t
       /\ s6[c].sent = 0
  <2>1. /\ s6[c].page = s6[c].target
        /\ s6[c].talk = IF s6[c].target = Home THEN None ELSE s6[c].target
        /\ s6[c].target = Home => s6[c].loading = {} /\ s6[c].found = 0
        /\ s6[c].sent = 0
    BY <1>4, <1>6 DEF CallHolds, OpenHolds
  <2>2. s6[c].target # Home => s6[c].target \in Talks
    BY <1>6 DEF CallSet, Completions!Pages
  <2>3. QED
    BY <1>4, <2>1, <2>2, CompletionsAssumption
<1>17. FoundHolds(s2', r)
  <2>1. CASE s6[c].target = Home
    BY <1>14, <1>16, <2>1 DEF FoundHolds
  <2>2. CASE s6[c].target # Home
    <3>1. /\ \A x \in s6[c].loading : Loads(s2[t].nodes, s6[c], x)
          /\ s6[c].found # 0 => Right(s2[t].nodes, s6[c], s6[c].found)
      BY <1>4, <1>6, <1>16, <2>2 DEF CallHolds, FoundHolds
    <3>2. ASSUME NEW x \in s6[c].loading PROVE Loads(s2'[t].nodes, r, x)
      <4>1. /\ x.loaded /\ x.current \in 0..Len(s2[t].nodes) /\ x.messages \subseteq 1..Len(s2[t].nodes)
            /\ Completions!MappingPath(s2[t].nodes, x) \subseteq s6[c].branch
        BY <1>4, <3>1 DEF Loads
      <4>2. /\ x.current \in 0..Len(s2'[t].nodes) /\ x.messages \subseteq 1..Len(s2'[t].nodes)
            /\ Completions!Branch(s2'[t].nodes, x.current) = Completions!Branch(s2[t].nodes, x.current)
        BY <1>1, <1>7, <1>9, <1>11, <4>1
      <4>4. Completions!MappingPath(s2'[t].nodes, x) = Completions!MappingPath(s2[t].nodes, x)
        BY <4>2 DEF Completions!MappingPath
      <4>3. QED
        BY <1>14, <2>2, <4>1, <4>2, <4>4 DEF Loads
    <3>3. ASSUME s6[c].found # 0 PROVE Right(s2'[t].nodes, r, s6[c].found)
      <4>1. Right(s2[t].nodes, s6[c], s6[c].found)
        BY <3>1, <3>3
      <4>2. s6[c].found \in 1..Len(s2[t].nodes) /\ s6[c].found \in 1..Len(s2'[t].nodes)
        BY <1>1, <1>7, <1>9, <4>1 DEF Right
      <4>3. s6[c].found \in 0..Len(s2[t].nodes)
        BY <4>2
      <4>4. Completions!Branch(s2[t].nodes, s6[c].found) \subseteq 1..s6[c].found
        BY <1>7, <4>3, BranchBelow
      <4>5. s6[c].sent \notin Completions!Branch(s2[t].nodes, s6[c].found)
        BY <1>16, <4>3, <4>4
      <4>6. QED
        BY <1>9, <1>14, <2>2, <4>1, <4>2, <4>5 DEF Right
    <3>4. QED
      BY <1>14, <3>2, <3>3 DEF FoundHolds
  <2>3. QED
    BY <2>1, <2>2
<1>18. CallHolds(s2', r)
  <2>1. NewHolds(s2', r)
    <3>1. NewHolds(s2, s6[c])
      BY <1>6 DEF CallHolds
    <3>2. /\ Begun(s2', r.talk) /\ Begun(s2', r.target) /\ Begun(s2', r.page)
      BY <1>12, <1>13, <1>14, <3>1 DEF NewHolds
    <3>3. QED
      BY <1>4, <1>14, <3>1, <3>2 DEF NewHolds, Asks, Answers
  <2>2. SentHolds(s2', r)
    <3>1. n \in 1..Len(s2'[t].nodes) /\ n \in Completions!Branch(s2'[t].nodes, s2'[t].current)
      BY <1>1, <1>7, <1>9
    <3>2. QED
      BY <1>14, <1>16, <3>1 DEF SentHolds
  <2>3. OpenHolds(r) /\ ReplyHolds(s2', r) /\ TurnsHold(s2', r)
    BY <1>6, <1>14 DEF CallHolds, OpenHolds, ReplyHolds, Answers, TurnsHold
  <2>4. QED
    BY <1>15, <1>17, <2>1, <2>2, <2>3 DEF CallHolds
<1>19. TaskHolds(s2', r)
  <2>1. \A i \in 1..n : i <= n
    BY <1>7
  <2>2. CASE ~s6[c].repaired
    BY <1>6, <1>9, <1>14, <2>1, <2>2 DEF TaskHolds, AskedUpTo
  <2>3. CASE s6[c].repaired
    <3>1. s6[c].kind = "task"
      BY <1>6, <2>3 DEF TaskHolds
    <3>2. ASSUME NEW i \in 1..Len(s2[t].nodes), s2[t].nodes[i].role = "user" PROVE i <= s6[c].first
      <4>1. s6[c].target # Home
        <5>1. SUFFICES ASSUME s6[c].target = Home PROVE FALSE
          OBVIOUS
        <5>2. s2[t].nodes = <<>>
          BY <1>4, <1>16, <5>1
        <5>3. QED
          BY <3>2, <5>2
      <4>2. s6[c].target \in Talks /\ s6[c].target = t
        BY <1>16, <4>1
      <4>3. QED
        BY <1>4, <1>6, <2>3, <3>2, <4>2 DEF TaskHolds, AskedUpTo
    <3>3. ASSUME NEW i \in 1..Len(s2'[t].nodes), s2'[t].nodes[i].role = "user"
          PROVE  i <= s6[c].first \/ i = n
      <4>1. CASE i \in 1..Len(s2[t].nodes)
        BY <1>9, <3>2, <3>3, <4>1
      <4>2. CASE i \notin 1..Len(s2[t].nodes)
        BY <1>1, <1>7, <1>9, <4>2
      <4>3. QED
        BY <4>1, <4>2
    <3>4. IF s6[c].target = Home THEN n = 1 ELSE t = s6[c].thread
      <4>1. CASE s6[c].target = Home
        <5>1. s2[t].nodes = <<>>
          BY <1>4, <1>16, <4>1
        <5>2. QED
          BY <1>1, <4>1, <5>1
      <4>2. CASE s6[c].target # Home
        BY <1>4, <1>6, <1>16, <2>3, <4>2 DEF TaskHolds
      <4>3. QED
        BY <4>1, <4>2
    <3>5. QED
      BY <1>14, <2>3, <3>1, <3>3, <3>4 DEF TaskHolds
  <2>4. QED
    BY <2>2, <2>3
<1>20. ASSUME NEW d \in Calls \ {c} PROVE t \notin Knows(s6[d]) \/ t \in Knows(s6[c])
  <2>1. CASE s6[c].talk = None
    <3>1. s2[t].nodes = <<>>
      BY <1>4, <2>1
    <3>2. Begun(s2, s6[d].talk) /\ Begun(s2, s6[d].target) /\ Begun(s2, s6[d].page)
      BY Held DEF CallHolds, NewHolds
    <3>3. QED
      BY <3>1, <3>2 DEF Begun, Knows
  <2>2. CASE s6[c].talk # None
    BY <1>4, <2>2 DEF Knows
  <2>3. QED
    BY <2>1, <2>2
<1>21. s6[c].kind \in {"chat", "task"}
  BY <1>4, <1>6 DEF CallHolds, NewHolds
<1>22. ASSUME NEW d \in Calls \ {c}
       PROVE  CallHolds(s2', s6[d]) /\ TaskHolds(s2', s6[d])
  <2>1. s6[d].stage # "sent" /\ s6[d] \in CallSet /\ CallHolds(s2, s6[d]) /\ TaskHolds(s2, s6[d])
    BY <1>6, Held
  <2>2. CallHolds(s2', s6[d])
    BY <1>9, <2>1, CallStays DEF CompletionsInv
  <2>3. t \notin Knows(s6[d]) \/ ~Tasks(s6[d])
    <3>1. SUFFICES ASSUME t \in Knows(s6[d]), Tasks(s6[d]) PROVE FALSE
      OBVIOUS
    <3>2. s4 = d
      BY <3>1, Held
    <3>3. ~Tasks(s6[c])
      BY <3>2, Held
    <3>4. s6[c].kind = "chat" /\ s6[d].kind = "task"
      BY <1>4, <1>21, <3>1, <3>3 DEF Tasks
    <3>5. t \in Knows(s6[c])
      BY <1>20, <3>1
    <3>6. Knows(s6[c]) \cap Knows(s6[d]) = {}
      BY <3>4 DEF CompletionsInv, ApartHolds
    <3>7. QED
      BY <3>1, <3>5, <3>6
  <2>4. NewHolds(s2, s6[d])
    BY <2>1 DEF CallHolds
  <2>5. TaskHolds(s2', s6[d])
    BY <1>9, <2>1, <2>3, <2>4, TaskStays
  <2>6. QED
    BY <2>2, <2>5
<1>23. /\ DOMAIN s6' = Calls /\ s6'[c] = r /\ \A d \in Calls \ {c} : s6'[d] = s6[d]
  BY <1>5 DEF CompletionsInv
<1>24. t = s5 => t \in Knows(s6[c])
  BY <1>4 DEF CompletionsInv, Begun, Knows
<1>25. Knows(r) \subseteq Knows(s6[c]) \cup {t}
  BY <1>14 DEF Knows
<1>26. ApartHolds'
  <2>1. SUFFICES ASSUME NEW b \in Calls, s6'[b].kind = "chat"
                 PROVE  /\ s5' \notin Knows(s6'[b])
                        /\ \A d \in Calls : s6'[d].kind = "task" => Knows(s6'[b]) \cap Knows(s6'[d]) = {}
    BY DEF ApartHolds, Knows
  <2>2. s6[b].kind = "chat" /\ s5' = s5 /\ s5 \notin Knows(s6[b])
    BY <1>4, <1>14, <1>23, <2>1 DEF CompletionsInv, ApartHolds
  <2>3. s5' \notin Knows(s6'[b])
    BY <1>23, <1>24, <1>25, <2>2
  <2>4. ASSUME NEW d \in Calls, s6'[d].kind = "task" PROVE Knows(s6'[b]) \cap Knows(s6'[d]) = {}
    <3>1. s6[d].kind = "task" /\ Knows(s6[b]) \cap Knows(s6[d]) = {} /\ b # d
      BY <1>14, <1>23, <2>1, <2>2, <2>4 DEF CompletionsInv, ApartHolds
    <3>2. CASE b = c
      <4>1. d \in Calls \ {c} /\ s6'[d] = s6[d] /\ s6'[b] = r
        BY <1>23, <3>1, <3>2
      <4>2. t \notin Knows(s6[d])
        BY <1>20, <3>1, <3>2, <4>1
      <4>3. QED
        BY <1>25, <3>1, <3>2, <4>1, <4>2
    <3>3. CASE d = c
      <4>1. b \in Calls \ {c} /\ s6'[b] = s6[b] /\ s6'[d] = r
        BY <1>23, <3>1, <3>3
      <4>2. t \notin Knows(s6[b])
        BY <1>20, <3>1, <3>3, <4>1
      <4>3. QED
        BY <1>25, <3>1, <3>3, <4>1, <4>2
    <3>4. CASE b # c /\ d # c
      BY <1>23, <3>1, <3>4
    <3>5. QED
      BY <3>2, <3>3, <3>4
  <2>5. QED
    BY <2>3, <2>4
<1>27. \A d \in Calls : /\ CallHolds(s2', s6'[d]) /\ TaskHolds(s2', s6'[d])
                        /\ s6'[d].kind = s6[d].kind
                        /\ s6'[d].stage \in {"open", "sent"} <=> s6[d].stage \in {"open", "sent"}
                        /\ Tasks(s6'[d]) <=> Tasks(s6[d])
  <2>1. SUFFICES ASSUME NEW d \in Calls
                 PROVE  /\ CallHolds(s2', s6'[d]) /\ TaskHolds(s2', s6'[d])
                        /\ s6'[d].kind = s6[d].kind
                        /\ s6'[d].stage \in {"open", "sent"} <=> s6[d].stage \in {"open", "sent"}
                        /\ Tasks(s6'[d]) <=> Tasks(s6[d])
    OBVIOUS
  <2>2. CASE d = c
    BY <1>4, <1>14, <1>18, <1>19, <1>23, <2>2 DEF Tasks
  <2>3. CASE d # c
    BY <1>22, <1>23, <2>3
  <2>4. QED
    BY <2>2, <2>3
<1>28. QED
  BY <1>4, <1>9, <1>23, <1>26, <1>27, TalksChange

\* A task is not disturbed where no user asks.
LEMMA TaskListens ==
  ASSUME NEW T, NEW U, NEW r, r \in CallSet, TaskHolds(T, r), NewHolds(T, r),
         \A u \in Talks : \A i \in 1..Len(U[u].nodes) :
           U[u].nodes[i].role = "user" => i \in 1..Len(T[u].nodes) /\ T[u].nodes[i].role = "user"
  PROVE  TaskHolds(U, r)
<1>1. r.stage \in {"sent", "replied"} => r.talk \in Talks
  BY DEF NewHolds
<1>2. QED
  BY <1>1 DEF TaskHolds, AskedUpTo

\* A call that waits for its answer receives a stream.
LEMMA StreamHolds ==
  ASSUME NEW T, TalksHold(T), NEW q, CallHolds(T, q), TaskHolds(T, q), q.stage = "sent",
         NEW n \in 1..Len(T[q.talk].nodes), q.sent \in Completions!Branch(T[q.talk].nodes, n),
         NEW r, r = [q EXCEPT !.loading = @ \cup {Completions!Streamed(n)}]
  PROVE  /\ CallHolds(T, r) /\ TaskHolds(T, r) /\ r.kind = q.kind /\ r.stage = q.stage
         /\ Knows(r) = Knows(q)
<1>1. PICK x : x = Completions!Streamed(n)
  OBVIOUS
<1>2. x = [loaded |-> FALSE, current |-> n, messages |-> {n}]
  BY <1>1 DEF Completions!Streamed
<1>3. q \in CallSet /\ q.talk \in Talks
  BY DEF CallHolds, NewHolds
<1>4. n \in Nat
  <2>1. Len(T[q.talk].nodes) \in Nat
    BY <1>3 DEF TalksHold, TalkHolds, Tree
  <2>2. QED
    BY <2>1
<1>5. x \in Responses
  BY <1>2, <1>4 DEF Responses
<1>6. PICK loading : loading = q.loading \cup {x}
  OBVIOUS
<1>7. r = [q EXCEPT !.loading = loading] /\ r \in CallSet
  <2>1. loading \in SUBSET Responses
    BY <1>3, <1>5, <1>6 DEF CallSet
  <2>2. r = [q EXCEPT !.loading = loading]
    BY <1>1, <1>6
  <2>3. QED
    BY <1>3, <2>1, <2>2 DEF CallSet
<1>8. /\ r.stage = q.stage /\ r.kind = q.kind /\ r.messages = q.messages
      /\ r.target = q.target /\ r.page = q.page /\ r.talk = q.talk
      /\ r.loading = q.loading \cup {x} /\ r.found = q.found /\ r.branch = q.branch /\ r.sent = q.sent
      /\ r.first = q.first /\ r.thread = q.thread /\ r.repaired = q.repaired /\ r.read = q.read
  BY <1>3, <1>6, <1>7 DEF CallSet
<1>9. \A k : Right(T[q.talk].nodes, q, k) => Right(T[q.talk].nodes, r, k)
  BY <1>8 DEF Right
<1>10. \A y : Loads(T[q.talk].nodes, q, y) => Loads(T[q.talk].nodes, r, y)
  BY <1>8 DEF Loads
<1>11. Loads(T[q.talk].nodes, r, x)
  BY <1>2, <1>8 DEF Loads
<1>12. FoundHolds(T, r)
  BY <1>8, <1>9, <1>10, <1>11 DEF CallHolds, FoundHolds
<1>13. NewHolds(T, r) /\ OpenHolds(r) /\ SentHolds(T, r) /\ ReplyHolds(T, r) /\ TurnsHold(T, r)
  BY <1>8 DEF CallHolds, NewHolds, OpenHolds, SentHolds, ReplyHolds, TurnsHold, Asks, Answers
<1>14. CallHolds(T, r)
  BY <1>7, <1>12, <1>13 DEF CallHolds
<1>15. TaskHolds(T, r)
  BY <1>8 DEF TaskHolds
<1>16. QED
  BY <1>8, <1>14, <1>15 DEF Knows

LEMMA SpeakKeeps ==
  ASSUME CompletionsInv, NEW t \in Talks, NEW text \in Replies, NEW shown \in BOOLEAN,
         Completions!Speak(t, text, shown)
  PROVE  CompletionsInv'
<1>1. PICK n : n = Len(s2[t].nodes) + 1
  OBVIOUS
<1>2. PICK node : node = Completions!Node(s2[t].current, "assistant", text, shown)
  OBVIOUS
<1>3. /\ UNCHANGED <<s1, s3, s4, s5, s7, s8>>
      /\ s2' = [s2 EXCEPT ![t].nodes = Append(@, node), ![t].current = Len(s2[t].nodes) + 1]
      /\ s6' = [c \in Calls |-> IF s6[c].stage = "sent" /\ s6[c].talk = t
                                THEN [s6[c] EXCEPT !.loading = @ \cup {Completions!Streamed(n)}] ELSE s6[c]]
  <2>1. UNCHANGED <<s1, s3, s4, s5, s7, s8>>
    BY DEF Completions!Speak
  <2>2. s2' = [s2 EXCEPT ![t].nodes = Append(@, node), ![t].current = Len(s2[t].nodes) + 1]
    BY <1>1, <1>2 DEF Completions!Speak
  <2>3. s6' = [c \in Calls |-> IF s6[c].stage = "sent" /\ s6[c].talk = t
                              THEN [s6[c] EXCEPT !.loading = @ \cup {Completions!Streamed(n)}] ELSE s6[c]]
    BY <1>1, Zenon DEF Completions!Speak
  <2>4. QED
    BY <2>1, <2>2, <2>3
<1>4. Len(s2[t].nodes) \in Nat /\ s2[t].current \in Nat
  BY DEF CompletionsInv, TalksHold, TalkHolds, TalkSet, Tree
<1>5. node \in NodeSet /\ node.parent = s2[t].current /\ node.role = "assistant"
  BY <1>2, <1>4 DEF Completions!Node, NodeSet, Texts
<1>6. /\ TalksHold(s2') /\ Grown(s2, s2')
      /\ \A u \in Talks \ {t} : s2'[u] = s2[u]
      /\ Len(s2'[t].nodes) = Len(s2[t].nodes) + 1 /\ s2'[t].current = Len(s2[t].nodes) + 1
      /\ s2'[t].nodes[Len(s2[t].nodes) + 1] = node
      /\ \A i \in 1..Len(s2[t].nodes) : s2'[t].nodes[i] = s2[t].nodes[i]
      /\ Completions!Branch(s2'[t].nodes, s2'[t].current) =
           Completions!Branch(s2[t].nodes, s2[t].current) \cup {s2'[t].current}
  BY <1>3, <1>5, TalkAdded, Zenon
<1>7. ASSUME NEW u \in Talks, NEW i \in 1..Len(s2'[u].nodes), s2'[u].nodes[i].role = "user"
      PROVE  i \in 1..Len(s2[u].nodes) /\ s2[u].nodes[i].role = "user"
  <2>1. CASE u = t
    <3>1. i # Len(s2[t].nodes) + 1
      BY <1>5, <1>6, <1>7, <2>1
    <3>2. i \in 1..Len(s2[t].nodes)
      BY <1>4, <1>6, <2>1, <3>1
    <3>3. QED
      BY <1>6, <1>7, <2>1, <3>2
  <2>2. CASE u # t
    BY <1>6, <1>7, <2>2
  <2>3. QED
    BY <2>1, <2>2
<1>8. ASSUME NEW c \in Calls
      PROVE  /\ CallHolds(s2', s6'[c]) /\ TaskHolds(s2', s6'[c])
             /\ s6'[c].kind = s6[c].kind /\ s6'[c].stage = s6[c].stage
             /\ Knows(s6'[c]) = Knows(s6[c])
  <2>1. CallHolds(s2, s6[c]) /\ TaskHolds(s2, s6[c]) /\ s6[c] \in CallSet /\ NewHolds(s2, s6[c])
    BY Held DEF CallHolds
  <2>2. s6[c].stage = "sent" =>
          s6[c].sent \in Completions!Branch(s2'[s6[c].talk].nodes, s2'[s6[c].talk].current)
    <3>1. SUFFICES ASSUME s6[c].stage = "sent"
                   PROVE  s6[c].sent \in Completions!Branch(s2'[s6[c].talk].nodes, s2'[s6[c].talk].current)
      OBVIOUS
    <3>2. /\ s6[c].talk \in Talks
          /\ s6[c].sent \in Completions!Branch(s2[s6[c].talk].nodes, s2[s6[c].talk].current)
      BY <2>1, <3>1 DEF CallHolds, NewHolds, SentHolds
    <3>3. CASE s6[c].talk = t
      BY <1>6, <3>2, <3>3
    <3>4. CASE s6[c].talk # t
      BY <1>6, <3>2, <3>4
    <3>5. QED
      BY <3>3, <3>4
  <2>3. CallHolds(s2', s6[c])
    BY <1>6, <2>1, <2>2, CallStays DEF CompletionsInv
  <2>4. TaskHolds(s2', s6[c])
    BY <1>7, <2>1, TaskListens
  <2>5. CASE s6[c].stage = "sent" /\ s6[c].talk = t
    <3>1. PICK r : r = [s6[c] EXCEPT !.loading = @ \cup {Completions!Streamed(n)}]
      OBVIOUS
    <3>2. s6'[c] = r
      BY <1>3, <2>5, <3>1
    <3>3. /\ n \in 1..Len(s2'[s6[c].talk].nodes)
          /\ s6[c].sent \in Completions!Branch(s2'[s6[c].talk].nodes, n)
      BY <1>1, <1>4, <1>6, <2>2, <2>5
    <3>4. QED
      BY <1>6, <2>3, <2>4, <2>5, <3>1, <3>2, <3>3, StreamHolds
  <2>6. CASE ~(s6[c].stage = "sent" /\ s6[c].talk = t)
    <3>1. s6'[c] = s6[c]
      BY <1>3, <2>6
    <3>2. QED
      BY <2>3, <2>4, <3>1
  <2>7. QED
    BY <2>5, <2>6
<1>9. DOMAIN s6' = Calls
  BY <1>3
<1>10. ApartHolds'
  <2>1. SUFFICES ASSUME NEW b \in Calls, s6'[b].kind = "chat"
                 PROVE  /\ s5' \notin Knows(s6'[b])
                        /\ \A d \in Calls : s6'[d].kind = "task" => Knows(s6'[b]) \cap Knows(s6'[d]) = {}
    BY DEF ApartHolds, Knows
  <2>2. QED
    BY <1>3, <1>8, <2>1 DEF CompletionsInv, ApartHolds
<1>11. \A c \in Calls : Tasks(s6'[c]) <=> Tasks(s6[c])
  BY <1>8 DEF Tasks
<1>12. QED
  BY <1>3, <1>6, <1>8, <1>9, <1>10, <1>11, TalksChange

LEMMA SwitchKeeps ==
  ASSUME CompletionsInv, NEW t \in Talks, NEW n, Completions!Switch(t, n)
  PROVE  CompletionsInv'
<1>1. /\ n \in 1..Len(s2[t].nodes) /\ s2' = [s2 EXCEPT ![t].current = n]
      /\ \A c \in Calls : s6[c].talk = t => s6[c].stage \notin {"open", "sent"}
      /\ UNCHANGED <<s1, s3, s4, s5, s6, s7, s8>>
  BY DEF Completions!Switch
<1>2. DOMAIN s2 = Talks /\ \A u \in Talks : TalkHolds(s2[u]) /\ Tree(s2[u].nodes) /\ Len(s2[u].nodes) \in Nat
  BY DEF CompletionsInv, TalksHold, TalkHolds, Tree
<1>3. s2[t] \in TalkSet /\ n \in Nat /\ n # 0
  BY <1>1, <1>2 DEF TalkHolds
<1>4. /\ s2'[t].nodes = s2[t].nodes /\ s2'[t].current = n /\ s2'[t] \in TalkSet
      /\ \A u \in Talks \ {t} : s2'[u] = s2[u]
  BY <1>1, <1>2, <1>3 DEF TalkSet
<1>5. TalkHolds(s2'[t])
  BY <1>1, <1>2, <1>3, <1>4 DEF TalkHolds
<1>6. TalksHold(s2')
  BY <1>1, <1>2, <1>4, <1>5 DEF TalksHold
<1>7. \A u \in Talks : s2'[u].nodes = s2[u].nodes
  BY <1>4
<1>8. Grown(s2, s2')
  BY <1>2, <1>7 DEF Grown
<1>9. ASSUME NEW c \in Calls PROVE CallHolds(s2', s6'[c]) /\ TaskHolds(s2', s6'[c])
  <2>1. CallHolds(s2, s6[c]) /\ TaskHolds(s2, s6[c]) /\ s6[c] \in CallSet /\ NewHolds(s2, s6[c])
    BY Held DEF CallHolds
  <2>2. s6[c].stage = "sent" =>
          s6[c].sent \in Completions!Branch(s2'[s6[c].talk].nodes, s2'[s6[c].talk].current)
    BY <1>1, <1>4, <2>1 DEF CallHolds, NewHolds, SentHolds
  <2>3. CallHolds(s2', s6[c])
    BY <1>6, <1>8, <2>1, <2>2, CallStays DEF CompletionsInv
  <2>4. TaskHolds(s2', s6[c])
    BY <1>7, <2>1, TaskListens
  <2>5. QED
    BY <1>1, <2>3, <2>4
<1>10. DOMAIN s6' = Calls /\ ApartHolds'
  BY <1>1 DEF CompletionsInv, ApartHolds, Knows
<1>11. QED
  BY <1>1, <1>6, <1>8, <1>9, <1>10, TalksChange

LEMMA CompletionsKeep ==
  ASSUME CompletionsInv, [Completions!Next]_(Completions!vars)
  PROVE  CompletionsInv'
<1>1. CASE UNCHANGED Completions!vars
  <2>1. UNCHANGED <<s1, s2, s3, s4, s5, s6, s7, s8>>
    BY <1>1 DEF Completions!vars
  <2>2. TalksHold(s2') /\ Grown(s2, s2')
    BY <2>1 DEF CompletionsInv, TalksHold, TalkHolds, Tree, Grown
  <2>3. /\ DOMAIN s6' = Calls
        /\ \A c \in Calls : CallHolds(s2', s6'[c]) /\ TaskHolds(s2', s6'[c])
    BY <2>1 DEF CompletionsInv
  <2>4. ApartHolds'
    BY <2>1 DEF CompletionsInv, ApartHolds, Knows
  <2>5. QED
    BY <2>1, <2>2, <2>3, <2>4, TalksChange
<1>2. ASSUME NEW c \in Calls, Completions!ChatStep(c) PROVE CompletionsInv'
  BY <1>2, AskKeeps, MergeKeeps, SnapshotKeeps DEF Completions!ChatStep
<1>3. ASSUME NEW c \in Calls, Completions!TaskStep(c) PROVE CompletionsInv'
  BY <1>3, BeginKeeps, KeepKeeps DEF Completions!TaskStep
<1>4. ASSUME NEW c \in Calls, Completions!BrowserStep(c) PROVE CompletionsInv'
  BY <1>4, OpenKeeps, FailKeeps, RecordKeeps, SendKeeps, NavigateKeeps, ReturnKeeps, GiveUpKeeps
  DEF Completions!BrowserStep
<1>5. ASSUME NEW t \in Talks, Completions!ProviderStep(t) PROVE CompletionsInv'
  BY <1>5, SpeakKeeps, SwitchKeeps DEF Completions!ProviderStep
<1>6. QED
  BY <1>1, <1>2, <1>3, <1>4, <1>5 DEF Completions!Next

LEMMA CompletionsTyped == CompletionsInv => Completions!TypeOK
<1>. SUFFICES ASSUME CompletionsInv PROVE Completions!TypeOK
  OBVIOUS
<1>1. \A t \in Talks : s2[t].current \in 0..Len(s2[t].nodes)
  BY DEF CompletionsInv, TalksHold, TalkHolds
<1>2. ASSUME NEW c \in Calls
      PROVE  /\ s6[c].stage \in Completions!Stages
             /\ s6[c].page \in Completions!Pages /\ s6[c].target \in Completions!Pages
             /\ s6[c].talk \in Talks \cup {None}
             /\ s6[c].stage \in {"open", "sent"} <=> s3 = c
             /\ s6[c].kind = "task" =>
                  (s6[c].stage \in {"queued", "open", "sent", "replied"} <=> s4 = c)
  <2>1. s6[c] \in CallSet
    BY Held
  <2>2. /\ s6[c].stage \in Completions!Stages
        /\ s6[c].page \in Completions!Pages /\ s6[c].target \in Completions!Pages
        /\ s6[c].talk \in Talks \cup {None}
    BY <2>1 DEF CallSet
  <2>3. QED
    BY <2>2, Held DEF Tasks
<1>3. QED
  BY <1>1, <1>2 DEF CompletionsInv, Completions!TypeOK

LEMMA CompletionsAnswer == CompletionsInv =>
  Completions!OwnAnswer /\ Completions!ShownAnswer /\ Completions!RepairsOwn /\ Completions!TurnsOnce
<1>. SUFFICES ASSUME CompletionsInv
              PROVE  /\ Completions!OwnAnswer /\ Completions!ShownAnswer
                     /\ Completions!RepairsOwn /\ Completions!TurnsOnce
  OBVIOUS
<1>1. ASSUME NEW c \in Calls, Completions!Answered(c)
      PROVE  Right(s2[s6[c].talk].nodes, s6[c], s6[c].reply)
  BY <1>1, Held DEF Completions!Answered, CallHolds, ReplyHolds
<1>2. Completions!OwnAnswer /\ Completions!ShownAnswer
  BY <1>1 DEF Completions!OwnAnswer, Completions!ShownAnswer, Right
<1>3. Completions!RepairsOwn
  BY Held DEF TaskHolds, Completions!RepairsOwn
<1>4. Completions!TurnsOnce
  BY Held DEF CallHolds, TurnsHold, Completions!TurnsOnce, Completions!ReplyTurn
<1>5. QED
  BY <1>2, <1>3, <1>4


------------------------------------------------------------------------------
(* The semantic index. *)

NoteOf(stamp) == IF stamp.visible THEN stamp ELSE None

\* What a round works on: chunks to forget, and a record loaded and then written.
RoundHolds ==
  sync # Idle =>
    /\ sync.obsolete \subseteq Chunks
    /\ sync.pc = "forget" => sync.key \in Chunks
    /\ sync.pc \in {"call", "store"} => sync.key \in sync.dirty /\ sync.stamp \in Stamps
    /\ sync.pc = "store" => note[sync.key] = NoteOf(sync.stamp)

\* While no call has failed, every fingerprint is that of the note.
SourcesHold ==
  failures = 0 /\ ~replaced =>
    \A k \in Keys : fingerprint[k] \in Stamps /\ ~Working(k) => note[k] = NoteOf(fingerprint[k])

\* The fingerprints of a memory never are ahead of it; one that is current goes with its
\* note, and is not current while the memory waits to be written.
MemoryHolds(r) ==
  /\ fingerprint[r] \in Stamps => fingerprint[r].content <= row[r].content
  /\ sync # Idle /\ r \in sync.dirty => fingerprint[r] # row[r]
  /\ sync # Idle /\ sync.pc \in {"call", "store"} /\ sync.key = r => sync.stamp.content <= row[r].content
  /\ ~replaced /\ fingerprint[r] = row[r] => note[r] = NoteOf(row[r])

Memory(r) == r \in Records \ Chunks /\ kind[r] = "memory"

IndexInv ==
  /\ TypeOK
  /\ RoundHolds
  /\ SourcesHold
  /\ \A r \in Records : Memory(r) => MemoryHolds(r)

LEMMA StampTypes ==
  /\ None \notin Stamps /\ Rebuild \notin Stamps
  /\ \A s \in Stamps : s.content \in Nat /\ s.visible \in BOOLEAN
BY ProjectionAssumption, StampAssumption DEF Stamps, Rebuild

LEMMA IndexStart == Init => IndexInv
<1>. SUFFICES ASSUME Init PROVE IndexInv
  OBVIOUS
<1>1. row \in [Records -> Stamps] /\ sync = Idle
  <2>1. [content : Contents, visible : {TRUE}] \subseteq Stamps
    BY DEF Stamps
  <2>. HIDE DEF Stamps
  <2>2. QED
    BY <2>1 DEF Init
<1>2. TypeOK
  <2>1. fingerprint \in [Keys -> Stamps \cup {Rebuild, None}] /\ note \in [Keys -> Stamps \cup {None}]
    BY DEF Init
  <2>2. failures \in 0..MaxFailures /\ rebuilds \in 0..MaxRebuilds
    BY ProjectionAssumption DEF Init
  <2>3. kind \in [Records -> Kinds] /\ replaced \in BOOLEAN /\ query = Idle
    BY DEF Init
  <2>4. QED
    BY <1>1, <2>1, <2>2, <2>3 DEF TypeOK
<1>3. \A k \in Keys : fingerprint[k] \notin Stamps
  BY StampTypes DEF Init
<1>4. \A r \in Records : MemoryHolds(r)
  BY <1>1, <1>3 DEF MemoryHolds, Keys
<1>5. QED
  BY <1>1, <1>2, <1>3, <1>4 DEF IndexInv, RoundHolds, SourcesHold

\* A hit of an index that holds it shows the record as it is now.
LEMMA IndexHolds == IndexInv => TypeOK /\ NotesCurrent
<1>. SUFFICES ASSUME IndexInv, NEW k \in Wanted, Acknowledged(k),
                     kind[SourceOf(k)] = "memory" \/ failures = 0
              PROVE  NoteCurrent(k)
  BY DEF IndexInv, NotesCurrent
<1>1. k \in Keys /\ SourceOf(k) \in Records /\ Stamp(k) \in Stamps
      /\ ~replaced /\ fingerprint[k] = Stamp(k) /\ ~Working(k)
  BY DEF Wanted, Keys, Chunks, SourceOf, Stamp, Acknowledged, IndexInv, TypeOK
<1>2. CASE failures = 0
  BY <1>1, <1>2 DEF IndexInv, SourcesHold, NoteCurrent, NoteOf
<1>3. CASE kind[SourceOf(k)] = "memory"
  <2>1. k \notin Chunks
    BY <1>3 DEF Wanted, Loadable, SourceOf
  <2>2. Memory(k) /\ Stamp(k) = row[k]
    BY <1>1, <1>3, <2>1 DEF SourceOf, Memory, Stamp
  <2>3. QED
    BY <1>1, <2>2 DEF IndexInv, MemoryHolds, NoteCurrent, NoteOf, Memory
<1>4. QED
  BY <1>2, <1>3

\* The ledger changes: a memory only grows.
LEMMA ChangeKeeps ==
  ASSUME IndexInv, NEW r \in Records, NEW stamp \in Stamps, Change(r, stamp)
  PROVE  IndexInv'
<1>1. /\ row' = [row EXCEPT ![r] = stamp] /\ row \in [Records -> Stamps]
      /\ kind[r] = "memory" => stamp.content > row[r].content
      /\ UNCHANGED <<kind, fingerprint, note, sync, replaced, failures, rebuilds, query>>
  BY DEF Change, indexVars, IndexInv, TypeOK
<1>2. TypeOK'
  BY <1>1 DEF IndexInv, TypeOK
<1>3. RoundHolds' /\ SourcesHold'
  BY <1>1 DEF IndexInv, RoundHolds, SourcesHold, Working
<1>4. ASSUME NEW q \in Records, Memory(q)' PROVE MemoryHolds(q)'
  <2>1. Memory(q) /\ MemoryHolds(q)
    BY <1>1, <1>4 DEF Memory, IndexInv
  <2>2. CASE q # r
    BY <1>1, <2>1, <2>2 DEF MemoryHolds
  <2>3. CASE q = r
    <3>1. row'[r] = stamp /\ stamp.content > row[r].content /\ row[r] \in Stamps
      BY <1>1, <2>1, <2>3 DEF Memory
    <3>2. fingerprint[r] # stamp
      BY <2>1, <2>3, <3>1, StampTypes DEF MemoryHolds
    <3>3. fingerprint[r] \in Stamps => fingerprint[r].content <= stamp.content
      BY <2>1, <2>3, <3>1, StampTypes DEF MemoryHolds
    <3>4. sync # Idle /\ sync.pc \in {"call", "store"} /\ sync.key = r
          => sync.stamp.content <= stamp.content
      BY <2>1, <2>3, <3>1, StampTypes DEF MemoryHolds, IndexInv, RoundHolds
    <3>5. QED
      BY <1>1, <2>3, <3>1, <3>2, <3>3, <3>4 DEF MemoryHolds
  <2>4. QED
    BY <2>2, <2>3
<1>5. QED
  BY <1>2, <1>3, <1>4 DEF IndexInv

\* An empty index, and the rebuild that is asked for after it.
LEMMA ReplaceKeeps ==
  ASSUME IndexInv, Replace \/ RequestRebuild
  PROVE  IndexInv'
<1>1. CASE Replace
  <2>1. /\ sync = Idle /\ note' = [k \in Keys |-> None] /\ replaced' = TRUE
        /\ rebuilds < MaxRebuilds /\ rebuilds' = rebuilds + 1
        /\ UNCHANGED <<kind, row, fingerprint, sync, failures, query>>
    BY <1>1 DEF Replace
  <2>2. TypeOK'
    BY <2>1, ProjectionAssumption DEF IndexInv, TypeOK
  <2>3. RoundHolds' /\ SourcesHold'
    BY <2>1 DEF RoundHolds, SourcesHold
  <2>4. \A q \in Records : Memory(q)' => MemoryHolds(q)'
    BY <2>1 DEF IndexInv, Memory, MemoryHolds
  <2>5. QED
    BY <2>2, <2>3, <2>4 DEF IndexInv
<1>2. CASE RequestRebuild
  <2>1. /\ fingerprint' = [k \in Keys |-> IF fingerprint[k] = None THEN None ELSE Rebuild]
        /\ replaced' = FALSE
        /\ UNCHANGED <<kind, row, note, sync, failures, rebuilds, query>>
    BY <1>2 DEF RequestRebuild
  <2>2. TypeOK'
    BY <2>1 DEF IndexInv, TypeOK
  <2>3. \A k \in Keys : fingerprint'[k] \notin Stamps
    BY <2>1, StampTypes
  <2>4. RoundHolds' /\ SourcesHold'
    BY <2>1, <2>3 DEF IndexInv, RoundHolds, SourcesHold
  <2>5. ASSUME NEW q \in Records, Memory(q)' PROVE MemoryHolds(q)'
    <3>1. MemoryHolds(q) /\ row[q] \in Stamps /\ fingerprint'[q] \notin Stamps
      BY <2>1, <2>3, <2>5 DEF IndexInv, Memory, TypeOK, Keys
    <3>2. QED
      BY <2>1, <3>1 DEF MemoryHolds
  <2>6. QED
    BY <2>2, <2>4, <2>5 DEF IndexInv
<1>3. QED
  BY <1>1, <1>2

\* A round as it goes on; everything it reads and writes.
LEMMA RoundType ==
  ASSUME IndexInv, sync.pc \in {"obsolete", "forget", "dirty", "call", "store"}
  PROVE  sync # Idle /\ sync \in Rounds /\ RoundHolds
BY DEF Idle, IndexInv, TypeOK

\* A step of a round that changes neither the ledger nor what is replaced.
LEMMA RoundKeeps ==
  ASSUME IndexInv, SyncStep, failures' = failures, NEW s, sync' = s, s \in Rounds \cup {Idle},
         fingerprint' \in [Keys -> Stamps \cup {Rebuild, None}],
         note' \in [Keys -> Stamps \cup {None}],
         RoundHolds', SourcesHold',
         \A r \in Records : Memory(r) => MemoryHolds(r)'
  PROVE  IndexInv'
<1>1. UNCHANGED <<kind, row, replaced, rebuilds, query, failures>>
  BY DEF SyncStep
<1>2. TypeOK'
  BY <1>1 DEF IndexInv, TypeOK
<1>3. \A r \in Records : Memory(r)' => MemoryHolds(r)'
  BY <1>1 DEF Memory
<1>4. QED
  BY <1>2, <1>3 DEF IndexInv

LEMMA BatchesAreParts == \A keys : \A b \in Batches(keys) : b \subseteq keys
BY DEF Batches

\* A round starts with chunks that have gone and records whose fingerprint is not theirs.
LEMMA ScanKeeps ==
  ASSUME IndexInv, Scan
  PROVE  IndexInv'
<1>1. PICK o \in Batches(Obsolete), d \in Batches(Dirty) :
        sync' = [pc |-> "obsolete", obsolete |-> o, dirty |-> d, key |-> None, stamp |-> None]
  BY DEF Scan
<1>2. /\ sync = Idle /\ SyncStep /\ UNCHANGED <<fingerprint, note, failures>>
      /\ UNCHANGED <<row, replaced, kind>>
  BY DEF Scan, SyncStep
<1>3. o \subseteq Chunks \ Wanted /\ d \subseteq Wanted /\ \A k \in d : fingerprint[k] # Stamp(k)
  BY BatchesAreParts DEF Obsolete, Dirty
<1>4. Wanted \subseteq Keys /\ Chunks \subseteq Keys
  BY DEF Wanted, Keys
<1>5. sync' \in Rounds /\ sync'.pc = "obsolete" /\ sync'.obsolete = o /\ sync'.dirty = d
  BY <1>1, <1>3, <1>4 DEF Rounds
<1>6. RoundHolds'
  BY <1>3, <1>5 DEF RoundHolds
<1>7. SourcesHold'
  BY <1>2, <1>5 DEF IndexInv, SourcesHold, Working
<1>8. ASSUME NEW r \in Records, Memory(r) PROVE MemoryHolds(r)'
  <2>1. MemoryHolds(r) /\ Stamp(r) = row[r]
    BY <1>8 DEF IndexInv, Memory, Stamp, SourceOf
  <2>2. r \in d => fingerprint[r] # row[r]
    BY <1>3, <2>1
  <2>3. QED
    BY <1>2, <1>5, <2>1, <2>2 DEF MemoryHolds
<1>9. QED
  BY <1>2, <1>5, <1>6, <1>7, <1>8, RoundKeeps DEF IndexInv, TypeOK

\* A chunk that is forgotten is not a record.
LEMMA ForgetKeeps ==
  ASSUME IndexInv, (\E k \in Keys : RemoveObsolete(k)) \/ Forget
  PROVE  IndexInv'
<1>1. ASSUME NEW k \in Keys, RemoveObsolete(k) PROVE IndexInv'
  <2>1. /\ sync.pc = "obsolete" /\ k \in sync.obsolete /\ note' = [note EXCEPT ![k] = None]
        /\ sync' = [sync EXCEPT !.pc = "forget", !.key = k]
        /\ SyncStep /\ UNCHANGED <<fingerprint, failures, row, replaced>>
    BY <1>1 DEF RemoveObsolete, SyncStep
  <2>2. sync # Idle /\ sync \in Rounds /\ RoundHolds
    BY <2>1, RoundType
  <2>3. /\ sync' \in Rounds /\ sync'.pc = "forget" /\ sync'.key = k /\ sync'.dirty = sync.dirty
        /\ sync'.obsolete = sync.obsolete /\ sync' # Idle
    BY <2>1, <2>2 DEF Rounds, Idle
  <2>4. k \in Chunks
    BY <2>1, <2>2 DEF RoundHolds
  <2>5. RoundHolds'
    BY <2>2, <2>3, <2>4 DEF RoundHolds
  <2>6. SourcesHold'
    <3>1. \A h \in Keys : ~Working(h)' => h # k /\ ~Working(h)
      BY <2>1, <2>3 DEF Working
    <3>2. QED
      BY <2>1, <3>1 DEF IndexInv, SourcesHold, TypeOK
  <2>7. ASSUME NEW r \in Records, Memory(r) PROVE MemoryHolds(r)'
    <3>1. MemoryHolds(r) /\ r # k /\ r \in Keys
      BY <2>4, <2>7 DEF IndexInv, Memory, Keys
    <3>2. note'[r] = note[r]
      BY <2>1, <3>1 DEF IndexInv, TypeOK
    <3>3. QED
      BY <2>1, <2>2, <2>3, <3>1, <3>2 DEF MemoryHolds
  <2>8. QED
    BY <2>1, <2>3, <2>5, <2>6, <2>7, RoundKeeps DEF IndexInv, TypeOK
<1>2. CASE Forget
  <2>1. /\ sync.pc = "forget" /\ fingerprint' = [fingerprint EXCEPT ![sync.key] = None]
        /\ sync' = [sync EXCEPT !.pc = "obsolete", !.obsolete = @ \ {sync.key}]
        /\ SyncStep /\ UNCHANGED <<note, failures, row, replaced>>
    BY <1>2 DEF Forget, SyncStep
  <2>2. sync # Idle /\ sync \in Rounds /\ RoundHolds
    BY <2>1, RoundType
  <2>3. /\ sync' \in Rounds /\ sync'.pc = "obsolete" /\ sync'.dirty = sync.dirty
        /\ sync'.obsolete \subseteq sync.obsolete /\ sync' # Idle
    BY <2>1, <2>2 DEF Rounds, Idle
  <2>4. sync.key \in Chunks /\ sync.key \in Keys
    BY <2>1, <2>2 DEF RoundHolds, Keys
  <2>5. RoundHolds'
    BY <2>2, <2>3 DEF RoundHolds
  <2>6. SourcesHold'
    <3>1. \A h \in Keys : fingerprint'[h] \in Stamps => fingerprint'[h] = fingerprint[h] /\ ~Working(h)
      BY <2>1, <2>4, StampTypes DEF IndexInv, TypeOK, Working
    <3>2. QED
      BY <2>1, <3>1 DEF IndexInv, SourcesHold, TypeOK
  <2>7. ASSUME NEW r \in Records, Memory(r) PROVE MemoryHolds(r)'
    <3>1. MemoryHolds(r) /\ r # sync.key /\ r \in Keys
      BY <2>4, <2>7 DEF IndexInv, Memory, Keys
    <3>2. fingerprint'[r] = fingerprint[r]
      BY <2>1, <3>1 DEF IndexInv, TypeOK
    <3>3. QED
      BY <2>1, <2>2, <2>3, <3>1, <3>2 DEF MemoryHolds
  <2>8. QED
    BY <2>1, <2>3, <2>5, <2>6, <2>7, RoundKeeps DEF IndexInv, TypeOK
<1>3. QED
  BY <1>1, <1>2

\* The record is loaded as it is now, or passed over.
LEMMA LoadKeeps ==
  ASSUME IndexInv, NEW k \in Keys, Load(k)
  PROVE  IndexInv'
<1>1. /\ sync.pc \in {"obsolete", "dirty"} /\ k \in sync.dirty
      /\ sync' = IF Loadable(k)
                 THEN [sync EXCEPT !.pc = "call", !.key = k, !.stamp = Stamp(k)]
                 ELSE [sync EXCEPT !.pc = "dirty", !.dirty = @ \ {k}]
      /\ SyncStep /\ UNCHANGED <<fingerprint, note, failures, row, replaced>>
  BY DEF Load, SyncStep
<1>2. sync # Idle /\ sync \in Rounds /\ RoundHolds
  BY <1>1, RoundType
<1>3. Loadable(k) => Stamp(k) \in Stamps
  BY DEF Loadable, Stamp, SourceOf, Keys, Chunks, IndexInv, TypeOK
<1>4. /\ sync' \in Rounds /\ sync' # Idle
      /\ sync'.obsolete = sync.obsolete /\ sync'.dirty \subseteq sync.dirty
      /\ \/ sync'.pc = "dirty"
         \/ /\ Loadable(k) /\ sync'.pc = "call" /\ sync'.key = k /\ sync'.stamp = Stamp(k)
            /\ sync'.dirty = sync.dirty
  BY <1>1, <1>2, <1>3 DEF Rounds, Idle
<1>5. RoundHolds'
  BY <1>1, <1>2, <1>3, <1>4 DEF RoundHolds
<1>6. SourcesHold'
  <2>1. \A h \in Keys : ~Working(h)
    BY <1>1 DEF Working
  <2>2. QED
    BY <1>1, <2>1 DEF IndexInv, SourcesHold
<1>7. ASSUME NEW r \in Records, Memory(r) PROVE MemoryHolds(r)'
  <2>1. MemoryHolds(r) /\ Stamp(r) = row[r] /\ row[r] \in Stamps
    BY <1>7 DEF IndexInv, Memory, Stamp, SourceOf, TypeOK
  <2>2. QED
    BY <1>1, <1>2, <1>4, <2>1, StampTypes DEF MemoryHolds
<1>8. QED
  BY <1>1, <1>4, <1>5, <1>6, <1>7, RoundKeeps DEF IndexInv, TypeOK

\* What is written to the index is what was loaded.
LEMMA NotedType ==
  ASSUME IndexInv, sync.pc \in {"call", "store"}
  PROVE  /\ sync.key \in Keys /\ Noted \in [Keys -> Stamps \cup {None}]
         /\ Noted[sync.key] = NoteOf(sync.stamp)
         /\ \A k \in Keys : k # sync.key => Noted[k] = note[k]
<1>1. sync \in Rounds /\ sync.key \in sync.dirty /\ sync.stamp \in Stamps
  BY RoundType DEF RoundHolds
<1>2. sync.key \in Keys
  BY <1>1 DEF Rounds
<1>3. QED
  BY <1>1, <1>2 DEF Noted, NoteOf, IndexInv, TypeOK

LEMMA CallKeeps ==
  ASSUME IndexInv, Call
  PROVE  IndexInv'
<1>1. /\ sync.pc = "call" /\ note' = Noted /\ sync' = [sync EXCEPT !.pc = "store"]
      /\ SyncStep /\ UNCHANGED <<fingerprint, failures, row, replaced>>
  BY DEF Call, SyncStep
<1>2. sync # Idle /\ sync \in Rounds /\ RoundHolds
  BY <1>1, RoundType
<1>3. /\ sync' \in Rounds /\ sync'.pc = "store" /\ sync'.dirty = sync.dirty /\ sync'.key = sync.key
      /\ sync'.obsolete = sync.obsolete /\ sync'.stamp = sync.stamp /\ sync' # Idle
  BY <1>1, <1>2 DEF Rounds, Idle
<1>4. /\ note' \in [Keys -> Stamps \cup {None}] /\ note'[sync.key] = NoteOf(sync.stamp)
      /\ \A k \in Keys : k # sync.key => note'[k] = note[k]
  BY <1>1, NotedType
<1>5. RoundHolds'
  BY <1>1, <1>2, <1>3, <1>4 DEF RoundHolds, NoteOf
<1>6. SourcesHold'
  <2>1. \A h \in Keys : ~Working(h)' => h # sync.key /\ ~Working(h)
    BY <1>3 DEF Working
  <2>2. QED
    BY <1>1, <1>4, <2>1 DEF IndexInv, SourcesHold
<1>7. ASSUME NEW r \in Records, Memory(r) PROVE MemoryHolds(r)'
  <2>1. MemoryHolds(r) /\ r \in Keys
    BY <1>7 DEF IndexInv, Memory, Keys
  <2>2. r = sync.key => fingerprint[r] # row[r]
    BY <1>1, <1>2, <2>1 DEF MemoryHolds, RoundHolds
  <2>3. QED
    BY <1>1, <1>2, <1>3, <1>4, <2>1, <2>2 DEF MemoryHolds
<1>8. QED
  BY <1>1, <1>3, <1>4, <1>5, <1>6, <1>7, RoundKeeps DEF IndexInv, TypeOK

LEMMA StoreKeeps ==
  ASSUME IndexInv, Store
  PROVE  IndexInv'
<1>1. /\ sync.pc = "store" /\ fingerprint' = [fingerprint EXCEPT ![sync.key] = sync.stamp]
      /\ sync' = [sync EXCEPT !.pc = "dirty", !.dirty = @ \ {sync.key}]
      /\ SyncStep /\ UNCHANGED <<note, failures, row, replaced>>
  BY DEF Store, SyncStep, StampWritten
<1>2. sync # Idle /\ sync \in Rounds /\ RoundHolds
  BY <1>1, RoundType
<1>3. /\ sync' \in Rounds /\ sync'.pc = "dirty" /\ sync'.dirty = sync.dirty \ {sync.key}
      /\ sync'.obsolete = sync.obsolete /\ sync' # Idle
  BY <1>1, <1>2 DEF Rounds, Idle
<1>4. sync.key \in Keys /\ sync.stamp \in Stamps /\ note[sync.key] = NoteOf(sync.stamp)
  BY <1>1, <1>2, NotedType DEF RoundHolds
<1>5. /\ fingerprint'[sync.key] = sync.stamp
      /\ \A k \in Keys : k # sync.key => fingerprint'[k] = fingerprint[k]
      /\ fingerprint' \in [Keys -> Stamps \cup {Rebuild, None}]
  BY <1>1, <1>4 DEF IndexInv, TypeOK
<1>6. RoundHolds'
  BY <1>2, <1>3 DEF RoundHolds
<1>7. SourcesHold'
  <2>1. \A h \in Keys : h # sync.key => ~Working(h)
    BY DEF Working
  <2>2. QED
    BY <1>1, <1>4, <1>5, <2>1 DEF IndexInv, SourcesHold, NoteOf
<1>8. ASSUME NEW r \in Records, Memory(r) PROVE MemoryHolds(r)'
  <2>1. MemoryHolds(r) /\ r \in Keys
    BY <1>8 DEF IndexInv, Memory, Keys
  <2>2. CASE r = sync.key
    BY <1>1, <1>2, <1>3, <1>4, <1>5, <2>1, <2>2 DEF MemoryHolds, NoteOf
  <2>3. CASE r # sync.key
    BY <1>1, <1>2, <1>3, <1>5, <2>1, <2>3 DEF MemoryHolds
  <2>4. QED
    BY <2>2, <2>3
<1>9. QED
  BY <1>1, <1>3, <1>5, <1>6, <1>7, <1>8, RoundKeeps DEF IndexInv, TypeOK

\* A round that ends, or is ended by a failure.
LEMMA EndKeeps ==
  ASSUME IndexInv, Finish \/ Fail
  PROVE  IndexInv'
<1>1. CASE Finish
  <2>1. /\ sync # Idle /\ sync.pc \in {"obsolete", "dirty"} /\ sync' = Idle
        /\ SyncStep /\ UNCHANGED <<fingerprint, note, failures, row, replaced>>
    BY <1>1 DEF Finish, SyncStep
  <2>2. RoundHolds' /\ SourcesHold'
    BY <2>1 DEF RoundHolds, IndexInv, SourcesHold, Working
  <2>3. \A r \in Records : Memory(r) => MemoryHolds(r)'
    BY <2>1 DEF IndexInv, MemoryHolds
  <2>4. QED
    BY <2>1, <2>2, <2>3, RoundKeeps DEF IndexInv, TypeOK
<1>2. CASE Fail
  <2>1. /\ failures < MaxFailures /\ failures' = failures + 1 /\ sync # Idle /\ sync' = Idle
        /\ note' \in {note} \cup (IF sync.pc = "call" THEN {Noted} ELSE {})
        /\ UNCHANGED <<kind, row, replaced, rebuilds, query, fingerprint>>
    BY <1>2 DEF Fail, SyncStep
  <2>2. note' \in [Keys -> Stamps \cup {None}]
    BY <2>1, NotedType DEF IndexInv, TypeOK
  <2>3. TypeOK' /\ failures' # 0
    BY <2>1, <2>2, ProjectionAssumption DEF IndexInv, TypeOK
  <2>4. RoundHolds' /\ SourcesHold'
    BY <2>1, <2>3 DEF RoundHolds, SourcesHold
  <2>5. ASSUME NEW r \in Records, Memory(r)' PROVE MemoryHolds(r)'
    <3>1. MemoryHolds(r) /\ r \in Keys
      BY <2>1, <2>5 DEF IndexInv, Memory, Keys
    <3>2. note'[r] = note[r] \/ (sync.pc = "call" /\ r = sync.key)
      BY <2>1, NotedType, <3>1
    <3>3. sync.pc = "call" /\ r = sync.key => fingerprint[r] # row[r]
      BY <2>1, <3>1, RoundType DEF MemoryHolds, RoundHolds
    <3>4. QED
      BY <2>1, <3>1, <3>2, <3>3 DEF MemoryHolds
  <2>6. QED
    BY <2>3, <2>4, <2>5 DEF IndexInv
<1>3. QED
  BY <1>1, <1>2

\* A search reads.
LEMMA SearchKeeps ==
  ASSUME IndexInv, Search
  PROVE  IndexInv'
<1>1. UNCHANGED <<kind, row, fingerprint, note, sync, replaced, failures, rebuilds>>
  BY DEF Search, Ask, Degrade, Hit, Answer, Read, SearchStep, indexVars
<1>2. query' \in Queries \cup {Idle}
  <2>1. \A found \in SUBSET Records : Lexical(found) \subseteq Items
    BY DEF Lexical, Item, Items, IndexInv, TypeOK
  <2>2. ASSUME NEW hits \in SUBSET Keys PROVE Hydrated(hits) \subseteq Items
    <3>1. \A k \in Keys : SourceOf(k) \in Records
      BY DEF Keys, Chunks, SourceOf
    <3>2. QED
      BY <3>1 DEF Hydrated, Item, Items, IndexInv, TypeOK
  <2>3. query.pc \in {"wait", "recheck"} => query \in Queries /\ query.items \subseteq Items
    BY DEF IndexInv, TypeOK, Queries, Idle
  <2>4. ASSUME NEW found \in SUBSET Records, Ask(found) \/ Degrade(found)
        PROVE  query' \in Queries \cup {Idle}
    BY <2>1, <2>4 DEF Ask, Degrade, Queries
  <2>5. ASSUME NEW hits \in SUBSET Keys, Hit(hits) PROVE query' \in Queries \cup {Idle}
    BY <2>2, <2>3, <2>5 DEF Hit, Queries
  <2>6. ASSUME Answer PROVE query' \in Queries \cup {Idle}
    BY <2>3, <2>6 DEF Answer, Queries
  <2>7. QED
    BY <2>4, <2>5, <2>6 DEF Search, Read
<1>3. TypeOK'
  BY <1>1, <1>2 DEF IndexInv, TypeOK
<1>4. QED
  BY <1>1, <1>3 DEF IndexInv, RoundHolds, SourcesHold, Working, Memory, MemoryHolds

LEMMA IndexKeeps ==
  ASSUME IndexInv, [Next]_vars
  PROVE  IndexInv'
<1>1. CASE UNCHANGED vars
  BY <1>1 DEF vars, indexVars, IndexInv, TypeOK, RoundHolds, SourcesHold, Working, Memory, MemoryHolds
<1>2. CASE Sync
  BY <1>2, ScanKeeps, ForgetKeeps, LoadKeeps, CallKeeps, StoreKeeps, EndKeeps DEF Sync
<1>3. CASE Next
  BY <1>2, <1>3, ChangeKeeps, ReplaceKeeps, EndKeeps, SearchKeeps DEF Next
<1>4. QED
  BY <1>1, <1>3

\* Only an answer ends a search, and it reads every candidate once more.
LEMMA AnswersRead ==
  ASSUME [Next]_vars, query.pc = "recheck", query'.pc = "answered"
  PROVE  \A i \in query'.items : row[i.key] = i.stamp /\ row[i.key].visible
<1>1. query' # query
  OBVIOUS
<1>2. Search
  BY <1>1 DEF Next, Change, Replace, RequestRebuild, Sync, Scan, RemoveObsolete, Load, Forget, Call,
              Store, Finish, Fail, SyncStep, vars
<1>3. Answer
  BY <1>2 DEF Search, Ask, Degrade, Hit, Read, Idle
<1>4. QED
  BY <1>3 DEF Answer, StillCurrent

------------------------------------------------------------------------------
(* Connection grants: s1 is the administrator, s2 the grants, s3 the tokens  *)
(* and s4 the requests of the devices.                                       *)

GrantRows == [user : Nat, limit : Limits, count : Nat, revoked : BOOLEAN, expired : BOOLEAN]
Redemptions == [pc : Connections!Pcs, grant : Grants \cup {None}, name : Names \cup {None}]

\* A device that has its token is done.
TokensHold ==
  /\ IsFiniteSet(s3)
  /\ \A t \in s3 : t.device \in Devices /\ s4[t.device].pc = "done"

\* What a grant counts are its tokens; it has none when it does not exist.
GrantHolds(g) ==
  /\ s2[g] \in GrantRows \cup {None, Deleted}
  /\ Connections!Exists(g) =>
       /\ Cardinality(Connections!TokensOf(g)) = s2[g].count
       /\ s2[g].limit # None => s2[g].count <= s2[g].limit
  /\ ~Connections!Exists(g) => Connections!TokensOf(g) = {}

\* A claim leaves room for its token, and is alone.
ClaimHolds(d) ==
  LET g == s4[d].grant IN
  /\ s4[d].pc \in {"checked", "claimed"} => g \in Grants
  /\ s4[d].pc = "claimed" =>
       /\ Connections!Exists(g)
       /\ s2[g].limit # None => s2[g].count < s2[g].limit
       /\ \A c \in Devices : s4[c].pc = "claimed" /\ s4[c].grant = g => c = d

GrantsInv ==
  /\ s1.id \in Nat /\ s1.name \in Names
  /\ DOMAIN s2 = Grants /\ s4 \in [Devices -> Redemptions]
  /\ TokensHold
  /\ \A g \in Grants : GrantHolds(g)
  /\ \A d \in Devices : ClaimHolds(d)

LEMMA GrantsStart == Connections!Init => GrantsInv
<1>. SUFFICES ASSUME Connections!Init PROVE GrantsInv
  OBVIOUS
<1>1. s1.id = 0 /\ s1.name \in Names /\ s3 = {} /\ s2 = [g \in Grants |-> None]
      /\ s4 = [d \in Devices |-> [pc |-> "idle", grant |-> None, name |-> None]]
  BY DEF Connections!Init
<1>2. s4 \in [Devices -> Redemptions]
  BY <1>1 DEF Redemptions, Connections!Pcs
<1>3. TokensHold
  BY <1>1, FS_EmptySet DEF TokensHold
<1>4. QED
  BY <1>1, <1>2, <1>3 DEF GrantsInv, GrantHolds, ClaimHolds, Connections!Exists, Connections!TokensOf

LEMMA LimitNumbers == \A l \in Limits : l # None => l \in Nat /\ 0 <= l
<1>1. \A l \in Limits : l # None => l \in Nat
  BY GrantsAssumption
<1>2. QED
  BY <1>1

LEMMA RowsExist == \A g : s2[g] \in GrantRows => Connections!Exists(g)
BY GrantsAssumption DEF GrantRows, Connections!Exists

\* The rows change, but neither tokens nor requests do.
LEMMA GrantKeeps ==
  ASSUME GrantsInv, NEW g \in Grants, UNCHANGED <<s1, s3, s4>>, DOMAIN s2' = Grants,
         \A h \in Grants : h # g => s2'[h] = s2[h],
         \/ s2[g] = None /\ s2'[g] \in GrantRows /\ s2'[g].count = 0
         \/ /\ Connections!Exists(g) /\ s2'[g] \in GrantRows
            /\ s2'[g].count = s2[g].count /\ s2'[g].limit = s2[g].limit
  PROVE  GrantsInv'
<1>1. Connections!Exists(g)' /\ \A h \in Grants : h # g => (Connections!Exists(h)' <=> Connections!Exists(h))
  BY RowsExist, GrantsAssumption DEF GrantRows, Connections!Exists
<1>2. \A h \in Grants : Connections!TokensOf(h)' = Connections!TokensOf(h)
  BY DEF Connections!TokensOf
<1>3. TokensHold'
  BY DEF GrantsInv, TokensHold
<1>4. ASSUME NEW h \in Grants PROVE GrantHolds(h)'
  <2>1. CASE h # g
    BY <1>1, <1>2, <2>1 DEF GrantsInv, GrantHolds, Connections!Exists
  <2>2. CASE h = g /\ s2[g] = None
    <3>1. Connections!TokensOf(g) = {}
      BY <2>2 DEF GrantsInv, GrantHolds, Connections!Exists
    <3>2. s2'[g] \in GrantRows /\ s2'[g].count = 0
      BY <2>2 DEF Connections!Exists
    <3>3. s2'[g].limit # None => 0 <= s2'[g].limit
      <4>1. s2'[g].limit \in Limits
        BY <3>2 DEF GrantRows
      <4>2. QED
        BY <4>1, LimitNumbers
    <3>4. Cardinality({}) = 0
      BY FS_EmptySet
    <3>5. QED
      BY <1>1, <1>2, <2>2, <3>1, <3>2, <3>3, <3>4 DEF GrantHolds
  <2>3. CASE h = g /\ s2[g] # None
    BY <1>1, <1>2, <2>3 DEF GrantsInv, GrantHolds
  <2>4. QED
    BY <2>1, <2>2, <2>3
<1>5. ASSUME NEW d \in Devices PROVE ClaimHolds(d)'
  BY <1>1 DEF GrantsInv, ClaimHolds, Connections!Exists
<1>6. QED
  BY <1>3, <1>4, <1>5 DEF GrantsInv

\* A request goes back; nothing is left of it.
LEMMA RefuseKeeps ==
  ASSUME GrantsInv, NEW d \in Devices, NEW t \in Redemptions,
         s4' = [s4 EXCEPT ![d] = t], UNCHANGED <<s1, s2, s3>>, s4[d].pc # "done",
         t.pc \in {"checked", "claimed"} => ClaimHolds(d)'
  PROVE  GrantsInv'
<1>1. s4' \in [Devices -> Redemptions] /\ s4'[d] = t /\ \A c \in Devices : c # d => s4'[c] = s4[c]
  BY DEF GrantsInv
<1>2. TokensHold'
  BY <1>1 DEF GrantsInv, TokensHold
<1>3. \A g \in Grants : GrantHolds(g)'
  BY DEF GrantsInv, GrantHolds, Connections!Exists, Connections!TokensOf
<1>4. ASSUME NEW c \in Devices PROVE ClaimHolds(c)'
  <2>1. CASE c = d
    BY <1>1, <2>1 DEF ClaimHolds
  <2>2. CASE c # d
    <3>1. ClaimHolds(c) /\ s4'[c] = s4[c] /\ s2' = s2
      BY <1>1, <2>2 DEF GrantsInv
    <3>2. s4'[d].pc = "claimed" => \A b \in Devices :
            s4'[b].pc = "claimed" /\ s4'[b].grant = s4'[d].grant => b = d
      BY <1>1 DEF ClaimHolds
    <3>3. QED
      BY <1>1, <2>2, <3>1, <3>2 DEF ClaimHolds, Connections!Exists
  <2>3. QED
    BY <2>1, <2>2
<1>5. QED
  BY <1>1, <1>2, <1>3, <1>4 DEF GrantsInv

LEMMA RefusedType ==
  ASSUME GrantsInv, NEW d \in Devices, Connections!Refuse(d)
  PROVE  \E t \in Redemptions : t.pc = "idle" /\ s4' = [s4 EXCEPT ![d] = t] /\ UNCHANGED <<s1, s2, s3>>
<1>1. s4[d] \in Redemptions
  BY DEF GrantsInv
<1>2. [s4[d] EXCEPT !.pc = "idle", !.grant = None, !.name = None] \in Redemptions
  BY <1>1 DEF Redemptions, Connections!Pcs
<1>3. [s4[d] EXCEPT !.pc = "idle", !.grant = None, !.name = None].pc = "idle"
  BY <1>1 DEF Redemptions
<1>4. s4' = [s4 EXCEPT ![d] = [s4[d] EXCEPT !.pc = "idle", !.grant = None, !.name = None]]
      /\ UNCHANGED <<s1, s2, s3>>
  BY DEF Connections!Refuse, Connections!tables
<1>5. QED
  BY <1>2, <1>3, <1>4

\* The claim repeats the conditions of the check, and the token counts itself.
LEMMA RedeemKeeps ==
  ASSUME GrantsInv, NEW d \in Devices,
         \/ \E g \in Grants : Connections!Check(d, g)
         \/ Connections!Claim(d) \/ Connections!Issue(d) \/ Connections!Fail(d)
  PROVE  GrantsInv'
<1>0. s4[d] \in Redemptions
  BY DEF GrantsInv
<1>1. CASE Connections!Refuse(d) /\ s4[d].pc # "done"
  <2>1. PICK t \in Redemptions : t.pc = "idle" /\ s4' = [s4 EXCEPT ![d] = t] /\ UNCHANGED <<s1, s2, s3>>
    BY <1>1, RefusedType
  <2>2. QED
    BY <1>1, <2>1, RefuseKeeps
<1>2. CASE Connections!Fail(d)
  BY <1>1, <1>2 DEF Connections!Fail
<1>3. ASSUME NEW g \in Grants, Connections!Check(d, g) PROVE GrantsInv'
  <2>1. PICK t : t = [pc |-> "checked", grant |-> g, name |-> s1.name]
    OBVIOUS
  <2>2. s4' = [s4 EXCEPT ![d] = t] /\ s4[d].pc = "idle" /\ UNCHANGED <<s1, s2, s3>>
    BY <1>3, <2>1 DEF Connections!Check, Connections!tables
  <2>3. t \in Redemptions /\ t.pc = "checked"
    BY <2>1 DEF Redemptions, Connections!Pcs, GrantsInv
  <2>4. ClaimHolds(d)'
    <3>1. s4'[d] = t /\ t.grant = g
      BY <2>1, <2>2 DEF GrantsInv
    <3>2. QED
      BY <2>3, <3>1 DEF ClaimHolds
  <2>5. QED
    BY <2>2, <2>3, <2>4, RefuseKeeps
<1>4. CASE Connections!Claim(d)
  <2>1. PICK g : g = s4[d].grant
    OBVIOUS
  <2>2. s4[d].pc = "checked" /\ Connections!Claimants(g) = {}
    BY <1>4, <2>1 DEF Connections!Claim
  <2>3. CASE ~Connections!Claimable(g)
    BY <1>1, <1>4, <2>1, <2>2, <2>3 DEF Connections!Claim
  <2>4. CASE Connections!Claimable(g)
    <3>1. s4' = [s4 EXCEPT ![d].pc = "claimed"] /\ UNCHANGED <<s1, s2, s3>>
      BY <1>4, <2>1, <2>4 DEF Connections!Claim, Connections!tables
    <3>2. PICK t : t = [s4[d] EXCEPT !.pc = "claimed"]
      OBVIOUS
    <3>3. t \in Redemptions /\ t.pc = "claimed" /\ t.grant = g /\ s4' = [s4 EXCEPT ![d] = t]
      BY <1>0, <2>1, <3>1, <3>2 DEF Redemptions, Connections!Pcs
    <3>4. Connections!Exists(g) /\ (s2[g].limit # None => s2[g].count < s2[g].limit)
      BY <2>4 DEF Connections!Claimable, Connections!Redeemable
    <3>5. \A c \in Devices : c # d /\ s4[c].pc = "claimed" => s4[c].grant # g
      BY <2>2 DEF Connections!Claimants
    <3>6. g \in Grants
      BY <2>1, <2>2 DEF GrantsInv, ClaimHolds
    <3>7. ClaimHolds(d)'
      BY <2>1, <3>1, <3>3, <3>4, <3>5, <3>6 DEF ClaimHolds, Connections!Exists, GrantsInv
    <3>8. QED
      BY <2>2, <3>1, <3>3, <3>7, RefuseKeeps
  <2>5. QED
    BY <2>3, <2>4
<1>5. CASE Connections!Issue(d)
  <2>1. PICK g : g = s4[d].grant
    OBVIOUS
  <2>2. s4[d].pc = "claimed"
    BY <1>5 DEF Connections!Issue
  <2>3. CASE s1.name # s4[d].name
    BY <1>1, <1>5, <2>2, <2>3 DEF Connections!Issue
  <2>4. CASE s1.name = s4[d].name
    <3>1. PICK t : t = [grant |-> g, device |-> d, user |-> s1.id]
      OBVIOUS
    <3>2. /\ s3' = s3 \cup {t} /\ s2' = [s2 EXCEPT ![g].count = @ + 1]
          /\ s4' = [s4 EXCEPT ![d].pc = "done"] /\ s1' = s1
      BY <1>5, <2>1, <2>4, <3>1 DEF Connections!Issue
    <3>3. /\ g \in Grants /\ Connections!Exists(g) /\ GrantHolds(g)
          /\ s2[g].limit # None => s2[g].count < s2[g].limit
          /\ \A c \in Devices : s4[c].pc = "claimed" /\ s4[c].grant = g => c = d
      BY <2>1, <2>2 DEF GrantsInv, ClaimHolds
    <3>4. s2[g] \in GrantRows
      BY <3>3 DEF GrantHolds, Connections!Exists
    <3>5. /\ s2'[g] = [s2[g] EXCEPT !.count = @ + 1] /\ DOMAIN s2' = Grants
          /\ \A h \in Grants : h # g => s2'[h] = s2[h]
      BY <3>2, <3>3 DEF GrantsInv
    <3>6. /\ s2'[g] \in GrantRows /\ s2'[g].count = s2[g].count + 1 /\ s2'[g].limit = s2[g].limit
          /\ s2[g].count \in Nat /\ s2[g].limit \in Limits
      BY <3>4, <3>5 DEF GrantRows
    <3>7. /\ s4' \in [Devices -> Redemptions] /\ s4'[d].pc = "done" /\ s4'[d].grant = g
          /\ \A c \in Devices : c # d => s4'[c] = s4[c]
      BY <1>0, <2>1, <3>2 DEF Redemptions, Connections!Pcs, GrantsInv
    <3>8. t \notin s3 /\ IsFiniteSet(s3) /\ t.grant = g /\ t.device = d
      BY <2>2, <3>1 DEF GrantsInv, TokensHold
    <3>9. TokensHold'
      BY <3>2, <3>7, <3>8, FS_AddElement DEF GrantsInv, TokensHold
    <3>10. Connections!TokensOf(g)' = Connections!TokensOf(g) \cup {t}
      BY <3>2, <3>8 DEF Connections!TokensOf
    <3>11. \A h \in Grants : h # g => Connections!TokensOf(h)' = Connections!TokensOf(h)
      BY <3>2, <3>8 DEF Connections!TokensOf
    <3>12. Cardinality(Connections!TokensOf(g)') = s2[g].count + 1
      <4>1. IsFiniteSet(Connections!TokensOf(g)) /\ t \notin Connections!TokensOf(g)
        BY <3>8, FS_Subset DEF Connections!TokensOf
      <4>2. PICK T : T = Connections!TokensOf(g)
        OBVIOUS
      <4>3. Cardinality(T \cup {t}) = Cardinality(T) + 1
        BY <4>1, <4>2, FS_AddElement
      <4>4. Cardinality(T) = s2[g].count
        BY <3>3, <4>2 DEF GrantHolds
      <4>5. QED
        BY <3>10, <4>2, <4>3, <4>4
    <3>13. Connections!Exists(g)'
      BY <3>6, GrantsAssumption DEF GrantRows, Connections!Exists
    <3>14. s2'[g].limit # None => s2'[g].count <= s2'[g].limit
      BY <3>3, <3>6, LimitNumbers
    <3>15. ASSUME NEW h \in Grants PROVE GrantHolds(h)'
      <4>1. CASE h = g
        BY <3>6, <3>12, <3>13, <3>14, <4>1 DEF GrantHolds
      <4>2. CASE h # g
        BY <3>5, <3>11, <4>2 DEF GrantsInv, GrantHolds, Connections!Exists
      <4>3. QED
        BY <4>1, <4>2
    <3>16. ASSUME NEW c \in Devices PROVE ClaimHolds(c)'
      <4>1. CASE c = d
        BY <3>7, <4>1 DEF ClaimHolds
      <4>2. CASE c # d
        <5>1. ClaimHolds(c) /\ s4'[c] = s4[c]
          BY <3>7, <4>2 DEF GrantsInv
        <5>2. s4[c].pc = "claimed" => s4[c].grant # g
          BY <3>3, <4>2
        <5>3. s4[c].pc = "claimed" => s2'[s4[c].grant] = s2[s4[c].grant]
          BY <3>5, <5>1, <5>2 DEF ClaimHolds
        <5>4. QED
          BY <3>7, <4>2, <5>1, <5>3 DEF ClaimHolds, Connections!Exists
      <4>3. QED
        BY <4>1, <4>2
    <3>17. QED
      BY <3>2, <3>5, <3>7, <3>9, <3>15, <3>16 DEF GrantsInv
  <2>5. QED
    BY <2>3, <2>4
<1>6. QED
  BY <1>2, <1>3, <1>4, <1>5

\* The users go, and with them what they had granted.
LEMMA AdminKeeps ==
  ASSUME GrantsInv, NEW name \in Names, Connections!Rename(name) \/ Connections!Replace(name)
  PROVE  GrantsInv'
<1>1. CASE Connections!Rename(name)
  <2>1. s1' = [s1 EXCEPT !.name = name] /\ UNCHANGED <<s2, s3, s4>>
    BY <1>1 DEF Connections!Rename
  <2>2. s1'.id \in Nat /\ s1'.name \in Names
    BY <2>1 DEF GrantsInv
  <2>3. QED
    BY <2>1, <2>2 DEF GrantsInv, TokensHold, GrantHolds, ClaimHolds, Connections!Exists,
                      Connections!TokensOf
<1>2. CASE Connections!Replace(name)
  <2>1. /\ \A g \in Grants : Connections!Claimants(g) = {}
        /\ s1' = [id |-> s1.id + 1, name |-> name] /\ s3' = {} /\ s4' = s4
        /\ s2' = [g \in Grants |-> IF Connections!Exists(g) THEN Deleted ELSE s2[g]]
    BY <1>2 DEF Connections!Replace
  <2>2. s1'.id \in Nat /\ s1'.name \in Names
    BY <2>1 DEF GrantsInv
  <2>3. TokensHold'
    BY <2>1, FS_EmptySet DEF TokensHold
  <2>4. \A g \in Grants : GrantHolds(g)'
    BY <2>1 DEF GrantsInv, GrantHolds, Connections!Exists, Connections!TokensOf
  <2>5. ASSUME NEW d \in Devices PROVE ClaimHolds(d)'
    <3>1. s4[d].pc # "claimed"
      BY <2>1 DEF GrantsInv, ClaimHolds, Connections!Claimants
    <3>2. QED
      BY <2>1, <3>1 DEF GrantsInv, ClaimHolds
  <2>6. QED
    BY <2>1, <2>2, <2>3, <2>4, <2>5 DEF GrantsInv
<1>3. QED
  BY <1>1, <1>2

LEMMA GrantsKeep ==
  ASSUME GrantsInv, [Connections!Next]_(Connections!vars)
  PROVE  GrantsInv'
<1>1. CASE UNCHANGED Connections!vars
  BY <1>1 DEF Connections!vars, Connections!tables, GrantsInv, TokensHold, GrantHolds, ClaimHolds,
              Connections!Exists, Connections!TokensOf
<1>2. ASSUME NEW g \in Grants, NEW limit \in Limits, Connections!CreateGrant(g, limit)
      PROVE  GrantsInv'
  <2>1. PICK t : t = [user |-> s1.id, limit |-> limit, count |-> 0, revoked |-> FALSE, expired |-> FALSE]
    OBVIOUS
  <2>2. s2[g] = None /\ s2' = [s2 EXCEPT ![g] = t] /\ UNCHANGED <<s1, s3, s4>>
    BY <1>2, <2>1 DEF Connections!CreateGrant
  <2>3. t \in GrantRows /\ t.count = 0
    BY <2>1 DEF GrantRows, GrantsInv
  <2>4. s2'[g] = t /\ DOMAIN s2' = Grants /\ \A h \in Grants : h # g => s2'[h] = s2[h]
    BY <2>2 DEF GrantsInv
  <2>5. QED
    BY <2>2, <2>3, <2>4, GrantKeeps
<1>3. ASSUME NEW g \in Grants, Connections!Revoke(g) \/ Connections!Expire(g)
      PROVE  GrantsInv'
  <2>1. /\ Connections!Exists(g) /\ UNCHANGED <<s1, s3, s4>>
        /\ \/ s2' = [s2 EXCEPT ![g].revoked = TRUE]
           \/ s2' = [s2 EXCEPT ![g].expired = TRUE]
    BY <1>3 DEF Connections!Revoke, Connections!Expire
  <2>2. s2[g] \in GrantRows
    BY <2>1 DEF GrantsInv, GrantHolds, Connections!Exists
  <2>3. /\ s2'[g] = [s2[g] EXCEPT !.revoked = TRUE] \/ s2'[g] = [s2[g] EXCEPT !.expired = TRUE]
        /\ DOMAIN s2' = Grants /\ \A h \in Grants : h # g => s2'[h] = s2[h]
    BY <2>1 DEF GrantsInv
  <2>4. s2'[g] \in GrantRows /\ s2'[g].count = s2[g].count /\ s2'[g].limit = s2[g].limit
    BY <2>2, <2>3 DEF GrantRows
  <2>5. QED
    BY <2>1, <2>3, <2>4, GrantKeeps
<1>4. QED
  BY <1>1, <1>2, <1>3, AdminKeeps, RedeemKeeps DEF Connections!Next

\* The instance counts as the library does.
LEMMA SameCardinality == \A S : Connections!Cardinality(S) = Cardinality(S)
BY DEF Connections!Cardinality, Cardinality

LEMMA GrantsCounted == GrantsInv => Connections!CountedOnce
BY SameCardinality DEF GrantsInv, GrantHolds, Connections!CountedOnce

------------------------------------------------------------------------------
(* Tasks, settings and reminders: s1 is the list of tasks, s2 the commands,  *)
(* s4 the trail of every task, s7 the delivered keys, s8 the tasks told and  *)
(* s9 what every client asks.                                                *)

Values == Plans!TaskValues
TaskRows == [values : Values, version : Nat, key : RequestKeys, done : BOOLEAN]
Trails == Seq(Values \X Values)

\* The key under which the present reminder of a task is announced, whenever it is.
AlarmKey(t) ==
  LET v == s1[t].values IN
  IF v.remind # None THEN <<t, "remind", v.remind>> ELSE <<t, "due", v.due>>

\* What a client has read is what the task still holds if its version is the same; and what
\* leaves the instant of a reminder leaves its spelling.
AskHolds(c) ==
  LET a == s9[c] IN
  /\ a.op = "create" => a.key \in RequestKeys /\ a.wish \in Values
  /\ a.op = "update" =>
       /\ a.task \in 1..Len(s1) /\ a.read \in Nat /\ a.before \in Values /\ a.after \in Values
       /\ a.read <= s1[a.task].version
       /\ a.read = s1[a.task].version => a.before = s1[a.task].values
       /\ Plans!Instant(a.before.remind) = Plans!Instant(a.after.remind)
            => a.before.remind = a.after.remind

KeysHold ==
  /\ \A t \in 1..Len(s1) : s1[t].key # None => s1[t].key \in DOMAIN s2 /\ s2[s1[t].key].task = t
  /\ \A k \in DOMAIN s2 : k # None /\ s2[k].task \in 1..Len(s1) /\ s1[s2[k].task].key = k

TrailHolds(t) ==
  /\ s1[t].version = Len(s4[t]) + 1
  /\ s1[t].done = (s1[t].values.status = "done")
  /\ \A i \in 2..Len(s4[t]) : s4[t][i][1] = s4[t][i - 1][2]
  /\ s4[t] # <<>> => s4[t][Len(s4[t])][2] = s1[t].values

PlannerTypes ==
  /\ s1 \in Seq(TaskRows) /\ s4 \in Seq(Trails) /\ Len(s4) = Len(s1)
  /\ s6 \in 0..MaxClock /\ s8 \subseteq 1..Len(s1) /\ DOMAIN s9 = Clients

PlannerInv ==
  /\ PlannerTypes
  /\ KeysHold
  /\ \A c \in Clients : AskHolds(c)
  /\ \A t \in 1..Len(s1) : TrailHolds(t)
  /\ \A t \in s8 : AlarmKey(t) \in s7

LEMMA PlannerStart == Plans!Init => PlannerInv
<1>. SUFFICES ASSUME Plans!Init PROVE PlannerInv
  OBVIOUS
<1>1. /\ s1 = <<>> /\ s4 = <<>> /\ s2 = [k \in {} |-> {}] /\ s6 = 0 /\ s8 = {}
      /\ s9 = [c \in Clients |-> [op |-> "idle"]]
  BY DEF Plans!Init, Plans!Idle
<1>2. PlannerTypes
  BY <1>1, PlannerAssumption DEF PlannerTypes
<1>3. 1..Len(s1) = {}
  BY <1>1
<1>4. QED
  BY <1>1, <1>2, <1>3 DEF PlannerInv, KeysHold, AskHolds

\* An answer, or a new question, of one client.
LEMMA Asked ==
  ASSUME PlannerInv, NEW c \in Clients, NEW a, Plans!Answer(c, a)
  PROVE  /\ s9'[c] = a /\ DOMAIN s9' = Clients
         /\ \A d \in Clients : d # c => s9'[d] = s9[d]
BY DEF PlannerInv, PlannerTypes, Plans!Answer

\* A step that leaves the tasks alone.
LEMMA TasksKept ==
  ASSUME PlannerInv, UNCHANGED <<s1, s2, s4, s7, s8>>, s6' \in 0..MaxClock,
         DOMAIN s9' = Clients, \A c \in Clients : AskHolds(c)'
  PROVE  PlannerInv'
<1>1. PlannerTypes' /\ KeysHold'
  BY DEF PlannerInv, PlannerTypes, KeysHold
<1>2. \A t \in 1..Len(s1) : TrailHolds(t)' /\ AlarmKey(t)' = AlarmKey(t)
  BY DEF PlannerInv, TrailHolds, AlarmKey
<1>3. QED
  BY <1>1, <1>2 DEF PlannerInv, PlannerTypes

\* The spelling of a reminder is kept with its instant, also of one that was set anew.
LEMMA ValidatedKeeps ==
  ASSUME NEW old \in Values, NEW change \in Changes
  PROVE  LET new == Plans!Validated(old, change) IN
         /\ new \in Values
         /\ Plans!Instant(old.remind) = Plans!Instant(new.remind) => old.remind = new.remind
<1>. DEFINE merged == [f \in DOMAIN old |-> IF f \in DOMAIN change THEN change[f] ELSE old[f]]
            new == Plans!Validated(old, change)
<1>1. DOMAIN old = {"status", "remind", "due", "notify"}
  BY DEF Values, Plans!TaskValues
<1>2. /\ merged.status \in {"open", "done", "archived"} /\ merged.notify \in BOOLEAN
      /\ merged.remind \in (Nat \X Nat) \cup {None} /\ merged.due \in Nat \cup {None}
      /\ old.remind \in (Nat \X Nat) \cup {None}
  BY <1>1, PlannerAssumption DEF Values, Plans!TaskValues
<1>3. merged \in Values
  BY <1>1, <1>2 DEF Values, Plans!TaskValues
<1>4. new = IF /\ old.remind # None /\ merged.remind # None
               /\ Plans!Instant(old.remind) = Plans!Instant(merged.remind)
            THEN [merged EXCEPT !.remind = old.remind] ELSE merged
  BY DEF Plans!Validated
<1>. HIDE DEF merged, new
<1>5. [merged EXCEPT !.remind = old.remind] \in Values
      /\ [merged EXCEPT !.remind = old.remind].remind = old.remind
  BY <1>2, <1>3 DEF Values, Plans!TaskValues
<1>6. \A r \in (Nat \X Nat) \cup {None} : Plans!Instant(r) = None <=> r = None
  BY PlannerAssumption DEF Plans!Instant
<1>7. new \in Values /\ (Plans!Instant(old.remind) = Plans!Instant(new.remind) => old.remind = new.remind)
  BY <1>2, <1>3, <1>4, <1>5, <1>6
<1>8. QED
  BY <1>7 DEF new

\* What a client begins: it asks with what it reads.
LEMMA BeginsKeep ==
  ASSUME PlannerInv, NEW c \in Clients,
         \/ \E key \in RequestKeys, wish \in Wishes : Plans!BeginCreate(c, key, wish)
         \/ \E t \in DOMAIN s1, change \in Changes : Plans!BeginUpdate(c, t, change)
         \/ \E change \in SettingChanges : Plans!BeginSettings(c, change)
  PROVE  PlannerInv'
<1>1. ASSUME NEW a, Plans!Answer(c, a), UNCHANGED <<s1, s2, s4, s6, s7, s8>>,
             s9'[c] = a => AskHolds(c)'
      PROVE  PlannerInv'
  <2>1. /\ s9'[c] = a /\ DOMAIN s9' = Clients
        /\ \A d \in Clients : d # c => s9'[d] = s9[d]
    BY <1>1, Asked
  <2>2. \A d \in Clients : AskHolds(d)'
    BY <1>1, <2>1 DEF PlannerInv, AskHolds
  <2>3. QED
    BY <1>1, <2>1, <2>2, TasksKept DEF PlannerInv, PlannerTypes
<1>2. ASSUME NEW key \in RequestKeys, NEW wish \in Wishes, Plans!BeginCreate(c, key, wish)
      PROVE  PlannerInv'
  <2>1. PICK a : a = [op |-> "create", key |-> key, wish |-> wish]
    OBVIOUS
  <2>2. Plans!Answer(c, a) /\ UNCHANGED <<s1, s2, s4, s6, s7, s8>>
    BY <1>2, <2>1 DEF Plans!BeginCreate
  <2>3. a.op = "create" /\ a.key \in RequestKeys /\ a.wish \in Values
    BY <2>1, PlannerAssumption DEF Values
  <2>4. QED
    BY <1>1, <2>2, <2>3 DEF AskHolds
<1>3. ASSUME NEW t \in DOMAIN s1, NEW change \in Changes, Plans!BeginUpdate(c, t, change)
      PROVE  PlannerInv'
  <2>1. PICK after : after = Plans!Validated(s1[t].values, change)
    OBVIOUS
  <2>2. PICK a : a = [op |-> "update", task |-> t, read |-> s1[t].version,
                      before |-> s1[t].values, after |-> after]
    OBVIOUS
  <2>3. Plans!Answer(c, a) /\ UNCHANGED <<s1, s2, s4, s6, s7, s8>>
    BY <1>3, <2>1, <2>2 DEF Plans!BeginUpdate
  <2>4. t \in 1..Len(s1) /\ s1[t].values \in Values /\ s1[t].version \in Nat
    <3>1. s1 \in Seq(TaskRows) /\ t \in 1..Len(s1)
      BY LenProperties DEF PlannerInv, PlannerTypes
    <3>2. s1[t] \in TaskRows
      BY <3>1, ElementOfSeq
    <3>3. QED
      BY <3>1, <3>2 DEF TaskRows
  <2>5. after \in Values /\ (Plans!Instant(s1[t].values.remind) = Plans!Instant(after.remind)
                               => s1[t].values.remind = after.remind)
    BY <2>1, <2>4, ValidatedKeeps
  <2>6. s9'[c] = a => AskHolds(c)'
    BY <2>2, <2>3, <2>4, <2>5 DEF AskHolds
  <2>7. QED
    BY <1>1, <2>3, <2>6
<1>4. ASSUME NEW change \in SettingChanges, Plans!BeginSettings(c, change)
      PROVE  PlannerInv'
  <2>1. PICK a : Plans!Answer(c, a) /\ a.op = "settings" /\ UNCHANGED <<s1, s2, s4, s6, s7, s8>>
    BY <1>4 DEF Plans!BeginSettings
  <2>2. QED
    BY <1>1, <2>1 DEF AskHolds
<1>5. QED
  BY <1>2, <1>3, <1>4

\* A new task has a key of its own, an empty trail and nothing told.
LEMMA CreateKeeps ==
  ASSUME PlannerInv, NEW c \in Clients, Plans!CommitCreate(c)
  PROVE  PlannerInv'
<1>. DEFINE key == s9[c].key
            wish == s9[c].wish
            id == Len(s1) + 1
            t == [values |-> wish, version |-> 1, key |-> key, done |-> wish.status = "done"]
<1>1. /\ s9[c].op = "create" /\ Plans!Answer(c, Plans!Idle) /\ UNCHANGED <<s6, s7, s8>>
      /\ IF Plans!Taken(key) THEN UNCHANGED <<s1, s2, s4>>
         ELSE /\ s1' = Append(s1, t) /\ s4' = Append(s4, <<>>)
              /\ s2' = [k \in DOMAIN s2 \cup ({key} \ {None}) |->
                          IF k = key THEN [task |-> id, wish |-> wish] ELSE s2[k]]
  BY DEF Plans!CommitCreate
<1>2. /\ s9'[c] = Plans!Idle /\ DOMAIN s9' = Clients
      /\ \A d \in Clients : d # c => s9'[d] = s9[d]
  BY <1>1, Asked
<1>3. key \in RequestKeys /\ wish \in Values
  BY <1>1 DEF PlannerInv, AskHolds
<1>4. CASE Plans!Taken(key)
  <2>1. UNCHANGED <<s1, s2, s4, s6, s7, s8>>
    BY <1>1, <1>4
  <2>2. \A d \in Clients : AskHolds(d)'
    BY <1>2, <2>1 DEF PlannerInv, AskHolds, Plans!Idle
  <2>3. QED
    BY <1>2, <2>1, <2>2, TasksKept DEF PlannerInv, PlannerTypes
<1>5. CASE ~Plans!Taken(key)
  <2>1. /\ t \in TaskRows /\ t.values = wish /\ t.version = 1 /\ t.key = key
        /\ t.done = (wish.status = "done")
    BY <1>3 DEF TaskRows
  <2>. HIDE DEF t
  <2>2. s1 \in Seq(TaskRows) /\ s4 \in Seq(Trails) /\ Len(s4) = Len(s1) /\ Len(s1) \in Nat
    BY LenProperties DEF PlannerInv, PlannerTypes
  <2>3. /\ s1' \in Seq(TaskRows) /\ Len(s1') = id /\ s1'[id] = t
        /\ \A i \in 1..Len(s1) : s1'[i] = s1[i]
    <3>1. s1' = Append(s1, t)
      BY <1>1, <1>5
    <3>2. QED
      BY <2>1, <2>2, <3>1, AppendProperties
  <2>4. <<>> \in Trails
    BY EmptySeq DEF Trails
  <2>5. /\ s4' \in Seq(Trails) /\ Len(s4') = id /\ s4'[id] = <<>>
        /\ \A i \in 1..Len(s1) : s4'[i] = s4[i]
    <3>1. s4' = Append(s4, <<>>)
      BY <1>1, <1>5
    <3>2. QED
      BY <2>2, <2>4, <3>1, AppendProperties
  <2>6. 1..Len(s1') = 1..Len(s1) \cup {id} /\ id \notin 1..Len(s1)
    BY <2>2, <2>3
  <2>7. PlannerTypes'
    BY <1>1, <1>2, <2>3, <2>5, <2>6 DEF PlannerInv, PlannerTypes
  <2>8. KeysHold'
    <3>1. /\ DOMAIN s2' = DOMAIN s2 \cup ({key} \ {None})
          /\ \A k \in DOMAIN s2 : k # key => s2'[k] = s2[k]
          /\ key # None => s2'[key].task = id
      BY <1>1, <1>5
    <3>2. key \notin DOMAIN s2
      BY <1>5 DEF Plans!Taken, PlannerInv, KeysHold
    <3>3. ASSUME NEW i \in 1..Len(s1'), s1'[i].key # None
          PROVE  s1'[i].key \in DOMAIN s2' /\ s2'[s1'[i].key].task = i
      <4>1. CASE i = id
        BY <2>1, <2>3, <3>1, <3>3, <4>1
      <4>2. CASE i # id
        <5>1. i \in 1..Len(s1) /\ s1'[i] = s1[i]
          BY <2>3, <2>6, <4>2
        <5>2. QED
          BY <3>1, <3>2, <3>3, <5>1 DEF PlannerInv, KeysHold
      <4>3. QED
        BY <4>1, <4>2
    <3>4. ASSUME NEW k \in DOMAIN s2'
          PROVE  k # None /\ s2'[k].task \in 1..Len(s1') /\ s1'[s2'[k].task].key = k
      <4>1. CASE k \in DOMAIN s2
        BY <2>3, <2>6, <3>1, <3>2, <4>1 DEF PlannerInv, KeysHold
      <4>2. CASE k \notin DOMAIN s2
        BY <2>1, <2>3, <2>6, <3>1, <3>4, <4>2
      <4>3. QED
        BY <4>1, <4>2
    <3>5. QED
      BY <3>3, <3>4 DEF KeysHold
  <2>9. ASSUME NEW d \in Clients PROVE AskHolds(d)'
    BY <1>2, <2>3, <2>6 DEF PlannerInv, AskHolds, Plans!Idle
  <2>10. ASSUME NEW i \in 1..Len(s1') PROVE TrailHolds(i)'
    <3>1. CASE i = id
      BY <2>1, <2>3, <2>5, <3>1 DEF TrailHolds
    <3>2. CASE i # id
      <4>1. i \in 1..Len(s1) /\ s1'[i] = s1[i] /\ s4'[i] = s4[i]
        BY <2>3, <2>5, <2>6, <3>2
      <4>2. QED
        BY <4>1 DEF PlannerInv, TrailHolds
    <3>3. QED
      BY <3>1, <3>2
  <2>11. \A i \in s8' : AlarmKey(i)' \in s7'
    BY <1>1, <2>3 DEF PlannerInv, PlannerTypes, AlarmKey
  <2>12. QED
    BY <2>7, <2>8, <2>9, <2>10, <2>11 DEF PlannerInv
<1>6. QED
  BY <1>4, <1>5

\* The write asks for the version that was read, so that the change starts from what the
\* task holds; what was told stays told only under the same key.
LEMMA UpdateKeeps ==
  ASSUME PlannerInv, NEW c \in Clients, Plans!CommitUpdate(c)
  PROVE  PlannerInv'
<1>. DEFINE t == s9[c].task
            before == s9[c].before
            after == s9[c].after
            same == /\ Plans!Instant(before.remind) = Plans!Instant(after.remind)
                    /\ before.due = after.due
<1>1. /\ s9[c].op = "update" /\ Plans!Answer(c, Plans!Idle) /\ UNCHANGED <<s2, s6, s7>>
      /\ IF s1[t].version # s9[c].read THEN UNCHANGED <<s1, s4, s8>>
         ELSE /\ s1' = [s1 EXCEPT ![t].values = after, ![t].version = s9[c].read + 1,
                                  ![t].done = after.status = "done"]
              /\ s4' = [s4 EXCEPT ![t] = Append(@, <<before, after>>)]
              /\ s8' = IF same THEN s8 ELSE s8 \ {t}
  BY DEF Plans!CommitUpdate, Plans!SameVersion
<1>2. /\ s9'[c] = Plans!Idle /\ DOMAIN s9' = Clients
      /\ \A d \in Clients : d # c => s9'[d] = s9[d]
  BY <1>1, Asked
<1>3. /\ t \in 1..Len(s1) /\ s9[c].read \in Nat /\ before \in Values /\ after \in Values
      /\ s9[c].read = s1[t].version => before = s1[t].values
      /\ Plans!Instant(before.remind) = Plans!Instant(after.remind) => before.remind = after.remind
  BY <1>1 DEF PlannerInv, AskHolds
<1>4. CASE s1[t].version # s9[c].read
  <2>1. UNCHANGED <<s1, s4, s8>>
    BY <1>1, <1>4
  <2>2. \A d \in Clients : AskHolds(d)'
    BY <1>2, <2>1 DEF PlannerInv, AskHolds, Plans!Idle
  <2>3. QED
    BY <1>1, <1>2, <2>1, <2>2, TasksKept DEF PlannerInv, PlannerTypes
<1>5. CASE s1[t].version = s9[c].read
  <2>1. PICK n \in {t} : TRUE
    OBVIOUS
  <2>2. PICK r : r = [s1[n] EXCEPT !.values = after, !.version = s9[c].read + 1,
                                   !.done = after.status = "done"]
    OBVIOUS
  <2>3. s1 \in Seq(TaskRows) /\ s4 \in Seq(Trails) /\ Len(s4) = Len(s1) /\ Len(s1) \in Nat
        /\ n \in 1..Len(s1)
    BY <1>3, LenProperties DEF PlannerInv, PlannerTypes
  <2>4. s1[n] \in TaskRows /\ s4[n] \in Trails
    BY <2>3, ElementOfSeq
  <2>5. /\ r \in TaskRows /\ r.values = after /\ r.version = s9[c].read + 1 /\ r.key = s1[n].key
        /\ r.done = (after.status = "done")
    <3>1. s9[c].read + 1 \in Nat
      BY <1>3
    <3>2. PICK finished \in BOOLEAN : finished = (after.status = "done")
      OBVIOUS
    <3>3. r = [s1[n] EXCEPT !.values = after, !.version = s9[c].read + 1, !.done = finished]
      BY <2>2, <3>2
    <3>4. r = [values |-> after, version |-> s9[c].read + 1, key |-> s1[n].key,
               done |-> finished]
      BY <2>4, <3>3 DEF TaskRows
    <3>5. /\ r.values = after /\ r.version = s9[c].read + 1 /\ r.key = s1[n].key
          /\ r.done = finished
      BY <3>4
    <3>6. r \in TaskRows
      BY <1>3, <2>4, <3>1, <3>2, <3>4 DEF TaskRows
    <3>7. QED
      BY <3>2, <3>5, <3>6
  <2>6. PICK trail : trail = Append(s4[n], <<before, after>>)
    OBVIOUS
  <2>7. /\ trail \in Trails /\ Len(s4[n]) \in Nat /\ Len(trail) = Len(s4[n]) + 1 /\ trail # <<>>
        /\ \A i \in 1..Len(s4[n]) : trail[i] = s4[n][i]
        /\ trail[Len(s4[n]) + 1] = <<before, after>>
    <3>1. s4[n] \in Seq(Values \X Values) /\ <<before, after>> \in Values \X Values
      BY <1>3, <2>4 DEF Trails
    <3>2. QED
      BY <2>6, <3>1, AppendProperties, LenProperties DEF Trails
  <2>8. s1' = [s1 EXCEPT ![n] = r]
    <3>1. s1' = [s1 EXCEPT ![n].values = after, ![n].version = s9[c].read + 1,
                           ![n].done = after.status = "done"]
      BY <1>1, <1>5
    <3>2. /\ DOMAIN s1' = DOMAIN s1
          /\ s1'[n] = [s1[n] EXCEPT !.values = after, !.version = s9[c].read + 1,
                                    !.done = after.status = "done"]
          /\ \A i \in DOMAIN s1 : i # n => s1'[i] = s1[i]
      <4>1. PICK f : f = [s1 EXCEPT ![n].values = after]
        OBVIOUS
      <4>2. PICK g : g = [f EXCEPT ![n].version = s9[c].read + 1]
        OBVIOUS
      <4>3. s1' = [g EXCEPT ![n].done = after.status = "done"]
        BY <3>1, <4>1, <4>2
      <4>4. DOMAIN s1 = 1..Len(s1) /\ s1 = [i \in DOMAIN s1 |-> s1[i]]
        BY <2>3
      <4>5. /\ f = [i \in DOMAIN s1 |-> f[i]] /\ f[n] = [s1[n] EXCEPT !.values = after]
            /\ \A i \in DOMAIN s1 : i # n => f[i] = s1[i]
        BY <2>3, <4>1, <4>4
      <4>6. /\ g = [i \in DOMAIN s1 |-> g[i]]
            /\ g[n] = [f[n] EXCEPT !.version = s9[c].read + 1]
            /\ \A i \in DOMAIN s1 : i # n => g[i] = s1[i]
        BY <2>3, <4>2, <4>4, <4>5
      <4>7. /\ DOMAIN s1' = DOMAIN s1
            /\ s1'[n] = [g[n] EXCEPT !.done = after.status = "done"]
            /\ \A i \in DOMAIN s1 : i # n => s1'[i] = s1[i]
        BY <2>3, <4>3, <4>4, <4>6
      <4>8. QED
        BY <4>5, <4>6, <4>7
    <3>3. QED
      BY <2>2, <2>3, <3>1, <3>2
  <2>9. /\ s1' \in Seq(TaskRows) /\ Len(s1') = Len(s1) /\ s1'[n] = r
        /\ \A i \in 1..Len(s1) : i # n => s1'[i] = s1[i]
    BY <2>3, <2>5, <2>8, ExceptSeq
  <2>10. s4' = [s4 EXCEPT ![n] = trail]
    BY <1>1, <1>5, <2>6
  <2>11. /\ s4' \in Seq(Trails) /\ Len(s4') = Len(s1) /\ s4'[n] = trail
         /\ \A i \in 1..Len(s1) : i # n => s4'[i] = s4[i]
    <3>1. n \in 1..Len(s4)
      BY <2>3
    <3>2. QED
      BY <2>3, <2>7, <2>10, <3>1, ExceptSeq
  <2>12. s8' = IF same THEN s8 ELSE s8 \ {n}
    BY <1>1, <1>5
  <2>13. before = s1[n].values /\ s9[c].read = s1[n].version
    BY <1>3, <1>5
  <2>14. PlannerTypes'
    BY <1>1, <1>2, <2>3, <2>9, <2>11, <2>12 DEF PlannerInv, PlannerTypes
  <2>15. KeysHold'
    <3>1. \A i \in 1..Len(s1) : s1'[i].key = s1[i].key
      BY <2>5, <2>9
    <3>2. s2' = s2 /\ Len(s1') = Len(s1) /\ KeysHold
      BY <1>1, <2>9 DEF PlannerInv
    <3>3. QED
      BY <3>1, <3>2 DEF KeysHold
  <2>16. ASSUME NEW d \in Clients PROVE AskHolds(d)'
    <3>1. CASE d = c
      BY <1>2, <3>1 DEF AskHolds, Plans!Idle
    <3>2. CASE d # c
      <4>1. s9'[d] = s9[d] /\ AskHolds(d)
        BY <1>2, <3>2 DEF PlannerInv
      <4>2. s1[n].version \in Nat
        BY <2>4 DEF TaskRows
      <4>3. s9[d].op = "update" /\ s9[d].task = n =>
              s9[d].read \in Nat /\ s9[d].read < s1'[n].version
        BY <2>5, <2>9, <2>13, <4>1, <4>2 DEF AskHolds
      <4>4. ASSUME s9[d].op = "update"
            PROVE  /\ s9[d].task \in 1..Len(s1')
                   /\ s9[d].read <= s1'[s9[d].task].version
                   /\ s9[d].read = s1'[s9[d].task].version => s9[d].before = s1'[s9[d].task].values
        <5>1. CASE s9[d].task = n
          BY <2>3, <2>4, <2>5, <2>9, <4>1, <4>3, <4>4, <5>1 DEF AskHolds, TaskRows
        <5>2. CASE s9[d].task # n
          BY <2>9, <4>1, <4>4, <5>2 DEF AskHolds
        <5>3. QED
          BY <5>1, <5>2
      <4>5. QED
        BY <4>1, <4>4 DEF AskHolds
    <3>3. QED
      BY <3>1, <3>2
  <2>17. ASSUME NEW i \in 1..Len(s1') PROVE TrailHolds(i)'
    <3>1. CASE i # n
      <4>1. i \in 1..Len(s1) /\ s1'[i] = s1[i] /\ s4'[i] = s4[i]
        BY <2>9, <2>11, <3>1
      <4>2. QED
        BY <4>1 DEF PlannerInv, TrailHolds
    <3>2. CASE i = n
      <4>1. TrailHolds(n)
        BY <2>3 DEF PlannerInv
      <4>2. r.version = Len(trail) + 1
        BY <2>5, <2>7, <2>13, <4>1 DEF TrailHolds
      <4>3. ASSUME NEW k \in 2..Len(trail) PROVE trail[k][1] = trail[k - 1][2]
        <5>1. CASE k <= Len(s4[n])
          <6>1. k \in 1..Len(s4[n]) /\ k - 1 \in 1..Len(s4[n]) /\ k \in 2..Len(s4[n])
            BY <2>7, <5>1
          <6>2. trail[k] = s4[n][k] /\ trail[k - 1] = s4[n][k - 1]
            BY <2>7, <6>1
          <6>3. QED
            BY <4>1, <6>1, <6>2 DEF TrailHolds
        <5>2. CASE k > Len(s4[n])
          <6>1. k = Len(s4[n]) + 1 /\ k - 1 = Len(s4[n]) /\ Len(s4[n]) \in 1..Len(s4[n])
            BY <2>7, <5>2
          <6>2. trail[k][1] = before /\ trail[k - 1] = s4[n][Len(s4[n])]
            BY <2>7, <6>1
          <6>3. s4[n] # <<>>
            BY <6>1
          <6>4. QED
            BY <2>13, <4>1, <6>2, <6>3 DEF TrailHolds
        <5>3. QED
          BY <2>7, <5>1, <5>2
      <4>4. trail[Len(trail)][2] = r.values
        BY <2>5, <2>7
      <4>5. QED
        BY <2>5, <2>9, <2>11, <3>2, <4>2, <4>3, <4>4 DEF TrailHolds
    <3>3. QED
      BY <3>1, <3>2
  <2>18. ASSUME NEW i \in s8' PROVE AlarmKey(i)' \in s7'
    <3>1. i \in s8 /\ AlarmKey(i) \in s7 /\ s7' = s7 /\ i \in 1..Len(s1)
      BY <1>1, <2>12 DEF PlannerInv, PlannerTypes
    <3>2. CASE i # n
      BY <2>9, <3>1, <3>2 DEF AlarmKey
    <3>3. CASE i = n
      <4>1. before.remind = after.remind /\ before.due = after.due
        BY <1>3, <2>12, <3>3
      <4>2. s1'[n].values = after /\ s1[n].values = before
        BY <2>5, <2>9, <2>13
      <4>3. QED
        BY <3>1, <3>3, <4>1, <4>2 DEF AlarmKey
    <3>4. QED
      BY <3>2, <3>3
  <2>19. QED
    BY <2>14, <2>15, <2>16, <2>17, <2>18 DEF PlannerInv
<1>6. QED
  BY <1>4, <1>5

\* What is announced now is announced under the key of the alarm.
LEMMA DeliverKeeps ==
  ASSUME PlannerInv, Plans!Deliver
  PROVE  PlannerInv'
<1>1. /\ s7' = s7 \cup Plans!Pending /\ UNCHANGED <<s1, s2, s3, s4, s5, s6, s9>>
      /\ s8' = s8 \cup {t \in DOMAIN s1 : Plans!EventKey(t) \in Plans!Pending}
  BY DEF Plans!Deliver
<1>2. DOMAIN s1 = 1..Len(s1)
  BY LenProperties DEF PlannerInv, PlannerTypes
<1>3. \A t \in DOMAIN s1 : Plans!EventKey(t) \in {None, AlarmKey(t)}
  BY DEF Plans!EventKey, AlarmKey
<1>4. None \notin Plans!Pending
  BY PlannerAssumption DEF Plans!Pending, PlannerInv, PlannerTypes
<1>5. \A t \in s8' : AlarmKey(t)' \in s7'
  BY <1>1, <1>3, <1>4 DEF PlannerInv, AlarmKey
<1>6. PlannerTypes' /\ KeysHold'
  BY <1>1, <1>2 DEF PlannerInv, PlannerTypes, KeysHold
<1>7. (\A c \in Clients : AskHolds(c)') /\ \A t \in 1..Len(s1) : TrailHolds(t)'
  BY <1>1 DEF PlannerInv, AskHolds, TrailHolds
<1>8. QED
  BY <1>1, <1>5, <1>6, <1>7 DEF PlannerInv

LEMMA PlannerKeeps ==
  ASSUME PlannerInv, [Plans!Next]_(Plans!plannerVars)
  PROVE  PlannerInv'
<1>1. CASE UNCHANGED Plans!plannerVars
  <2>1. UNCHANGED <<s1, s2, s4, s6, s7, s8, s9>>
    BY <1>1 DEF Plans!plannerVars
  <2>2. \A c \in Clients : AskHolds(c)'
    BY <2>1 DEF PlannerInv, AskHolds
  <2>3. QED
    BY <2>1, <2>2, TasksKept DEF PlannerInv, PlannerTypes
<1>2. CASE Plans!Tick
  <2>1. s6 < MaxClock /\ s6' = s6 + 1 /\ UNCHANGED <<s1, s2, s4, s7, s8, s9>>
    BY <1>2 DEF Plans!Tick
  <2>2. s6' \in 0..MaxClock /\ \A c \in Clients : AskHolds(c)'
    BY <2>1, PlannerAssumption DEF PlannerInv, PlannerTypes, AskHolds
  <2>3. QED
    BY <2>1, <2>2, TasksKept DEF PlannerInv, PlannerTypes
<1>3. ASSUME NEW c \in Clients, Plans!CommitSettings(c) PROVE PlannerInv'
  <2>1. Plans!Answer(c, Plans!Idle) /\ UNCHANGED <<s1, s2, s4, s6, s7, s8>>
    BY <1>3 DEF Plans!CommitSettings
  <2>2. /\ s9'[c] = Plans!Idle /\ DOMAIN s9' = Clients
        /\ \A d \in Clients : d # c => s9'[d] = s9[d]
    BY <2>1, Asked
  <2>3. \A d \in Clients : AskHolds(d)'
    BY <2>1, <2>2 DEF PlannerInv, AskHolds, Plans!Idle
  <2>4. QED
    BY <2>1, <2>2, <2>3, TasksKept DEF PlannerInv, PlannerTypes
<1>4. QED
  BY <1>1, <1>2, <1>3, BeginsKeep, CreateKeeps, UpdateKeeps, DeliverKeeps DEF Plans!Next

LEMMA PlannerHolds ==
  PlannerInv => Plans!OncePerKey /\ Plans!HistoryChains /\ Plans!RemindedOnce
<1>. SUFFICES ASSUME PlannerInv PROVE Plans!OncePerKey /\ Plans!HistoryChains /\ Plans!RemindedOnce
  OBVIOUS
<1>1. DOMAIN s1 = 1..Len(s1) /\ DOMAIN s4 = 1..Len(s1)
  BY LenProperties DEF PlannerInv, PlannerTypes
<1>2. Plans!OncePerKey
  BY <1>1 DEF PlannerInv, KeysHold, Plans!OncePerKey
<1>3. Plans!HistoryChains
  BY <1>1 DEF PlannerInv, TrailHolds, Plans!HistoryChains
<1>4. \A t \in DOMAIN s1 : Plans!EventKey(t) \in {None, AlarmKey(t)}
  BY DEF Plans!EventKey, AlarmKey
<1>5. Plans!RemindedOnce
  BY <1>1, <1>4 DEF PlannerInv, PlannerTypes, Plans!RemindedOnce
<1>6. QED
  BY <1>2, <1>3, <1>5

------------------------------------------------------------------------------
(* Project membership: s1 is the database, s2 the time, s3 what was observed, *)
(* s4 the project and s5 the binding of every source, s6 the projects of the  *)
(* provider, s7 the owner's choices, s8 what was applied and s9 the captures. *)

\* What a capture has read of its source is there until the owner chooses, and on sqlite
\* until it commits; no binding is ever taken away.
CaptureHolds(s) ==
  LET t == s9[s] IN
  t # Projects!Idle =>
    /\ t.observation \in s3 /\ t.observation.source = s
    /\ t.binding # Unset => s5[s] # Unset /\ t.observation.at > t.binding.at
    /\ s1 = "sqlite" \/ s7[s] = Unset => t.binding = s5[s] /\ t.project = s4[s]

\* An owner's source is bound by hand; any other is where the newest applied observation,
\* which its binding holds, says.
SourceHolds(s) ==
  /\ s5[s] \in Projects!Bindings \cup {Unset}
  /\ s7[s] # Unset /\ s5[s] # Unset => s5[s].manual
  /\ s7[s] # Unset /\ s1 = "sqlite" => s4[s] = s7[s]
  /\ s7[s] = Unset /\ s5[s] = Unset => s4[s] = None /\ \A o \in s8 : o.source # s
  /\ s7[s] = Unset /\ s5[s] # Unset =>
       /\ ~s5[s].manual /\ s4[s] = s5[s].project
       /\ \E o \in s8 : o.source = s /\ o.at = s5[s].at /\ o.project = s5[s].project
       /\ \A o \in s8 : o.source = s => o.at <= s5[s].at

\* Every observation has a time of its own.
ObservedHolds ==
  /\ s2 \in Nat /\ s3 \subseteq Projects!Observations /\ s8 \subseteq s3
  /\ \A o \in s3 : o.at \in Nat /\ o.at <= s2
  /\ \A o, p \in s3 : o.at = p.at => o = p

MembershipInv ==
  /\ DOMAIN s4 = Sources /\ DOMAIN s5 = Sources /\ DOMAIN s7 = Sources /\ DOMAIN s9 = Sources
  /\ ObservedHolds
  /\ \A s \in Sources : SourceHolds(s) /\ CaptureHolds(s)

LEMMA MembershipStart == Projects!Init => MembershipInv
<1>. SUFFICES ASSUME Projects!Init PROVE MembershipInv
  OBVIOUS
<1>1. /\ s2 = 0 /\ s3 = {} /\ s8 = {} /\ s7 \in [Sources -> Places \cup {None, Unset}]
      /\ s4 = [s \in Sources |-> IF s7[s] = Unset THEN None ELSE s7[s]]
      /\ s5 = [s \in Sources |-> Unset] /\ s9 = [s \in Sources |-> Projects!Idle]
  BY DEF Projects!Init
<1>2. ObservedHolds
  BY <1>1 DEF ObservedHolds
<1>3. ASSUME NEW s \in Sources PROVE SourceHolds(s) /\ CaptureHolds(s)
  BY <1>1 DEF SourceHolds, CaptureHolds
<1>4. QED
  BY <1>1, <1>2, <1>3 DEF MembershipInv

\* What holds of a source follows from what is stored of it, and of what was applied to it.
LEMMA SourceKept ==
  ASSUME MembershipInv, NEW s \in Sources, s1' = s1, s3 \subseteq s3',
         s4'[s] = s4[s], s5'[s] = s5[s], s7'[s] = s7[s], s9'[s] = s9[s],
         s8 \subseteq s8', \A o \in s8' : o.source = s => o \in s8
  PROVE  (SourceHolds(s) /\ CaptureHolds(s))'
<1>1. SourceHolds(s) /\ CaptureHolds(s)
  BY DEF MembershipInv
<1>2. SourceHolds(s)'
  BY <1>1 DEF SourceHolds, Projects!Bindings, Projects!Times, Projects!Memberships
<1>3. CaptureHolds(s)'
  BY <1>1 DEF CaptureHolds, Projects!Idle
<1>4. QED
  BY <1>2, <1>3

\* A capture begins, or finds that what it brings is no longer new.
LEMMA BeginsCapture ==
  ASSUME MembershipInv, NEW o \in s3, Projects!Begin(o)
  PROVE  MembershipInv'
<1>1. /\ s9[o.source] = Projects!Idle
      /\ UNCHANGED <<s1, s2, s3, s4, s5, s6, s7>>
      /\ IF Projects!Newer(o)
         THEN /\ s9' = [s9 EXCEPT ![o.source] =
                  [pc |-> "apply", observation |-> o, binding |-> s5[o.source],
                   project |-> s4[o.source], remote |-> Projects!RemoteOf(o.project)]]
              /\ s8' = s8
         ELSE s8' = s8 \cup {o} /\ s9' = s9
  BY DEF Projects!Begin, Projects!tables
<1>2. PICK c \in {o.source} : TRUE
  OBVIOUS
<1>3. c = o.source /\ c \in Sources /\ SourceHolds(c)
  BY <1>2 DEF MembershipInv, ObservedHolds, Projects!Observations
<1>4. /\ DOMAIN s9' = Sources /\ \A s \in Sources : s # c => s9'[s] = s9[s]
      /\ s8 \subseteq s8' /\ s8' \subseteq s8 \cup {o}
  BY <1>1, <1>3 DEF MembershipInv
<1>5. ObservedHolds'
  BY <1>1, <1>4 DEF MembershipInv, ObservedHolds, Projects!Observations, Projects!Memberships
<1>6. ASSUME NEW s \in Sources, s # c PROVE (SourceHolds(s) /\ CaptureHolds(s))'
  BY <1>1, <1>3, <1>4, <1>6, SourceKept
<1>7. SourceHolds(c)' /\ CaptureHolds(c)'
  <2>1. CASE Projects!Newer(o)
    <3>1. PICK t : t = [pc |-> "apply", observation |-> o, binding |-> s5[c],
                        project |-> s4[c], remote |-> Projects!RemoteOf(o.project)]
      OBVIOUS
    <3>2. s9'[c] = t /\ s8' = s8
      BY <1>1, <1>3, <2>1, <3>1 DEF MembershipInv
    <3>3. t.observation = o /\ t.binding = s5[c] /\ t.project = s4[c]
      BY <3>1
    <3>4. s5[c] # Unset => o.at > s5[c].at
      BY <1>3, <2>1 DEF Projects!Newer
    <3>5. CaptureHolds(c)'
      BY <1>1, <1>3, <3>2, <3>3, <3>4 DEF CaptureHolds
    <3>6. QED
      BY <1>1, <1>3, <3>2, <3>5 DEF SourceHolds, Projects!Bindings, Projects!Times,
                                    Projects!Memberships
  <2>2. CASE ~Projects!Newer(o)
    <3>1. s5[c] # Unset /\ ~(o.at > s5[c].at) /\ s8' = s8 \cup {o} /\ s9' = s9
      BY <1>1, <1>3, <2>2 DEF Projects!Newer
    <3>2. o.at \in Nat /\ s5[c].at \in Nat
      BY <1>3, <3>1 DEF MembershipInv, ObservedHolds, SourceHolds, Projects!Bindings, Projects!Times
    <3>3. SourceHolds(c)'
      BY <1>1, <1>3, <3>1, <3>2 DEF SourceHolds, Projects!Bindings, Projects!Times,
                                    Projects!Memberships
    <3>4. CaptureHolds(c)'
      BY <1>1, <1>3, <3>1 DEF MembershipInv, CaptureHolds, Projects!Idle
    <3>5. QED
      BY <3>3, <3>4
  <2>3. QED
    BY <2>1, <2>2
<1>8. QED
  BY <1>1, <1>4, <1>5, <1>6, <1>7 DEF MembershipInv

\* What may be bound does not change.
LEMMA SameBindings == Projects!Bindings' = Projects!Bindings
BY DEF Projects!Bindings, Projects!Times, Projects!Memberships

\* Who binds a source that its owner has not chosen for, binds it to what was observed.
LEMMA BindsSource ==
  ASSUME MembershipInv, NEW c \in Sources, Projects!Commit(c)
  PROVE  MembershipInv'
<1>. DEFINE t == s9[c]
            o == s9[c].observation
<1>1. /\ t # Projects!Idle /\ ~Projects!Collides(c)
      /\ s5' = [s5 EXCEPT ![c] = Projects!Bound(c)]
      /\ s4' = IF Projects!Writes(c) THEN [s4 EXCEPT ![c] = o.project] ELSE s4
      /\ s8' = s8 \cup {o}
      /\ s9' = [s9 EXCEPT ![c] = Projects!Idle]
      /\ UNCHANGED <<s1, s2, s3, s7>>
  BY DEF Projects!Commit, Projects!End
<1>2. SourceHolds(c) /\ CaptureHolds(c)
  BY DEF MembershipInv
<1>3. /\ o \in s3 /\ o.source = c
      /\ t.binding # Unset => s5[c] # Unset /\ o.at > t.binding.at
      /\ t.binding = Unset => s5[c] = Unset
      /\ s1 = "sqlite" \/ s7[c] = Unset => t.binding = s5[c] /\ t.project = s4[c]
  BY <1>1, <1>2 DEF CaptureHolds, Projects!Collides
<1>4. o \in Projects!Observations /\ o.at \in Nat /\ o.project \in Projects!Memberships
      /\ o.at \in 1..MaxTime
  BY <1>3 DEF MembershipInv, ObservedHolds, Projects!Observations
<1>5. /\ DOMAIN s4' = Sources /\ DOMAIN s5' = Sources /\ DOMAIN s9' = Sources
      /\ s9'[c] = Projects!Idle /\ s5'[c] = Projects!Bound(c)
      /\ s4'[c] = IF Projects!Writes(c) THEN o.project ELSE s4[c]
      /\ \A s \in Sources : s # c => s4'[s] = s4[s] /\ s5'[s] = s5[s] /\ s9'[s] = s9[s]
  BY <1>1 DEF MembershipInv
<1>6. PICK manual \in BOOLEAN : manual = IF t.binding = Unset THEN Projects!AssignedBefore(c)
                                         ELSE s5[c].manual
  <2>1. t.binding # Unset => s5[c].manual \in BOOLEAN
    BY <1>2, <1>3 DEF SourceHolds, Projects!Bindings
  <2>2. Projects!AssignedBefore(c) \in BOOLEAN
    BY DEF Projects!AssignedBefore
  <2>3. QED
    BY <2>1, <2>2
<1>7. Projects!Bound(c) = [at |-> o.at, project |-> o.project, manual |-> manual]
  <2>1. CASE t.binding = Unset
    BY <1>6, <2>1 DEF Projects!Bound
  <2>2. CASE t.binding # Unset
    <3>1. s5[c] \in Projects!Bindings
      BY <1>2, <1>3, <2>2 DEF SourceHolds
    <3>2. Projects!Bound(c) = [s5[c] EXCEPT !.at = o.at, !.project = o.project]
      BY <2>2 DEF Projects!Bound
    <3>3. QED
      BY <1>6, <2>2, <3>1, <3>2 DEF Projects!Bindings
  <2>3. QED
    BY <2>1, <2>2
<1>8. s5'[c] \in Projects!Bindings /\ s5'[c].at = o.at /\ s5'[c].project = o.project
      /\ s5'[c].manual = manual
  <2>1. o.at \in Projects!Times
    BY <1>4 DEF Projects!Times
  <2>2. QED
    BY <1>4, <1>5, <1>6, <1>7, <2>1 DEF Projects!Bindings
<1>9. ASSUME s7[c] # Unset PROVE SourceHolds(c)'
  <2>1. manual
    BY <1>2, <1>3, <1>6, <1>9 DEF SourceHolds, Projects!AssignedBefore
  <2>2. s1 = "sqlite" => ~Projects!Writes(c)
    <3>1. s1 = "sqlite" => Projects!IsManual(c)
      BY <1>3, <1>6, <2>1 DEF Projects!IsManual
    <3>2. QED
      BY <3>1 DEF Projects!Writes
  <2>3. s1 = "sqlite" => s4'[c] = s7'[c]
    BY <1>1, <1>2, <1>5, <1>9, <2>2 DEF SourceHolds
  <2>4. s7'[c] # Unset /\ s5'[c].manual /\ s1' = s1
    BY <1>1, <1>8, <1>9, <2>1
  <2>5. QED
    BY <1>8, <2>3, <2>4, SameBindings DEF SourceHolds
<1>10. ASSUME s7[c] = Unset PROVE SourceHolds(c)'
  <2>1. t.binding = s5[c] /\ t.project = s4[c]
    BY <1>3, <1>10
  <2>2. ~manual /\ ~Projects!IsManual(c)
    BY <1>2, <1>6, <1>10, <2>1 DEF SourceHolds, Projects!AssignedBefore, Projects!IsManual
  <2>3. s4'[c] = o.project
    BY <1>5, <2>1, <2>2 DEF Projects!Writes
  <2>4. ASSUME NEW p \in s8', p.source = c PROVE p.at <= o.at
    <3>1. CASE p = o
      BY <1>4, <3>1
    <3>2. CASE p \in s8
      <4>1. s5[c] # Unset /\ p.at <= s5[c].at /\ o.at > s5[c].at
        BY <1>2, <1>3, <1>10, <2>1, <2>4, <3>2 DEF SourceHolds
      <4>2. p.at \in Nat /\ s5[c].at \in Nat
        BY <1>2, <3>2, <4>1 DEF MembershipInv, ObservedHolds, SourceHolds, Projects!Bindings,
                                Projects!Times
      <4>3. QED
        BY <1>4, <4>1, <4>2
    <3>3. QED
      BY <1>1, <3>1, <3>2
  <2>5. /\ s7'[c] = Unset /\ ~s5'[c].manual /\ s5'[c] # Unset /\ s4'[c] = s5'[c].project
        /\ o \in s8' /\ o.source = c /\ o.at = s5'[c].at /\ o.project = s5'[c].project
    <3>1. s5'[c] # Unset
      BY <1>8, ProjectsAssumption
    <3>2. QED
      BY <1>1, <1>3, <1>8, <1>10, <2>2, <2>3, <3>1
  <2>6. \A p \in s8' : p.source = c => p.at <= s5'[c].at
    BY <1>8, <2>4
  <2>7. QED
    BY <1>8, <2>5, <2>6, SameBindings DEF SourceHolds
<1>11. SourceHolds(c)' /\ CaptureHolds(c)'
  BY <1>5, <1>9, <1>10 DEF CaptureHolds, Projects!Idle
<1>12. ASSUME NEW s \in Sources, s # c PROVE (SourceHolds(s) /\ CaptureHolds(s))'
  BY <1>1, <1>3, <1>5, <1>12, SourceKept
<1>13. ObservedHolds'
  BY <1>1, <1>3 DEF MembershipInv, ObservedHolds, Projects!Observations, Projects!Memberships
<1>14. QED
  BY <1>1, <1>5, <1>11, <1>12, <1>13 DEF MembershipInv

\* The owner chooses; on sqlite while nobody has read the source.
LEMMA OwnerChooses ==
  ASSUME MembershipInv, NEW c \in Sources, NEW p \in Places \cup {None}, Projects!Edit(c, p)
  PROVE  MembershipInv'
<1>1. /\ s1 = "sqlite" => \A s \in Sources : s9[s] = Projects!Idle
      /\ s4' = [s4 EXCEPT ![c] = p] /\ s7' = [s7 EXCEPT ![c] = p]
      /\ s5' = [s5 EXCEPT ![c] = IF @ = Unset THEN [at |-> 0, project |-> None, manual |-> TRUE]
                                 ELSE [@ EXCEPT !.manual = TRUE]]
      /\ UNCHANGED <<s1, s2, s3, s8, s9>>
  BY DEF Projects!Edit, Projects!Unlocked
<1>2. SourceHolds(c) /\ CaptureHolds(c)
  BY DEF MembershipInv
<1>3. /\ DOMAIN s4' = Sources /\ DOMAIN s5' = Sources /\ DOMAIN s7' = Sources
      /\ s4'[c] = p /\ s7'[c] = p
      /\ s5'[c] = IF s5[c] = Unset THEN [at |-> 0, project |-> None, manual |-> TRUE]
                  ELSE [s5[c] EXCEPT !.manual = TRUE]
      /\ \A s \in Sources : s # c => s4'[s] = s4[s] /\ s5'[s] = s5[s] /\ s7'[s] = s7[s]
  BY <1>1 DEF MembershipInv
<1>4. p # Unset
  BY ProjectsAssumption
<1>5. 0 \in Projects!Times
  BY ProjectsAssumption DEF Projects!Times
<1>6. s5'[c] \in Projects!Bindings /\ s5'[c].manual = TRUE /\ s5'[c] # Unset
  <2>1. CASE s5[c] = Unset
    <3>1. s5'[c] = [at |-> 0, project |-> None, manual |-> TRUE]
      BY <1>3, <2>1
    <3>2. [at |-> 0, project |-> None, manual |-> TRUE] \in Projects!Bindings
      BY <1>5 DEF Projects!Bindings, Projects!Memberships
    <3>3. s5'[c].manual = TRUE
      BY <3>1
    <3>4. QED
      BY <3>1, <3>2, <3>3, ProjectsAssumption
  <2>2. CASE s5[c] # Unset
    <3>1. s5[c] \in Projects!Bindings /\ s5'[c] = [s5[c] EXCEPT !.manual = TRUE]
      BY <1>2, <1>3, <2>2 DEF SourceHolds
    <3>2. s5'[c] \in Projects!Bindings /\ s5'[c].manual = TRUE
      BY <3>1 DEF Projects!Bindings
    <3>3. QED
      BY <3>2, ProjectsAssumption
  <2>3. QED
    BY <2>1, <2>2
<1>7. SourceHolds(c)'
  BY <1>3, <1>4, <1>6 DEF SourceHolds, Projects!Bindings, Projects!Times, Projects!Memberships
<1>8. CaptureHolds(c)'
  BY <1>1, <1>2, <1>3, <1>4, <1>6 DEF CaptureHolds, Projects!Idle
<1>9. ASSUME NEW s \in Sources, s # c PROVE (SourceHolds(s) /\ CaptureHolds(s))'
  BY <1>1, <1>3, <1>9, SourceKept
<1>10. ObservedHolds'
  BY <1>1 DEF MembershipInv, ObservedHolds, Projects!Observations, Projects!Memberships
<1>11. QED
  BY <1>1, <1>3, <1>7, <1>8, <1>9, <1>10 DEF MembershipInv

\* The browser sees one more membership, later than any it has seen.
LEMMA BrowserObserves ==
  ASSUME MembershipInv, NEW c \in Sources, NEW u \in Projects!Memberships, Projects!Observe(c, u)
  PROVE  MembershipInv'
<1>1. PICK o : o = [source |-> c, at |-> s2 + 1, project |-> u]
  OBVIOUS
<1>2. /\ s2 < MaxTime /\ s2' = s2 + 1 /\ s3' = s3 \cup {o}
      /\ UNCHANGED <<s1, s4, s5, s6, s7, s8, s9>>
  BY <1>1 DEF Projects!Observe, Projects!tables
<1>3. o.at = s2 + 1 /\ s2 \in Nat /\ o \in Projects!Observations
  BY <1>1, <1>2, ProjectsAssumption DEF MembershipInv, ObservedHolds, Projects!Observations
<1>4. ObservedHolds'
  <2>1. \A p \in s3 : p.at \in Nat /\ p.at <= s2 /\ p.at # o.at
    BY <1>3 DEF MembershipInv, ObservedHolds
  <2>2. \A p, q \in s3' : p.at = q.at => p = q
    BY <1>2, <2>1 DEF MembershipInv, ObservedHolds
  <2>3. s3' \subseteq Projects!Observations
    BY <1>2, <1>3 DEF MembershipInv, ObservedHolds, Projects!Observations, Projects!Memberships
  <2>4. \A p \in s3' : p.at \in Nat /\ p.at <= s2'
    BY <1>2, <1>3, <2>1
  <2>5. QED
    BY <1>2, <1>3, <2>2, <2>3, <2>4 DEF MembershipInv, ObservedHolds
<1>5. \A s \in Sources : (SourceHolds(s) /\ CaptureHolds(s))'
  BY <1>2, SourceKept
<1>6. QED
  BY <1>2, <1>4, <1>5 DEF MembershipInv

LEMMA MembershipKeeps ==
  ASSUME MembershipInv, [Projects!Next]_(Projects!vars)
  PROVE  MembershipInv'
<1>1. CASE UNCHANGED Projects!vars
  <2>1. UNCHANGED <<s1, s2, s3, s4, s5, s7, s8, s9>>
    BY <1>1 DEF Projects!vars, Projects!tables
  <2>2. \A s \in Sources : (SourceHolds(s) /\ CaptureHolds(s))'
    BY <2>1, SourceKept
  <2>3. QED
    BY <2>1, <2>2 DEF MembershipInv, ObservedHolds, Projects!Observations, Projects!Memberships
<1>2. ASSUME NEW c \in Sources, Projects!Fail(c) PROVE MembershipInv'
  <2>1. /\ s9' = [s9 EXCEPT ![c] = Projects!Idle]
        /\ UNCHANGED <<s1, s2, s3, s4, s5, s7, s8>>
    BY <1>2 DEF Projects!Fail, Projects!End, Projects!tables
  <2>2. /\ DOMAIN s9' = Sources /\ s9'[c] = Projects!Idle
        /\ \A s \in Sources : s # c => s9'[s] = s9[s]
    BY <2>1 DEF MembershipInv
  <2>3. SourceHolds(c)'
    BY <2>1 DEF MembershipInv, SourceHolds, Projects!Bindings, Projects!Times, Projects!Memberships
  <2>4. CaptureHolds(c)'
    BY <2>2 DEF CaptureHolds, Projects!Idle
  <2>5. \A s \in Sources : s # c => (SourceHolds(s) /\ CaptureHolds(s))'
    BY <2>1, <2>2, SourceKept
  <2>6. QED
    BY <2>1, <2>2, <2>3, <2>4, <2>5
       DEF MembershipInv, ObservedHolds, Projects!Observations, Projects!Memberships
<1>3. QED
  BY <1>1, <1>2, BeginsCapture, BindsSource, OwnerChooses, BrowserObserves DEF Projects!Next

LEMMA MembershipHolds == MembershipInv => Projects!ManualKept /\ Projects!NewestWins
<1>. SUFFICES ASSUME MembershipInv PROVE Projects!ManualKept /\ Projects!NewestWins
  OBVIOUS
<1>1. Projects!ManualKept
  BY DEF MembershipInv, SourceHolds, Projects!ManualKept, Projects!Assigned
<1>2. ASSUME NEW s \in Sources, NEW o \in s8, Projects!Newest(s, o), s7[s] = Unset
      PROVE  s4[s] = o.project
  <2>1. SourceHolds(s) /\ o.source = s
    BY <1>2 DEF MembershipInv, Projects!Newest
  <2>2. s5[s] # Unset /\ s4[s] = s5[s].project
    BY <1>2, <2>1 DEF SourceHolds
  <2>3. PICK p \in s8 : p.source = s /\ p.at = s5[s].at /\ p.project = s5[s].project
    BY <1>2, <2>1, <2>2 DEF SourceHolds
  <2>4. o.at <= p.at /\ p.at <= o.at
    BY <1>2, <2>1, <2>2, <2>3 DEF SourceHolds, Projects!Newest
  <2>5. o \in s3 /\ p \in s3 /\ o.at \in Nat /\ p.at \in Nat
    BY <2>3 DEF MembershipInv, ObservedHolds
  <2>6. o = p
    BY <2>4, <2>5 DEF MembershipInv, ObservedHolds
  <2>7. QED
    BY <2>2, <2>3, <2>6
<1>3. QED
  BY <1>1, <1>2 DEF Projects!NewestWins

------------------------------------------------------------------------------
(* Saved pages: s1 is the mode, s2 the rows, s3 what the files show, s4 the   *)
(* sources of the workspace, s5 the requests, s6 the processes that received  *)
(* a key and s7 the keys whose complete source was taken up again.            *)

PageRequests == [pc : Pages!Pcs, key : CaptureKeys, payload : Payloads, process : Processes,
                 written : Enrichments \cup {None}, result : Pages!Statuses \cup {None}]

\* Two processes received a key.
Across(k) == \E p, q \in s6[k] : p # q

\* Who completes a page finds her payload stored, and incomplete unless another process has
\* the key; who holds the lock of its row holds it alone, and has written the files before
\* she commits.
PageRequestHolds(r) ==
  LET q == s5[r] IN
  q # Pages!Idle =>
    /\ q \in PageRequests /\ q.process \in s6[q.key]
    /\ q.pc \in {"complete", "answer", "commit"} =>
         s1 # "workspace" /\ s2[q.key] # None /\ s2[q.key].payload = q.payload
    /\ q.pc = "complete" => Across(q.key) \/ s2[q.key].path = None
    /\ q.pc \in {"answer", "commit"} =>
         /\ q.key \in s7 \/ s2[q.key].path = None
         /\ \A p \in Requests :
              s5[p] # Pages!Idle /\ s5[p].pc \in {"answer", "commit"} /\ s5[p].key = q.key => p = r
    /\ q.pc = "commit" => q.written \in Enrichments /\ s3[q.key][q.written.title] = q.written
    /\ q.pc = "answered" /\ q.result = "saved" =>
         /\ s2[q.key] # None /\ s2[q.key].payload = q.payload
         /\ IF s1 = "workspace" THEN q.key \in s4 ELSE Pages!IsComplete(s2[q.key])

PageHolds(k) ==
  /\ s2[k] \in Pages!Rows \cup {None}
  /\ s1 = "workspace" /\ s2[k] # None => k \in s4
  /\ s2[k] # None /\ ~Pages!IsComplete(s2[k]) => s2[k].title = Sent
  /\ k \notin s7 /\ s2[k] # None /\ Pages!IsComplete(s2[k]) =>
       s3[k][s2[k].path] = [title |-> s2[k].title, rest |-> s2[k].rest]
  /\ k \in s7 => Across(k)

PagesHeld ==
  /\ DOMAIN s2 = CaptureKeys /\ DOMAIN s5 = Requests
  /\ s3 \in [CaptureKeys -> [Pages!Titles -> Enrichments \cup {None}]]
  /\ s6 \in [CaptureKeys -> SUBSET Processes] /\ s7 \subseteq CaptureKeys
  /\ \A k \in CaptureKeys : PageHolds(k)
  /\ \A r \in Requests : PageRequestHolds(r)

\* A process serves one request with a key at a time.
ServedApart ==
  \A q, r \in Requests :
    Pages!Running(q) /\ Pages!Running(r) /\ q # r /\ s5[q].key = s5[r].key => s5[q].process # s5[r].process

PagesInv == PagesHeld /\ ServedApart

\* What is none of them is told apart from rows and titles, and an enrichment has both parts.
LEMMA EnrichmentIs ==
  ASSUME NEW e \in Enrichments
  PROVE  /\ e = [title |-> e.title, rest |-> e.rest] /\ e # None
         /\ e.title \in Pages!Titles /\ e.title # None
BY PagesAssumption DEF Pages!Titles

LEMMA PagesStart == Pages!Init => PagesInv
<1>. SUFFICES ASSUME Pages!Init PROVE PagesInv
  OBVIOUS
<1>1. /\ s2 = [k \in CaptureKeys |-> None]
      /\ s3 = [k \in CaptureKeys |-> [t \in Pages!Titles |-> None]]
      /\ s5 = [r \in Requests |-> Pages!Idle]
      /\ s6 = [k \in CaptureKeys |-> {}] /\ s7 = {}
  BY DEF Pages!Init
<1>2. \A k \in CaptureKeys : PageHolds(k)
  BY <1>1 DEF PageHolds
<1>3. \A r \in Requests : PageRequestHolds(r)
  BY <1>1 DEF PageRequestHolds
<1>4. ServedApart
  BY <1>1 DEF ServedApart, Pages!Running
<1>5. /\ s3 \in [CaptureKeys -> [Pages!Titles -> Enrichments \cup {None}]]
      /\ s6 \in [CaptureKeys -> SUBSET Processes]
  BY <1>1
<1>6. QED
  BY <1>1, <1>2, <1>3, <1>4, <1>5 DEF PagesInv, PagesHeld

\* Processes receive a key, and sources are taken up again, only ever more of them.
Grows ==
  /\ s6' \in [CaptureKeys -> SUBSET Processes] /\ s7' \subseteq CaptureKeys /\ s7 \subseteq s7'
  /\ \A k \in CaptureKeys : s6[k] \subseteq s6'[k]
  /\ \A k \in s7' \ s7 : Across(k)'

LEMMA GrowsNone == ASSUME PagesHeld, UNCHANGED <<s6, s7>> PROVE Grows
BY DEF PagesHeld, Grows

LEMMA AcrossGrows == ASSUME Grows, NEW k \in CaptureKeys, Across(k) PROVE Across(k)'
BY DEF Grows, Across

\* A row may appear, and a source come to the workspace; what is there stays.
Kept ==
  /\ s1' = s1 /\ s3' = s3 /\ s4 \subseteq s4' /\ DOMAIN s2' = CaptureKeys
  /\ \A k \in CaptureKeys : s2[k] # None => s2'[k] = s2[k]

\* A request that is not in hand keeps its place while no other takes the lock of its row.
LEMMA OtherRequests ==
  ASSUME PagesHeld, Kept, Grows, NEW r \in Requests, DOMAIN s5' = Requests,
         \A p \in Requests : p # r => s5'[p] = s5[p],
         s5'[r] # Pages!Idle /\ s5'[r].pc \in {"answer", "commit"} =>
           \A p \in Requests : p # r /\ s5[p] # Pages!Idle /\ s5[p].pc \in {"answer", "commit"}
                                 => s5[p].key # s5'[r].key,
         NEW q \in Requests, q # r
  PROVE  PageRequestHolds(q)'
<1>1. PageRequestHolds(q) /\ s5'[q] = s5[q]
  BY DEF PagesHeld
<1>2. CASE s5[q] = Pages!Idle
  BY <1>1, <1>2 DEF PageRequestHolds, Pages!Idle
<1>3. CASE s5[q] # Pages!Idle
  <2>1. s5[q] \in PageRequests' /\ s5[q].key \in CaptureKeys
    BY <1>1, <1>3 DEF PageRequestHolds, PageRequests, Pages!Pcs, Pages!Statuses
  <2>2. s2[s5[q].key] # None => s2'[s5[q].key] = s2[s5[q].key]
    BY <2>1 DEF Kept
  <2>3. s5[q].pc \in {"answer", "commit"} =>
          \A p \in Requests :
            s5'[p] # Pages!Idle /\ s5'[p].pc \in {"answer", "commit"} /\ s5'[p].key = s5[q].key => p = q
    BY <1>1, <1>3 DEF PageRequestHolds
  <2>4. s1' = s1 /\ s3' = s3 /\ s4 \subseteq s4' /\ s7 \subseteq s7'
    BY DEF Kept, Grows
  <2>5. s5[q].process \in s6'[s5[q].key]
    BY <1>1, <1>3, <2>1 DEF Grows, PageRequestHolds
  <2>6. PICK k \in CaptureKeys : k = s5[q].key
    BY <2>1
  <2>7. s5[q].pc = "complete" => Across(s5[q].key)' \/ s2[s5[q].key].path = None
    <3>1. s5[q].pc = "complete" => Across(k) \/ s2[k].path = None
      BY <1>1, <1>3, <2>6 DEF PageRequestHolds
    <3>2. Across(k) => Across(k)'
      BY AcrossGrows
    <3>3. Across(k)' <=> Across(s5[q].key)'
      BY <1>1, <2>6 DEF Across
    <3>4. QED
      BY <2>6, <3>1, <3>2, <3>3
  <2>8. QED
    BY <1>1, <1>3, <2>1, <2>2, <2>3, <2>4, <2>5, <2>7 DEF PageRequestHolds, Pages!Idle, Pages!IsComplete
<1>4. QED
  BY <1>2, <1>3

\* A key whose row and files stay as they are.
LEMMA PageStays ==
  ASSUME PagesHeld, Grows, NEW k \in CaptureKeys, s1' = s1, s2'[k] = s2[k], s3'[k] = s3[k], s4 \subseteq s4'
  PROVE  PageHolds(k)'
<1>1. PageHolds(k) /\ s7 \subseteq s7'
  BY DEF PagesHeld, Grows
<1>2. k \in s7' => Across(k)'
  BY <1>1, AcrossGrows DEF Grows, PageHolds
<1>3. QED
  BY <1>1, <1>2 DEF PageHolds, Pages!Rows, Pages!Titles, Pages!IsComplete

\* A step of a request that writes no row.
LEMMA RequestMoves ==
  ASSUME PagesHeld, NEW r \in Requests, NEW a, s5' = [s5 EXCEPT ![r] = a],
         UNCHANGED <<s1, s2, s3, s4>>, Grows, PageRequestHolds(r)',
         a # Pages!Idle /\ a.pc \in {"answer", "commit"} =>
           \A p \in Requests : p # r /\ s5[p] # Pages!Idle /\ s5[p].pc \in {"answer", "commit"}
                                 => s5[p].key # a.key
  PROVE  PagesHeld'
<1>1. /\ DOMAIN s5' = Requests /\ s5'[r] = a
      /\ \A p \in Requests : p # r => s5'[p] = s5[p]
  BY DEF PagesHeld
<1>2. Kept
  BY DEF PagesHeld, Kept
<1>3. \A q \in Requests : PageRequestHolds(q)'
  BY <1>1, <1>2, OtherRequests
<1>4. \A k \in CaptureKeys : PageHolds(k)'
  BY PageStays
<1>5. QED
  BY <1>1, <1>3, <1>4 DEF PagesHeld, Grows, Pages!Titles

\* A request that goes on, or is answered, without taking a lock.
LEMMA RequestGoesOn ==
  ASSUME PagesHeld, NEW r \in Requests, s5[r] # Pages!Idle, NEW pc \in Pages!Pcs,
         NEW result \in Pages!Statuses \cup {None},
         s5' = [s5 EXCEPT ![r] = [s5[r] EXCEPT !.pc = pc, !.result = result]],
         UNCHANGED <<s1, s2, s3, s4, s6, s7>>, pc \notin {"answer", "commit"},
         pc = "complete" => s1 # "workspace" /\ s2[s5[r].key] # None
                            /\ s2[s5[r].key].payload = s5[r].payload /\ s2[s5[r].key].path = None,
         pc = "answered" /\ result = "saved" =>
           /\ s2[s5[r].key] # None /\ s2[s5[r].key].payload = s5[r].payload
           /\ IF s1 = "workspace" THEN s5[r].key \in s4 ELSE Pages!IsComplete(s2[s5[r].key])
  PROVE  PagesHeld'
<1>1. PICK q : q = s5[r]
  OBVIOUS
<1>2. PICK a : a = [q EXCEPT !.pc = pc, !.result = result]
  OBVIOUS
<1>3. q \in PageRequests /\ q.process \in s6[q.key]
  BY <1>1 DEF PagesHeld, PageRequestHolds
<1>4. /\ a \in PageRequests /\ a.pc = pc /\ a.result = result /\ a.key = q.key
      /\ a.payload = q.payload /\ a.process = q.process
  BY <1>2, <1>3 DEF PageRequests
<1>5. s5' = [s5 EXCEPT ![r] = a]
  BY <1>1, <1>2
<1>6. s5'[r] = a
  BY <1>5 DEF PagesHeld
<1>7. PageRequests' = PageRequests
  BY DEF PageRequests, Pages!Pcs, Pages!Statuses
<1>8. PageRequestHolds(r)'
  BY <1>1, <1>3, <1>4, <1>6, <1>7 DEF PageRequestHolds, Pages!IsComplete
<1>9. QED
  BY <1>4, <1>5, <1>8, GrowsNone, RequestMoves

\* What is found under a key answers the request, or sends it to complete the source.
LEMMA ExistingHolds ==
  ASSUME PagesHeld, NEW r \in Requests, s5[r] # Pages!Idle,
         Pages!Existing(r), s2[s5[r].key] # None, UNCHANGED <<s1, s2, s3, s4, s6, s7>>
  PROVE  PagesHeld'
<1>1. PICK q : q = s5[r]
  OBVIOUS
<1>2. q \in PageRequests /\ q.key \in CaptureKeys /\ PageHolds(q.key)
  BY <1>1 DEF PagesHeld, PageRequestHolds, PageRequests
<1>3. q.result \in Pages!Statuses \cup {None}
      /\ \A pc : [q EXCEPT !.pc = pc] = [q EXCEPT !.pc = pc, !.result = q.result]
  BY <1>2 DEF PageRequests
<1>4. PICK w : w = s2[q.key]
  OBVIOUS
<1>5. \/ s5' = [s5 EXCEPT ![r] = [q EXCEPT !.pc = "answered", !.result = "conflict"]]
      \/ /\ s5' = [s5 EXCEPT ![r] = [q EXCEPT !.pc = "answered", !.result = "saved"]]
         /\ w.payload = q.payload /\ (s1 = "workspace" \/ Pages!IsComplete(w))
      \/ /\ s5' = [s5 EXCEPT ![r] = [q EXCEPT !.pc = "complete", !.result = q.result]]
         /\ w.payload = q.payload /\ s1 # "workspace" /\ w.path = None
  <2>1. CASE w.payload # q.payload
    BY <1>1, <1>4, <2>1 DEF Pages!Existing, Pages!Answer, Pages!Matches
  <2>2. CASE w.payload = q.payload /\ (s1 = "workspace" \/ Pages!IsComplete(w))
    BY <1>1, <1>4, <2>2 DEF Pages!Existing, Pages!Answer, Pages!Matches
  <2>3. CASE w.payload = q.payload /\ s1 # "workspace" /\ ~Pages!IsComplete(w)
    <3>1. Pages!Goto(r, "complete") /\ w.path = None
      BY <1>1, <1>4, <2>3 DEF Pages!Existing, Pages!Matches, Pages!IsComplete
    <3>2. QED
      BY <1>1, <1>3, <2>3, <3>1 DEF Pages!Goto
  <2>4. QED
    BY <2>1, <2>2, <2>3
<1>6. s1 = "workspace" => q.key \in s4
  BY <1>1, <1>2 DEF PageHolds
<1>7. {"answered", "complete"} \subseteq Pages!Pcs /\ {"conflict", "saved"} \subseteq Pages!Statuses
  BY DEF Pages!Pcs, Pages!Statuses
<1>8. QED
  BY <1>1, <1>3, <1>4, <1>5, <1>6, <1>7, RequestGoesOn

\* The source is committed, and nothing else was under its key.
LEMMA InsertHolds ==
  ASSUME PagesHeld, NEW r \in Requests, s5[r] # Pages!Idle, Pages!Insert(r), s2[s5[r].key] = None
  PROVE  PagesHeld'
<1>1. PICK q : q = s5[r]
  OBVIOUS
<1>2. /\ q \in PageRequests /\ q.key \in CaptureKeys /\ q.payload \in Payloads /\ q.pc = "insert"
      /\ q.process \in s6[q.key]
  BY <1>1 DEF PagesHeld, PageRequestHolds, PageRequests, Pages!Insert
<1>3. PICK w : w = [payload |-> q.payload, title |-> Sent, rest |-> None, path |-> None]
  OBVIOUS
<1>4. w \in Pages!Rows /\ w # None /\ w.payload = q.payload /\ w.path = None /\ w.title = Sent
  <2>1. w \in Pages!Rows /\ w.payload = q.payload /\ w.path = None /\ w.title = Sent
    BY <1>2, <1>3 DEF Pages!Rows
  <2>2. QED
    BY <2>1, PagesAssumption
<1>5. PICK a : a = IF s1 = "workspace" THEN [q EXCEPT !.pc = "answered", !.result = "saved"]
                   ELSE [q EXCEPT !.pc = "complete"]
  OBVIOUS
<1>6. /\ s2' = [s2 EXCEPT ![q.key] = w] /\ s1' = s1 /\ s3' = s3 /\ UNCHANGED <<s6, s7>>
      /\ s5' = [s5 EXCEPT ![r] = a]
      /\ s4' = IF s1 = "workspace" THEN s4 \cup {q.key} ELSE s4
  <2>1. CASE s1 = "workspace"
    BY <1>1, <1>3, <1>5, <2>1 DEF Pages!Insert, Pages!Answer
  <2>2. CASE s1 # "workspace"
    BY <1>1, <1>3, <1>5, <2>2 DEF Pages!Insert, Pages!Goto
  <2>3. QED
    BY <2>1, <2>2
<1>7. /\ DOMAIN s2' = CaptureKeys /\ s2'[q.key] = w /\ DOMAIN s5' = Requests /\ s5'[r] = a
      /\ \A k \in CaptureKeys : k # q.key => s2'[k] = s2[k]
      /\ \A p \in Requests : p # r => s5'[p] = s5[p]
  BY <1>2, <1>6 DEF PagesHeld
<1>8. /\ a \in PageRequests' /\ a.key = q.key /\ a.payload = q.payload /\ a.process = q.process
      /\ \/ s1 = "workspace" /\ a.pc = "answered" /\ a.result = "saved"
         \/ s1 # "workspace" /\ a.pc = "complete"
  BY <1>2, <1>5 DEF PageRequests, Pages!Pcs, Pages!Statuses
<1>9. Kept /\ Grows
  BY <1>1, <1>6, <1>7, GrowsNone DEF Kept
<1>10. \A p \in Requests : p # r => PageRequestHolds(p)'
  BY <1>7, <1>8, <1>9, OtherRequests
<1>11. PageRequestHolds(r)'
  BY <1>2, <1>4, <1>6, <1>7, <1>8 DEF PageRequestHolds
<1>12. ASSUME NEW k \in CaptureKeys PROVE PageHolds(k)'
  <2>1. CASE k = q.key
    <3>1. PageHolds(k) /\ (k \in s7 => Across(k)')
      BY <1>9, AcrossGrows DEF PagesHeld, PageHolds
    <3>2. QED
      BY <1>4, <1>6, <1>7, <2>1, <3>1 DEF PageHolds, Pages!Rows, Pages!Titles, Pages!IsComplete
  <2>2. CASE k # q.key
    BY <1>6, <1>7, <1>9, <2>2, PageStays
  <2>3. QED
    BY <2>1, <2>2
<1>13. QED
  BY <1>6, <1>7, <1>10, <1>11, <1>12 DEF PagesHeld, Pages!Titles

\* Who holds the lock of a row writes files, and then what they show.
LEMMA WriteHolds ==
  ASSUME PagesHeld, NEW r \in Requests, s5[r] # Pages!Idle, NEW e \in Enrichments, Pages!Write(r, e)
  PROVE  PagesHeld'
<1>1. PICK q : q = s5[r]
  OBVIOUS
<1>2. PICK a : a = [q EXCEPT !.pc = "commit", !.written = e]
  OBVIOUS
<1>3. /\ q.pc = "answer" /\ s3' = [s3 EXCEPT ![q.key][e.title] = e] /\ s5' = [s5 EXCEPT ![r] = a]
      /\ s1' = s1 /\ s2' = s2 /\ s4' = s4 /\ UNCHANGED <<s6, s7>>
  BY <1>1, <1>2 DEF Pages!Write
<1>4. q \in PageRequests /\ q.key \in CaptureKeys /\ q.process \in s6[q.key]
  BY <1>1 DEF PagesHeld, PageRequestHolds, PageRequests
<1>5. /\ a \in PageRequests' /\ a.key = q.key /\ a.payload = q.payload /\ a.pc = "commit"
      /\ a.written = e /\ a.process = q.process
  BY <1>2, <1>4 DEF PageRequests, Pages!Pcs, Pages!Statuses
<1>6. /\ s3' \in [CaptureKeys -> [Pages!Titles -> Enrichments \cup {None}]] /\ s3'[q.key][e.title] = e
      /\ DOMAIN s5' = Requests /\ s5'[r] = a
      /\ \A k \in CaptureKeys : k # q.key => s3'[k] = s3[k]
      /\ \A p \in Requests : p # r => s5'[p] = s5[p]
  BY <1>3, <1>4, EnrichmentIs DEF PagesHeld
<1>7. /\ s1 # "workspace" /\ s2[q.key] # None /\ s2[q.key].payload = q.payload
      /\ q.key \in s7 \/ s2[q.key].path = None
      /\ \A p \in Requests :
           s5[p] # Pages!Idle /\ s5[p].pc \in {"answer", "commit"} /\ s5[p].key = q.key => p = r
  BY <1>1, <1>3 DEF PagesHeld, PageRequestHolds
<1>8. \A p \in Requests :
        s5'[p] # Pages!Idle /\ s5'[p].pc \in {"answer", "commit"} /\ s5'[p].key = q.key => p = r
  BY <1>6, <1>7 DEF Pages!Idle
<1>9. PageRequestHolds(r)'
  BY <1>3, <1>4, <1>5, <1>6, <1>7, <1>8 DEF PageRequestHolds, Pages!Idle
<1>10. ASSUME NEW p \in Requests, p # r PROVE PageRequestHolds(p)'
  <2>1. PageRequestHolds(p) /\ s5'[p] = s5[p]
    BY <1>6, <1>10 DEF PagesHeld
  <2>2. PageRequests' = PageRequests
    BY DEF PageRequests, Pages!Pcs, Pages!Statuses
  <2>3. CASE s5[p] # Pages!Idle
    <3>1. s5[p].pc = "commit" => s5[p].key # q.key
      BY <1>7, <1>10, <2>3
    <3>2. s5[p].key \in CaptureKeys
      BY <2>1, <2>3 DEF PageRequestHolds, PageRequests
    <3>3. s5[p].pc = "commit" => s3'[s5[p].key] = s3[s5[p].key]
      BY <1>6, <3>1, <3>2
    <3>4. s5[p].pc \in {"answer", "commit"} =>
            \A o \in Requests :
              s5'[o] # Pages!Idle /\ s5'[o].pc \in {"answer", "commit"} /\ s5'[o].key = s5[p].key => o = p
      BY <1>1, <1>3, <1>5, <1>6, <1>7, <1>10, <2>1, <2>3 DEF PageRequestHolds
    <3>5. Across(s5[p].key)' <=> Across(s5[p].key)
      BY <1>3, <2>1 DEF Across
    <3>6. QED
      BY <1>3, <2>1, <2>2, <2>3, <3>3, <3>4, <3>5 DEF PageRequestHolds, Pages!Idle, Pages!IsComplete
  <2>4. CASE s5[p] = Pages!Idle
    BY <2>1, <2>4 DEF PageRequestHolds, Pages!Idle
  <2>5. QED
    BY <2>3, <2>4
<1>11. ASSUME NEW k \in CaptureKeys PROVE PageHolds(k)'
  <2>1. CASE k = q.key
    <3>1. PageHolds(k) /\ (k \in s7' <=> k \in s7) /\ s2'[k] = s2[k]
      BY <1>3 DEF PagesHeld
    <3>2. Across(k) => Across(k)'
      BY <1>3 DEF Across
    <3>3. k \in s7 \/ ~Pages!IsComplete(s2[k])
      BY <1>7, <2>1 DEF Pages!IsComplete
    <3>4. QED
      BY <1>3, <1>7, <2>1, <3>1, <3>2, <3>3 DEF PageHolds, Pages!Rows, Pages!Titles, Pages!IsComplete
  <2>2. CASE k # q.key
    BY <1>3, <1>6, <2>2, GrowsNone, PageStays
  <2>3. QED
    BY <2>1, <2>2
<1>12. QED
  BY <1>3, <1>6, <1>9, <1>10, <1>11 DEF PagesHeld, Pages!Titles

\* The row shows what the files show; who has found it incomplete is of another process.
LEMMA CommitHolds ==
  ASSUME PagesInv, NEW r \in Requests, s5[r] # Pages!Idle, Pages!Commit(r)
  PROVE  PagesHeld'
<1>1. PICK q : q = s5[r]
  OBVIOUS
<1>2. /\ q \in PageRequests /\ q.key \in CaptureKeys /\ PageRequestHolds(r) /\ q.pc = "commit"
      /\ q.process \in s6[q.key]
  BY <1>1 DEF PagesInv, PagesHeld, PageRequestHolds, PageRequests, Pages!Commit
<1>3. /\ s1 # "workspace" /\ s2[q.key] # None /\ s2[q.key].payload = q.payload
      /\ q.written \in Enrichments /\ s3[q.key][q.written.title] = q.written
      /\ q.key \in s7 \/ s2[q.key].path = None
      /\ \A p \in Requests :
           s5[p] # Pages!Idle /\ s5[p].pc \in {"answer", "commit"} /\ s5[p].key = q.key => p = r
  BY <1>1, <1>2 DEF PageRequestHolds
<1>4. PICK e \in Enrichments : e = q.written
  BY <1>3
<1>5. PICK old : old = s2[q.key]
  OBVIOUS
<1>6. PICK title : title = IF e.title = Sent THEN old.title ELSE e.title
  OBVIOUS
<1>7. PICK w : w = [old EXCEPT !.title = title, !.rest = e.rest, !.path = e.title]
  OBVIOUS
<1>8. PICK a : a = [q EXCEPT !.pc = "answered", !.result = "saved"]
  OBVIOUS
<1>9. /\ s2' = [s2 EXCEPT ![q.key] = w] /\ s5' = [s5 EXCEPT ![r] = a]
      /\ s1' = s1 /\ s3' = s3 /\ s4' = s4 /\ UNCHANGED <<s6, s7>>
  BY <1>1, <1>4, <1>5, <1>6, <1>7, <1>8 DEF Pages!Commit, Pages!Answer
<1>10. old \in Pages!Rows /\ old.payload = q.payload /\ (q.key \notin s7 => old.title = Sent)
  <2>1. PageHolds(q.key)
    BY <1>2 DEF PagesInv, PagesHeld
  <2>2. QED
    BY <1>3, <1>5, <2>1 DEF PageHolds, Pages!IsComplete
<1>11. /\ w \in Pages!Rows /\ w.payload = q.payload /\ w.title = title /\ w.rest = e.rest
       /\ w.path = e.title
  <2>1. title \in Pages!Titles \cup {Sent}
    BY <1>6, <1>10, EnrichmentIs DEF Pages!Rows
  <2>2. e.rest \in {d.rest : d \in Enrichments} /\ e.title \in Pages!Titles
    BY EnrichmentIs
  <2>3. QED
    BY <1>7, <1>10, <2>1, <2>2 DEF Pages!Rows
<1>12. w # None /\ Pages!IsComplete(w)
  BY <1>11, EnrichmentIs, PagesAssumption DEF Pages!IsComplete
<1>13. q.key \notin s7 => s3[q.key][w.path] = [title |-> w.title, rest |-> w.rest]
  <2>1. SUFFICES ASSUME q.key \notin s7 PROVE s3[q.key][w.path] = [title |-> w.title, rest |-> w.rest]
    OBVIOUS
  <2>2. title = e.title
    BY <1>6, <1>10, <2>1
  <2>3. QED
    BY <1>3, <1>4, <1>11, <2>2, EnrichmentIs
<1>14. /\ a \in PageRequests' /\ a.key = q.key /\ a.payload = q.payload /\ a.process = q.process
       /\ a.pc = "answered" /\ a.result = "saved"
  BY <1>2, <1>8 DEF PageRequests, Pages!Pcs, Pages!Statuses
<1>15. /\ DOMAIN s2' = CaptureKeys /\ s2'[q.key] = w /\ DOMAIN s5' = Requests /\ s5'[r] = a
       /\ \A k \in CaptureKeys : k # q.key => s2'[k] = s2[k]
       /\ \A p \in Requests : p # r => s5'[p] = s5[p]
  BY <1>2, <1>9 DEF PagesInv, PagesHeld
<1>16. PageRequestHolds(r)'
  BY <1>2, <1>3, <1>9, <1>11, <1>12, <1>14, <1>15 DEF PageRequestHolds, Pages!IsComplete
<1>17. ASSUME NEW p \in Requests, p # r PROVE PageRequestHolds(p)'
  <2>1. PageRequestHolds(p) /\ s5'[p] = s5[p]
    BY <1>15, <1>17 DEF PagesInv, PagesHeld
  <2>2. PageRequests' = PageRequests
    BY DEF PageRequests, Pages!Pcs, Pages!Statuses
  <2>3. CASE s5[p] # Pages!Idle
    <3>1. s5[p].key \in CaptureKeys /\ s5[p].process \in s6[s5[p].key]
      BY <2>1, <2>3 DEF PageRequestHolds, PageRequests
    <3>2. s5[p].pc \in {"answer", "commit"} => s2'[s5[p].key] = s2[s5[p].key]
      BY <1>3, <1>15, <1>17, <2>3, <3>1
    <3>3. s2[s5[p].key] # None =>
            /\ s2'[s5[p].key] # None /\ s2'[s5[p].key].payload = s2[s5[p].key].payload
            /\ Pages!IsComplete(s2[s5[p].key]) => Pages!IsComplete(s2'[s5[p].key])
      BY <1>3, <1>11, <1>12, <1>15, <3>1
    <3>4. s5[p].pc \in {"answer", "commit"} =>
            \A o \in Requests :
              s5'[o] # Pages!Idle /\ s5'[o].pc \in {"answer", "commit"} /\ s5'[o].key = s5[p].key => o = p
      BY <1>14, <1>15, <2>1, <2>3 DEF PageRequestHolds
    <3>5. s5[p].pc = "complete" => Across(s5[p].key)' \/ s2'[s5[p].key].path = None
      <4>1. SUFFICES ASSUME s5[p].pc = "complete" PROVE Across(s5[p].key)' \/ s2'[s5[p].key].path = None
        OBVIOUS
      <4>2. CASE s5[p].key = q.key
        <5>1. Pages!Running(p) /\ Pages!Running(r)
          BY <1>1, <1>2, <2>3, <4>1 DEF Pages!Running
        <5>2. s5[p].process # q.process
          BY <1>1, <1>17, <4>2, <5>1 DEF PagesInv, ServedApart
        <5>3. QED
          BY <1>2, <1>9, <2>1, <3>1, <4>2, <5>2 DEF Across
      <4>3. CASE s5[p].key # q.key
        <5>1. Across(s5[p].key) \/ s2[s5[p].key].path = None
          BY <2>1, <2>3, <4>1 DEF PageRequestHolds
        <5>2. QED
          BY <1>9, <1>15, <2>1, <3>1, <4>3, <5>1 DEF Across
      <4>4. QED
        BY <4>2, <4>3
    <3>6. QED
      BY <1>9, <2>1, <2>2, <2>3, <3>2, <3>3, <3>4, <3>5 DEF PageRequestHolds, Pages!Idle, Pages!IsComplete
  <2>4. CASE s5[p] = Pages!Idle
    BY <2>1, <2>4 DEF PageRequestHolds, Pages!Idle
  <2>5. QED
    BY <2>3, <2>4
<1>18. ASSUME NEW k \in CaptureKeys PROVE PageHolds(k)'
  <2>1. CASE k = q.key
    <3>1. k \in s7' => Across(k)'
      BY <1>9 DEF PagesInv, PagesHeld, PageHolds, Across
    <3>2. QED
      BY <1>3, <1>9, <1>11, <1>12, <1>13, <1>15, <2>1, <3>1
      DEF PageHolds, Pages!Rows, Pages!Titles, Pages!IsComplete
  <2>2. CASE k # q.key
    BY <1>9, <1>15, <2>2, GrowsNone, PageStays DEF PagesInv
  <2>3. QED
    BY <2>1, <2>2
<1>19. QED
  BY <1>9, <1>15, <1>16, <1>17, <1>18 DEF PagesInv, PagesHeld, Pages!Titles

\* A request goes on with its key, or ends, or comes when its process serves none with its key.
LEMMA StaysApart ==
  ASSUME ServedApart, DOMAIN s5 = Requests, NEW r \in Requests, NEW a, s5' = [s5 EXCEPT ![r] = a],
         \/ a = Pages!Idle
         \/ a.pc = "answered"
         \/ Pages!Running(r) /\ a.key = s5[r].key /\ a.process = s5[r].process
         \/ Pages!Serving(a.process, a.key) = {}
  PROVE  ServedApart'
<1>1. s5'[r] = a /\ \A p \in Requests : p # r => s5'[p] = s5[p]
  OBVIOUS
<1>2. ASSUME NEW p \in Requests, p # r, Pages!Running(p)', Pages!Running(r)', s5'[p].key = s5'[r].key
      PROVE  s5'[p].process # s5'[r].process
  <2>1. s5'[p] = s5[p] /\ Pages!Running(p) /\ a # Pages!Idle /\ a.pc # "answered"
    BY <1>1, <1>2 DEF Pages!Running, Pages!Idle
  <2>2. CASE Pages!Running(r) /\ a.key = s5[r].key /\ a.process = s5[r].process
    BY <1>1, <1>2, <2>1, <2>2 DEF ServedApart
  <2>3. CASE Pages!Serving(a.process, a.key) = {}
    BY <1>1, <1>2, <2>1, <2>3 DEF Pages!Serving
  <2>4. QED
    BY <2>1, <2>2, <2>3
<1>3. ASSUME NEW p \in Requests, NEW q \in Requests, p # r, q # r, p # q,
             Pages!Running(p)', Pages!Running(q)', s5'[p].key = s5'[q].key
      PROVE  s5'[p].process # s5'[q].process
  <2>1. s5'[p] = s5[p] /\ s5'[q] = s5[q] /\ Pages!Running(p) /\ Pages!Running(q)
    BY <1>1, <1>3 DEF Pages!Running, Pages!Idle
  <2>2. QED
    BY <1>3, <2>1 DEF ServedApart
<1>4. QED
  BY <1>2, <1>3 DEF ServedApart

LEMMA ApartKeeps ==
  ASSUME PagesInv, [Pages!Next]_(Pages!vars)
  PROVE  ServedApart'
<1>1. CASE UNCHANGED Pages!vars
  BY <1>1 DEF Pages!vars, PagesInv, ServedApart, Pages!Running, Pages!Idle
<1>2. DOMAIN s5 = Requests /\ ServedApart
  BY DEF PagesInv, PagesHeld
<1>3. ASSUME NEW r \in Requests, s5[r] # Pages!Idle
      PROVE  s5[r] \in PageRequests /\ s5[r].key \in CaptureKeys
  BY <1>3 DEF PagesInv, PagesHeld, PageRequestHolds, PageRequests
<1>4. ASSUME NEW r \in Requests, NEW k \in CaptureKeys, NEW p \in Payloads, NEW process \in Processes,
             Pages!Receive(r, k, p, process)
      PROVE  ServedApart'
  <2>1. PICK a : a = [pc |-> "find", key |-> k, payload |-> p, process |-> process,
                      written |-> None, result |-> None]
    OBVIOUS
  <2>2. s5' = [s5 EXCEPT ![r] = a] /\ Pages!Serving(a.process, a.key) = {}
    BY <1>4, <2>1 DEF Pages!Receive
  <2>3. QED
    BY <1>2, <2>2, StaysApart
<1>5. ASSUME NEW r \in Requests, s5[r] # Pages!Idle, s5[r].pc # "answered", NEW pc, Pages!Goto(r, pc)
      PROVE  ServedApart'
  <2>1. PICK a : a = [s5[r] EXCEPT !.pc = pc]
    OBVIOUS
  <2>2. s5' = [s5 EXCEPT ![r] = a] /\ a.key = s5[r].key /\ a.process = s5[r].process
    BY <1>3, <1>5, <2>1 DEF Pages!Goto, PageRequests
  <2>3. QED
    BY <1>2, <1>5, <2>2, StaysApart DEF Pages!Running
<1>6. ASSUME NEW r \in Requests, s5[r] # Pages!Idle, NEW status, Pages!Answer(r, status)
      PROVE  ServedApart'
  <2>1. PICK a : a = [s5[r] EXCEPT !.pc = "answered", !.result = status]
    OBVIOUS
  <2>2. s5' = [s5 EXCEPT ![r] = a] /\ a.pc = "answered"
    BY <1>3, <1>6, <2>1 DEF Pages!Answer, PageRequests
  <2>3. QED
    BY <1>2, <2>2, StaysApart
<1>7. ASSUME NEW r \in Requests, s5[r] # Pages!Idle, s5[r].pc # "answered", Pages!Existing(r)
      PROVE  ServedApart'
  BY <1>5, <1>6, <1>7 DEF Pages!Existing
<1>8. ASSUME NEW r \in Requests, s5[r] # Pages!Idle,
             Pages!Find(r) \/ Pages!Lock(r) \/ Pages!Fail(r) \/ Pages!Commit(r)
      PROVE  ServedApart'
  BY <1>5, <1>6, <1>7, <1>8 DEF Pages!Find, Pages!Lock, Pages!Fail, Pages!Commit
<1>9. ASSUME NEW r \in Requests, s5[r] # Pages!Idle, Pages!Insert(r)
      PROVE  ServedApart'
  BY <1>5, <1>6, <1>7, <1>9 DEF Pages!Insert
<1>10. ASSUME NEW r \in Requests, s5[r] # Pages!Idle, NEW e \in Enrichments, Pages!Write(r, e)
       PROVE  ServedApart'
  <2>1. PICK a : a = [s5[r] EXCEPT !.pc = "commit", !.written = e]
    OBVIOUS
  <2>2. /\ s5' = [s5 EXCEPT ![r] = a] /\ a.key = s5[r].key /\ a.process = s5[r].process
        /\ s5[r].pc = "answer"
    BY <1>3, <1>10, <2>1 DEF Pages!Write, PageRequests
  <2>3. QED
    BY <1>2, <1>10, <2>2, StaysApart DEF Pages!Running
<1>11. ASSUME NEW r \in Requests, Pages!Leave(r)
       PROVE  ServedApart'
  <2>1. s5' = [s5 EXCEPT ![r] = Pages!Idle]
    BY <1>11 DEF Pages!Leave
  <2>2. QED
    BY <1>2, <2>1, StaysApart
<1>12. QED
  BY <1>1, <1>4, <1>8, <1>9, <1>10, <1>11 DEF Pages!Next

LEMMA PagesKeep ==
  ASSUME PagesInv, [Pages!Next]_(Pages!vars)
  PROVE  PagesInv'
<1>. USE DEF PagesInv
<1>1. ASSUME UNCHANGED Pages!vars PROVE PagesHeld'
  <2>1. PageRequests' = PageRequests
    BY DEF PageRequests, Pages!Pcs, Pages!Statuses
  <2>2. UNCHANGED <<s1, s2, s3, s4, s5, s6, s7>>
    BY <1>1 DEF Pages!vars
  <2>3. \A r \in Requests : PageRequestHolds(r)'
    BY <2>1, <2>2 DEF PagesHeld, PageRequestHolds, Across, Pages!Idle, Pages!IsComplete
  <2>4. \A k \in CaptureKeys : PageHolds(k)'
    BY <2>2, GrowsNone, PageStays
  <2>5. QED
    BY <2>2, <2>3, <2>4 DEF PagesHeld, Pages!Titles
<1>2. ASSUME NEW r \in Requests, NEW k \in CaptureKeys, NEW p \in Payloads, NEW process \in Processes,
             Pages!Receive(r, k, p, process)
      PROVE  PagesHeld'
  <2>1. PICK a : a = [pc |-> "find", key |-> k, payload |-> p, process |-> process,
                      written |-> None, result |-> None]
    OBVIOUS
  <2>2. /\ s5' = [s5 EXCEPT ![r] = a] /\ UNCHANGED <<s1, s2, s3, s4, s7>>
        /\ s6' = [s6 EXCEPT ![k] = @ \cup {process}]
    BY <1>2, <2>1 DEF Pages!Receive
  <2>3. a \in PageRequests' /\ a.pc = "find" /\ a.key = k /\ a.process = process
    BY <2>1 DEF PageRequests, Pages!Pcs, Pages!Statuses
  <2>4. s5'[r] = a
    BY <2>2 DEF PagesHeld
  <2>5. Grows /\ process \in s6'[k]
    BY <2>2 DEF PagesHeld, Grows
  <2>6. PageRequestHolds(r)'
    BY <2>3, <2>4, <2>5 DEF PageRequestHolds
  <2>7. QED
    BY <2>2, <2>3, <2>5, <2>6, RequestMoves
<1>3. ASSUME NEW r \in Requests, s5[r] # Pages!Idle, Pages!Find(r) PROVE PagesHeld'
  <2>1. UNCHANGED <<s1, s2, s3, s4, s6, s7>> /\ s5[r].pc = "find"
    BY <1>3 DEF Pages!Find
  <2>2. CASE s2[s5[r].key] # None
    BY <1>3, <2>1, <2>2, ExistingHolds DEF Pages!Find
  <2>3. CASE s2[s5[r].key] = None
    <3>1. s5[r] \in PageRequests
      BY <1>3 DEF PagesHeld, PageRequestHolds
    <3>2. s5' = [s5 EXCEPT ![r] = [s5[r] EXCEPT !.pc = "insert"]]
      BY <1>3, <2>3 DEF Pages!Find, Pages!Goto
    <3>3. /\ [s5[r] EXCEPT !.pc = "insert"] = [s5[r] EXCEPT !.pc = "insert", !.result = s5[r].result]
          /\ s5[r].result \in Pages!Statuses \cup {None} /\ "insert" \in Pages!Pcs
      BY <3>1 DEF PageRequests, Pages!Pcs
    <3>4. QED
      BY <1>3, <2>1, <3>2, <3>3, RequestGoesOn
  <2>4. QED
    BY <2>2, <2>3
<1>4. ASSUME NEW r \in Requests, s5[r] # Pages!Idle, Pages!Insert(r) PROVE PagesHeld'
  <2>1. CASE s2[s5[r].key] = None
    BY <1>4, <2>1, InsertHolds
  <2>2. CASE s2[s5[r].key] # None
    <3>1. Pages!Existing(r) /\ UNCHANGED <<s1, s2, s3, s4, s6, s7>>
      BY <1>4, <2>2 DEF Pages!Insert
    <3>2. QED
      BY <1>4, <2>2, <3>1, ExistingHolds
  <2>3. QED
    BY <2>1, <2>2
<1>5. ASSUME NEW r \in Requests, s5[r] # Pages!Idle, Pages!Lock(r) PROVE PagesHeld'
  <2>1. PICK q : q = s5[r]
    OBVIOUS
  <2>2. /\ q \in PageRequests /\ q.key \in CaptureKeys /\ PageRequestHolds(r) /\ q.pc = "complete"
        /\ UNCHANGED <<s1, s2, s3, s4, s6>> /\ q.process \in s6[q.key]
    BY <1>5, <2>1 DEF PagesHeld, PageRequestHolds, PageRequests, Pages!Lock
  <2>3. /\ s1 # "workspace" /\ s2[q.key] # None /\ s2[q.key].payload = q.payload
        /\ Across(q.key) \/ s2[q.key].path = None
    BY <1>5, <2>1, <2>2 DEF PageRequestHolds
  <2>4. PICK a : a = [q EXCEPT !.pc = "answer"]
    OBVIOUS
  <2>5. s5' = [s5 EXCEPT ![r] = a]
    BY <1>5, <2>1, <2>4 DEF Pages!Lock, Pages!Goto
  <2>6. s7' = IF Pages!IsComplete(s2[q.key]) THEN s7 \cup {q.key} ELSE s7
    BY <1>5, <2>1 DEF Pages!Lock
  <2>7. Grows /\ (q.key \in s7' \/ s2[q.key].path = None)
    BY <2>2, <2>3, <2>6 DEF PagesHeld, Grows, Across, Pages!IsComplete
  <2>8. /\ a \in PageRequests' /\ a.pc = "answer" /\ a.key = q.key /\ a.payload = q.payload
        /\ a.process = q.process
    BY <2>2, <2>4 DEF PageRequests, Pages!Pcs, Pages!Statuses
  <2>9. s5'[r] = a /\ \A p \in Requests : p # r => s5'[p] = s5[p]
    BY <2>5 DEF PagesHeld
  <2>10. \A p \in Requests : s5[p] # Pages!Idle /\ s5[p].pc \in {"answer", "commit"}
                               => s5[p].key # q.key
    BY <1>5, <2>1 DEF Pages!Lock, Pages!Holders, Pages!Running
  <2>11. PageRequestHolds(r)'
    BY <2>2, <2>3, <2>7, <2>8, <2>9, <2>10 DEF PageRequestHolds, Pages!Idle
  <2>12. QED
    BY <2>2, <2>5, <2>7, <2>8, <2>10, <2>11, RequestMoves
<1>6. ASSUME NEW r \in Requests, s5[r] # Pages!Idle, Pages!Fail(r) PROVE PagesHeld'
  <2>1. /\ s5' = [s5 EXCEPT ![r] = [s5[r] EXCEPT !.pc = "answered", !.result = "retry"]]
        /\ UNCHANGED <<s1, s2, s3, s4, s6, s7>>
    BY <1>6 DEF Pages!Fail, Pages!Answer
  <2>2. "answered" \in Pages!Pcs /\ "retry" \in Pages!Statuses
    BY DEF Pages!Pcs, Pages!Statuses
  <2>3. QED
    BY <1>6, <2>1, <2>2, RequestGoesOn
<1>7. ASSUME NEW r \in Requests, Pages!Leave(r) PROVE PagesHeld'
  <2>1. s5' = [s5 EXCEPT ![r] = Pages!Idle] /\ UNCHANGED <<s1, s2, s3, s4, s6, s7>>
    BY <1>7 DEF Pages!Leave
  <2>2. s5'[r] = Pages!Idle
    BY <2>1 DEF PagesHeld
  <2>3. PageRequestHolds(r)'
    BY <2>2 DEF PageRequestHolds, Pages!Idle
  <2>4. QED
    BY <2>1, <2>3, GrowsNone, RequestMoves
<1>8. PagesHeld'
  BY <1>1, <1>2, <1>3, <1>4, <1>5, <1>6, <1>7, WriteHolds, CommitHolds DEF Pages!Next
<1>9. QED
  BY <1>8, ApartKeeps

LEMMA PagesHold == PagesInv => Pages!SavedIsStored /\ Pages!FilesShowRow /\ Pages!RepeatedAcross
<1>1. PagesInv => Pages!SavedIsStored
  BY DEF PagesInv, PagesHeld, PageRequestHolds, Pages!SavedIsStored
<1>2. PagesInv => Pages!FilesShowRow /\ Pages!RepeatedAcross
  BY DEF PagesInv, PagesHeld, PageHolds, Across, Pages!FilesShowRow, Pages!RepeatedAcross
<1>3. QED
  BY <1>1, <1>2

------------------------------------------------------------------------------
(* Bundles of agents: s2 is what the hooks do, s3 the clock, s4 the files on  *)
(* disk, s5 what the backend holds and s6 when it was captured, s7 what was   *)
(* dealt with and s8 what was written over.                                   *)

\* A bundle is of its host, or of a file handed over when the bundle was made.
OfHost(h, b) ==
  /\ b.at \in Nat /\ b.at <= s3
  /\ b.session = <<h>> \/ \E n \in Files : b.session = <<b.at, n>>

\* No file was captured at the backend after it was handed over.
MarksHold ==
  /\ s3 \in Nat /\ DOMAIN s5 = DOMAIN s6
  /\ \A s \in DOMAIN s6 :
       /\ s6[s] \in Nat /\ s6[s] <= s3
       /\ \A t \in Nat, n \in Files : s = <<t, n>> => s6[s] <= t

\* What a hook has in hand is the newest of its conversation, at the backend and on disk.
HookHolds(h) ==
  s2[h] # Agents!Quiet =>
    /\ s2[h] = [state |-> s2[h].state, bundle |-> s2[h].bundle]
    /\ OfHost(h, s2[h].bundle)
    /\ <<h>> \in DOMAIN s6 => s6[<<h>>] <= s2[h].bundle.at \/ s2[h].bundle.session # <<h>>
    /\ \A n \in DOMAIN s4 : s4[n].session = <<h>> =>
         s4[n].at <= s2[h].bundle.at \/ s2[h].bundle.session # <<h>>

AgentsInv ==
  /\ DOMAIN s2 = Hosts
  /\ MarksHold
  /\ \A n \in DOMAIN s4 : \E h \in Hosts : OfHost(h, s4[n])
  /\ \A h \in Hosts : HookHolds(h)
  /\ Agents!HandedOver

LEMMA AgentsStart == Agents!Init => AgentsInv
<1>. SUFFICES ASSUME Agents!Init PROVE AgentsInv
  OBVIOUS
<1>1. /\ s2 = [h \in Hosts |-> Agents!Quiet] /\ s3 = 0 /\ s7 = {}
      /\ s4 = [n \in {} |-> None] /\ s5 = [n \in {} |-> None] /\ s6 = [n \in {} |-> None]
  BY DEF Agents!Init
<1>2. MarksHold
  BY <1>1 DEF MarksHold
<1>3. \A h \in Hosts : HookHolds(h)
  BY <1>1 DEF HookHolds
<1>4. QED
  BY <1>1, <1>2, <1>3 DEF AgentsInv, Agents!HandedOver

\* One conversation is not another, and not a file.
LEMMA SessionsDiffer ==
  /\ \A g, h : <<g>> = <<h>> => g = h
  /\ \A h, t, n : <<h>> # <<t, n>>
  /\ \A t, n, u, m : <<t, n>> = <<u, m>> => t = u
<1>1. \A g, h : <<g>> = <<h>> => g = h
  OBVIOUS
<1>2. ASSUME NEW h, NEW t, NEW n PROVE <<h>> # <<t, n>>
  <2>1. Len(<<h>>) = 1 /\ Len(<<t, n>>) = 2
    OBVIOUS
  <2>2. QED
    BY <2>1
<1>3. \A t, n, u, m : <<t, n>> = <<u, m>> => t = u
  OBVIOUS
<1>4. QED
  BY <1>1, <1>2, <1>3

\* The backend forgets no message, and has those of a bundle that is not older than what it
\* has of the conversation.
LEMMA ImportAdds ==
  ASSUME DOMAIN s5 = DOMAIN s6, NEW b, Agents!Import(b)
  PROVE  /\ DOMAIN s5' = DOMAIN s6'
         /\ \A s : DOMAIN Agents!Known(s) \subseteq DOMAIN Agents!Known(s)'
         /\ ~Agents!Older(b) =>
              /\ Agents!Holds(b)'
              /\ DOMAIN s6' = DOMAIN s6 \cup {b.session} /\ s6'[b.session] = b.at
              /\ \A s \in DOMAIN s6 : s # b.session => s6'[s] = s6[s]
         /\ Agents!Older(b) => s6' = s6
<1>1. CASE Agents!Older(b)
  BY <1>1 DEF Agents!Import, Agents!Known
<1>2. CASE ~Agents!Older(b)
  <2>1. PICK merged, given :
          /\ given = {b.messages[i].id : i \in DOMAIN b.messages}
          /\ DOMAIN merged = DOMAIN Agents!Known(b.session) \cup given
          /\ s5' = [s \in DOMAIN s5 \cup {b.session} |-> IF s = b.session THEN merged ELSE s5[s]]
          /\ s6' = [s \in DOMAIN s6 \cup {b.session} |-> IF s = b.session THEN b.at ELSE s6[s]]
    BY <1>2 DEF Agents!Import
  <2>2. DOMAIN s5' = DOMAIN s5 \cup {b.session} /\ s5'[b.session] = merged
        /\ \A s \in DOMAIN s5 : s # b.session => s5'[s] = s5[s]
    BY <2>1
  <2>3. Agents!Holds(b)'
    BY <2>1, <2>2 DEF Agents!Holds, Agents!Known
  <2>4. ASSUME NEW s PROVE DOMAIN Agents!Known(s) \subseteq DOMAIN Agents!Known(s)'
    <3>1. CASE s = b.session
      BY <2>1, <2>2, <3>1 DEF Agents!Known
    <3>2. CASE s # b.session
      BY <2>2, <3>2 DEF Agents!Known
    <3>3. QED
      BY <3>1, <3>2
  <2>5. QED
    BY <1>2, <2>1, <2>2, <2>3, <2>4
<1>3. QED
  BY <1>1, <1>2

\* What was dealt with stays accounted for while the backend forgets nothing and every file
\* stays, or is written over.
LEMMA StillHandedOver ==
  ASSUME Agents!HandedOver, s7' = s7, s8 \subseteq s8',
         \A s : DOMAIN Agents!Known(s) \subseteq DOMAIN Agents!Known(s)',
         \A n \in DOMAIN s4 : s4[n] \in s8' \/ (n \in DOMAIN s4' /\ s4'[n] = s4[n])
  PROVE  Agents!HandedOver'
<1>1. ASSUME NEW b \in s7'
      PROVE  (Agents!Holds(b) \/ b \in s8 \/ \E n \in DOMAIN s4 : s4[n] = b)'
  <2>1. Agents!Holds(b) \/ b \in s8 \/ \E n \in DOMAIN s4 : s4[n] = b
    BY <1>1 DEF Agents!HandedOver
  <2>2. Agents!Holds(b) => Agents!Holds(b)'
    BY DEF Agents!Holds
  <2>3. QED
    BY <2>1, <2>2
<1>2. QED
  BY <1>1 DEF Agents!HandedOver

\* The backend takes a bundle that is the newest of its conversation.
LEMMA ImportKeeps ==
  ASSUME AgentsInv, NEW g \in Hosts, NEW b, OfHost(g, b), Agents!Import(b), s3' = s3,
         \A h \in Hosts : s2[h] # Agents!Quiet /\ s2[h].bundle.session = <<h>> /\ b.session = <<h>>
                            => b.at <= s2[h].bundle.at
  PROVE  /\ MarksHold'
         /\ \A h \in Hosts : \A t : s2[h] # Agents!Quiet /\ s2[h].bundle.session = <<h>> /\ t = <<h>>
                                  /\ t \in DOMAIN s6' => s6'[t] <= s2[h].bundle.at
<1>1. /\ DOMAIN s5' = DOMAIN s6'
      /\ ~Agents!Older(b) =>
           /\ DOMAIN s6' = DOMAIN s6 \cup {b.session} /\ s6'[b.session] = b.at
           /\ \A s \in DOMAIN s6 : s # b.session => s6'[s] = s6[s]
      /\ Agents!Older(b) => s6' = s6
  BY ImportAdds DEF AgentsInv, MarksHold
<1>2. b.at \in Nat /\ b.at <= s3 /\ (b.session = <<g>> \/ \E n \in Files : b.session = <<b.at, n>>)
  BY DEF OfHost
<1>3. ASSUME NEW s \in DOMAIN s6'
      PROVE  /\ s6'[s] \in Nat /\ s6'[s] <= s3
             /\ \A t \in Nat, n \in Files : s = <<t, n>> => s6'[s] <= t
  <2>1. CASE s \in DOMAIN s6 /\ s6'[s] = s6[s]
    BY <2>1 DEF AgentsInv, MarksHold
  <2>2. CASE s = b.session /\ s6'[s] = b.at
    <3>1. ASSUME NEW t \in Nat, NEW n \in Files, s = <<t, n>> PROVE b.at <= t
      BY <1>2, <2>2, <3>1, SessionsDiffer
    <3>2. QED
      BY <1>2, <2>2, <3>1
  <2>3. QED
    BY <1>1, <2>1, <2>2
<1>4. MarksHold'
  BY <1>1, <1>3 DEF AgentsInv, MarksHold
<1>5. ASSUME NEW h \in Hosts, NEW t, s2[h] # Agents!Quiet, s2[h].bundle.session = <<h>>, t = <<h>>,
             t \in DOMAIN s6'
      PROVE  s6'[t] <= s2[h].bundle.at
  <2>1. CASE t \in DOMAIN s6 /\ s6'[t] = s6[t]
    BY <1>5, <2>1 DEF AgentsInv, HookHolds
  <2>2. CASE t = b.session /\ s6'[t] = b.at
    BY <1>5, <2>2
  <2>3. QED
    BY <1>1, <1>5, <2>1, <2>2
<1>6. QED
  BY <1>4, <1>5

\* A hook takes up a bundle, which is the newest there is.
LEMMA PostingHolds ==
  ASSUME AgentsInv, NEW h \in Hosts, NEW b, OfHost(h, b), b.at = s3, Agents!Posting(h, b),
         UNCHANGED <<s3, s4, s5, s6, s7, s8>>
  PROVE  AgentsInv'
<1>1. /\ s2' = [s2 EXCEPT ![h] = [state |-> "posting", bundle |-> b]]
  BY DEF Agents!Posting
<1>2. /\ DOMAIN s2' = Hosts /\ s2'[h] = [state |-> "posting", bundle |-> b]
      /\ \A g \in Hosts : g # h => s2'[g] = s2[g]
  BY <1>1 DEF AgentsInv
<1>3. s2'[h].bundle = b /\ s2'[h].state = "posting"
  BY <1>2
<1>4. <<h>> \in DOMAIN s6 => s6[<<h>>] <= b.at
  BY DEF AgentsInv, MarksHold
<1>5. \A n \in DOMAIN s4 : s4[n].at <= b.at
  BY DEF AgentsInv, OfHost
<1>6. HookHolds(h)'
  BY <1>2, <1>3, <1>4, <1>5 DEF HookHolds, OfHost
<1>7. \A g \in Hosts : g # h => HookHolds(g)'
  BY <1>2 DEF AgentsInv, HookHolds, OfHost, Agents!Quiet
<1>8. Agents!HandedOver'
  BY DEF AgentsInv, Agents!HandedOver, Agents!Holds, Agents!Known
<1>9. QED
  BY <1>2, <1>6, <1>7, <1>8 DEF AgentsInv, MarksHold, OfHost

\* A hook goes on with its bundle, or ends, perhaps leaving it on disk.
LEMMA HooksKept ==
  ASSUME AgentsInv, NEW h \in Hosts, s2[h] # Agents!Quiet, s3' = s3,
         \/ s2' = [s2 EXCEPT ![h] = Agents!Quiet]
         \/ s2' = [s2 EXCEPT ![h].state = "saving"] /\ s4' = s4,
         \A n \in DOMAIN s4' : \/ n \in DOMAIN s4 /\ s4'[n] = s4[n]
                               \/ s4'[n] = s2[h].bundle,
         \A g \in Hosts : \A t : s2[g] # Agents!Quiet /\ s2[g].bundle.session = <<g>> /\ t = <<g>>
                               /\ t \in DOMAIN s6' => s6'[t] <= s2[g].bundle.at
  PROVE  /\ DOMAIN s2' = Hosts
         /\ \A g \in Hosts : HookHolds(g)'
         /\ \A n \in DOMAIN s4' : \E g \in Hosts : OfHost(g, s4[n])'
<1>1. HookHolds(h) /\ OfHost(h, s2[h].bundle)
  BY DEF AgentsInv, HookHolds
<1>2. /\ DOMAIN s2' = Hosts /\ \A g \in Hosts : g # h => s2'[g] = s2[g]
      /\ \/ s2'[h] = Agents!Quiet
         \/ s2'[h] = [s2[h] EXCEPT !.state = "saving"] /\ s4' = s4
  BY DEF AgentsInv
<1>3. ASSUME NEW g \in Hosts, g # h PROVE HookHolds(g)'
  <2>1. s2'[g] = s2[g] /\ HookHolds(g)
    BY <1>2, <1>3 DEF AgentsInv
  <2>2. CASE s2[g] = Agents!Quiet
    BY <2>1, <2>2 DEF HookHolds, Agents!Quiet
  <2>3. CASE s2[g] # Agents!Quiet
    <3>1. ASSUME NEW n \in DOMAIN s4', s4'[n].session = <<g>>, s2[g].bundle.session = <<g>>
          PROVE  s4'[n].at <= s2[g].bundle.at
      <4>1. CASE n \in DOMAIN s4 /\ s4'[n] = s4[n]
        BY <2>1, <2>3, <3>1, <4>1 DEF HookHolds
      <4>2. CASE s4'[n] = s2[h].bundle
        BY <1>1, <1>3, <3>1, <4>2, SessionsDiffer DEF OfHost
      <4>3. QED
        BY <4>1, <4>2
    <3>2. <<g>> \in DOMAIN s6' => s6'[<<g>>] <= s2[g].bundle.at \/ s2[g].bundle.session # <<g>>
      BY <2>3
    <3>3. OfHost(g, s2[g].bundle) /\ s2[g] = [state |-> s2[g].state, bundle |-> s2[g].bundle]
      BY <2>1, <2>3 DEF HookHolds
    <3>4. QED
      BY <2>1, <2>3, <3>1, <3>2, <3>3 DEF HookHolds, OfHost
  <2>4. QED
    BY <2>2, <2>3
<1>4. HookHolds(h)'
  <2>1. CASE s2'[h] = Agents!Quiet
    BY <2>1 DEF HookHolds, Agents!Quiet
  <2>2. CASE s2'[h] = [s2[h] EXCEPT !.state = "saving"] /\ s4' = s4
    <3>1. s2[h] = [state |-> s2[h].state, bundle |-> s2[h].bundle]
      BY <1>1 DEF HookHolds
    <3>2. s2'[h] = [state |-> "saving", bundle |-> s2[h].bundle]
      BY <2>2, <3>1
    <3>3. s2'[h].bundle = s2[h].bundle /\ s2'[h].state = "saving"
      BY <3>2
    <3>4. <<h>> \in DOMAIN s6' => s6'[<<h>>] <= s2[h].bundle.at \/ s2[h].bundle.session # <<h>>
      OBVIOUS
    <3>5. QED
      BY <1>1, <2>2, <3>2, <3>3, <3>4 DEF HookHolds, OfHost
  <2>3. QED
    BY <1>2, <2>1, <2>2
<1>5. ASSUME NEW n \in DOMAIN s4' PROVE \E g \in Hosts : OfHost(g, s4[n])'
  <2>1. CASE n \in DOMAIN s4 /\ s4'[n] = s4[n]
    BY <2>1 DEF AgentsInv, OfHost
  <2>2. CASE s4'[n] = s2[h].bundle
    BY <1>1, <2>2 DEF OfHost
  <2>3. QED
    BY <2>1, <2>2
<1>6. QED
  BY <1>2, <1>3, <1>4, <1>5

\* The backend has the bundle, or the hook has it saved.
LEMMA PostKeeps ==
  ASSUME AgentsInv, NEW h \in Hosts, NEW outcome \in {"stored", "unheard", "refused", "lost"},
         Agents!Post(h, outcome)
  PROVE  AgentsInv'
<1>1. PICK b : b = s2[h].bundle
  OBVIOUS
<1>2. /\ s2[h].state = "posting"
      /\ IF outcome \in {"stored", "unheard"} THEN Agents!Import(b) ELSE UNCHANGED <<s5, s6>>
      /\ IF Agents!Saved(outcome) THEN s2' = [s2 EXCEPT ![h].state = "saving"] /\ s7' = s7
         ELSE s2' = [s2 EXCEPT ![h] = Agents!Quiet] /\ s7' = s7 \cup {b}
      /\ s3' = s3 /\ s4' = s4 /\ s8' = s8
  BY <1>1 DEF Agents!Post, Agents!Ended
<1>3. s2[h] # Agents!Quiet
  BY <1>2 DEF Agents!Quiet
<1>4. HookHolds(h) /\ OfHost(h, b)
  BY <1>1, <1>3 DEF AgentsInv, HookHolds
<1>5. ~Agents!Older(b)
  <2>1. b.session \in DOMAIN s6 => s6[b.session] <= b.at
    <3>1. CASE b.session = <<h>>
      BY <1>1, <1>3, <1>4, <3>1 DEF HookHolds
    <3>2. CASE \E n \in Files : b.session = <<b.at, n>>
      BY <1>4, <3>2 DEF AgentsInv, MarksHold, OfHost
    <3>3. QED
      BY <1>4, <3>1, <3>2 DEF OfHost
  <2>2. b.session \in DOMAIN s6 => s6[b.session] \in Nat /\ b.at \in Nat
    BY <1>4 DEF AgentsInv, MarksHold, OfHost
  <2>3. QED
    BY <2>1, <2>2 DEF Agents!Older
<1>6. /\ MarksHold'
      /\ \A g \in Hosts : \A t : s2[g] # Agents!Quiet /\ s2[g].bundle.session = <<g>> /\ t = <<g>>
                               /\ t \in DOMAIN s6' => s6'[t] <= s2[g].bundle.at
  <2>1. CASE outcome \in {"stored", "unheard"}
    <3>1. ASSUME NEW g \in Hosts, s2[g].bundle.session = <<g>>, b.session = <<g>>
          PROVE  b.at <= s2[g].bundle.at
      <4>1. g = h
        BY <1>4, <3>1, SessionsDiffer DEF OfHost
      <4>2. QED
        BY <1>1, <1>4, <4>1 DEF OfHost
    <3>2. QED
      BY <1>2, <1>4, <2>1, <3>1, ImportKeeps
  <2>2. CASE outcome \notin {"stored", "unheard"}
    BY <1>2, <2>2 DEF AgentsInv, MarksHold, HookHolds
  <2>3. QED
    BY <2>1, <2>2
<1>7. /\ DOMAIN s2' = Hosts /\ \A g \in Hosts : HookHolds(g)'
      /\ \A n \in DOMAIN s4' : \E g \in Hosts : OfHost(g, s4[n])'
  BY <1>2, <1>3, <1>6, HooksKept
<1>8. \A s : DOMAIN Agents!Known(s) \subseteq DOMAIN Agents!Known(s)'
  <2>1. CASE outcome \in {"stored", "unheard"}
    BY <1>2, <2>1, ImportAdds DEF AgentsInv, MarksHold
  <2>2. CASE outcome \notin {"stored", "unheard"}
    BY <1>2, <2>2 DEF Agents!Known
  <2>3. QED
    BY <2>1, <2>2
<1>9. Agents!HandedOver'
  <2>1. CASE Agents!Saved(outcome)
    BY <1>2, <1>8, <2>1, StillHandedOver DEF AgentsInv
  <2>2. CASE ~Agents!Saved(outcome)
    <3>1. outcome = "stored"
      BY <2>2 DEF Agents!Saved
    <3>2. Agents!Holds(b)'
      BY <1>2, <1>5, <3>1, ImportAdds DEF AgentsInv, MarksHold
    <3>3. ASSUME NEW c \in s7
          PROVE  (Agents!Holds(c) \/ c \in s8 \/ \E n \in DOMAIN s4 : s4[n] = c)'
      BY <1>2, <1>8 DEF AgentsInv, Agents!HandedOver, Agents!Holds
    <3>4. QED
      BY <1>2, <2>2, <3>2, <3>3 DEF Agents!HandedOver
  <2>3. QED
    BY <2>1, <2>2
<1>10. QED
  BY <1>6, <1>7, <1>9 DEF AgentsInv

\* The bundle goes to a file, and what the file held is written over.
LEMMA SaveKeeps ==
  ASSUME AgentsInv, NEW h \in Hosts, Agents!Save(h)
  PROVE  AgentsInv'
<1>1. PICK b, name : b = s2[h].bundle /\ name = <<s2[h].bundle.provider, s3 \div 2>>
  OBVIOUS
<1>2. /\ s2[h].state = "saving"
      /\ s4' = [n \in DOMAIN s4 \cup {name} |-> IF n = name THEN b ELSE s4[n]]
      /\ s8' = s8 \cup {s4[n] : n \in DOMAIN s4 \cap {name}}
      /\ s2' = [s2 EXCEPT ![h] = Agents!Quiet] /\ s7' = s7 \cup {b}
      /\ s3' = s3 /\ s5' = s5 /\ s6' = s6
  BY <1>1 DEF Agents!Save, Agents!Ended
<1>3. s2[h] # Agents!Quiet
  BY <1>2 DEF Agents!Quiet
<1>4. /\ DOMAIN s4' = DOMAIN s4 \cup {name} /\ s4'[name] = b
      /\ \A n \in DOMAIN s4 : n # name => s4'[n] = s4[n]
  BY <1>2
<1>5. \A g \in Hosts : \A t : s2[g] # Agents!Quiet /\ s2[g].bundle.session = <<g>> /\ t = <<g>>
                            /\ t \in DOMAIN s6' => s6'[t] <= s2[g].bundle.at
  BY <1>2 DEF AgentsInv, HookHolds
<1>6. /\ DOMAIN s2' = Hosts /\ \A g \in Hosts : HookHolds(g)'
      /\ \A n \in DOMAIN s4' : \E g \in Hosts : OfHost(g, s4[n])'
  BY <1>1, <1>2, <1>3, <1>4, <1>5, HooksKept
<1>7. MarksHold'
  BY <1>2 DEF AgentsInv, MarksHold
<1>8. ASSUME NEW c \in s7'
      PROVE  (Agents!Holds(c) \/ c \in s8 \/ \E n \in DOMAIN s4 : s4[n] = c)'
  <2>1. CASE c = b
    BY <1>4, <2>1
  <2>2. CASE c \in s7
    <3>1. Agents!Holds(c) \/ c \in s8 \/ \E n \in DOMAIN s4 : s4[n] = c
      BY <2>2 DEF AgentsInv, Agents!HandedOver
    <3>2. Agents!Holds(c) => Agents!Holds(c)'
      BY <1>2 DEF Agents!Holds, Agents!Known
    <3>3. ASSUME NEW n \in DOMAIN s4, s4[n] = c PROVE c \in s8' \/ \E m \in DOMAIN s4' : s4'[m] = c
      BY <1>2, <1>4, <3>3
    <3>4. QED
      BY <1>2, <3>1, <3>2, <3>3
  <2>3. QED
    BY <1>2, <2>1, <2>2
<1>9. Agents!HandedOver'
  BY <1>8 DEF Agents!HandedOver
<1>10. QED
  BY <1>6, <1>7, <1>9 DEF AgentsInv

\* A file may be imported late, or twice.
LEMMA FileKeeps ==
  ASSUME AgentsInv, NEW name \in DOMAIN s4, Agents!ImportFile(name)
  PROVE  AgentsInv'
<1>1. PICK b : b = s4[name]
  OBVIOUS
<1>2. Agents!Import(b) /\ UNCHANGED <<s2, s3, s4, s7, s8>>
  BY <1>1 DEF Agents!ImportFile
<1>3. PICK g \in Hosts : OfHost(g, b)
  BY <1>1 DEF AgentsInv
<1>4. \A h \in Hosts : s2[h] # Agents!Quiet /\ s2[h].bundle.session = <<h>> /\ b.session = <<h>>
                         => b.at <= s2[h].bundle.at
  BY <1>1 DEF AgentsInv, HookHolds
<1>5. /\ MarksHold'
      /\ \A h \in Hosts : \A t : s2[h] # Agents!Quiet /\ s2[h].bundle.session = <<h>> /\ t = <<h>>
                               /\ t \in DOMAIN s6' => s6'[t] <= s2[h].bundle.at
  BY <1>2, <1>3, <1>4, ImportKeeps
<1>6. ASSUME NEW h \in Hosts PROVE HookHolds(h)'
  <2>1. HookHolds(h)
    BY DEF AgentsInv
  <2>2. s2[h] # Agents!Quiet => (<<h>> \in DOMAIN s6' =>
          s6'[<<h>>] <= s2[h].bundle.at \/ s2[h].bundle.session # <<h>>)
    BY <1>5
  <2>3. QED
    BY <1>2, <2>1, <2>2 DEF HookHolds, OfHost, Agents!Quiet
<1>7. \A s : DOMAIN Agents!Known(s) \subseteq DOMAIN Agents!Known(s)'
  BY <1>2, ImportAdds DEF AgentsInv, MarksHold
<1>8. Agents!HandedOver'
  BY <1>2, <1>7, StillHandedOver DEF AgentsInv
<1>9. \A n \in DOMAIN s4' : \E h \in Hosts : OfHost(h, s4[n])'
  BY <1>2 DEF AgentsInv, OfHost
<1>10. QED
  BY <1>2, <1>5, <1>6, <1>8, <1>9 DEF AgentsInv

LEMMA AgentsKeep ==
  ASSUME AgentsInv, [Agents!Next]_(Agents!handoffVars)
  PROVE  AgentsInv'
<1>1. ASSUME UNCHANGED <<s2, s4, s5, s6, s7, s8>>, s3' = s3 \/ s3' = s3 + 1 PROVE AgentsInv'
  <2>1. s3 \in Nat /\ s3' \in Nat /\ s3 <= s3'
    BY <1>1 DEF AgentsInv, MarksHold
  <2>2. \A h, b : OfHost(h, b) => OfHost(h, b)'
    BY <2>1 DEF OfHost
  <2>3. MarksHold'
    BY <1>1, <2>1 DEF AgentsInv, MarksHold
  <2>4. ASSUME NEW h \in Hosts PROVE HookHolds(h)'
    <3>1. PICK b : b = s2[h].bundle
      OBVIOUS
    <3>2. s2[h] # Agents!Quiet => OfHost(h, b)'
      BY <2>2, <3>1 DEF AgentsInv, HookHolds
    <3>3. QED
      BY <1>1, <3>1, <3>2 DEF AgentsInv, HookHolds, Agents!Quiet, OfHost
  <2>5. ASSUME NEW n \in DOMAIN s4' PROVE \E h \in Hosts : OfHost(h, s4[n])'
    BY <1>1, <2>1 DEF AgentsInv, OfHost
  <2>6. Agents!HandedOver'
    BY <1>1, StillHandedOver DEF AgentsInv, Agents!Known
  <2>7. QED
    BY <1>1, <2>3, <2>4, <2>5, <2>6 DEF AgentsInv
<1>2. CASE UNCHANGED Agents!handoffVars
  BY <1>1, <1>2 DEF Agents!handoffVars
<1>3. ASSUME NEW h \in Hosts, NEW record \in Spoken, Agents!Turn(h, record) PROVE AgentsInv'
  BY <1>1, <1>3 DEF Agents!Turn
<1>4. CASE Agents!Tick
  BY <1>1, <1>4 DEF Agents!Tick
<1>5. s3 \in Nat
  BY DEF AgentsInv, MarksHold
<1>6. ASSUME NEW h \in Hosts, Agents!Stop(h) PROVE AgentsInv'
  <2>1. PICK b : b = Agents!Bundle(<<h>>, "codex", Agents!Collected(s1[h]))
    OBVIOUS
  <2>2. Agents!Posting(h, b) /\ UNCHANGED <<s3, s4, s5, s6, s7, s8>>
    BY <1>6, <2>1 DEF Agents!Stop
  <2>3. b.at = s3 /\ b.session = <<h>>
    BY <2>1 DEF Agents!Bundle
  <2>4. QED
    BY <1>5, <2>2, <2>3, PostingHolds DEF OfHost
<1>7. ASSUME NEW h \in Hosts, NEW note_ \in Files,
             Agents!DumpMarkdown(h, note_) \/ Agents!DumpFromClaude(h, note_)
      PROVE  AgentsInv'
  <2>1. PICK provider : /\ Agents!Posting(h, Agents!Bundle(<<s3, note_>>, provider,
                             <<[id |-> <<note_>>, role |-> "assistant", text |-> note_]>>))
                        /\ UNCHANGED <<s3, s4, s5, s6, s7, s8>>
    BY <1>7 DEF Agents!DumpMarkdown, Agents!DumpFromClaude
  <2>2. PICK b : b = Agents!Bundle(<<s3, note_>>, provider,
                       <<[id |-> <<note_>>, role |-> "assistant", text |-> note_]>>)
    OBVIOUS
  <2>3. b.at = s3 /\ b.session = <<b.at, note_>>
    BY <2>2 DEF Agents!Bundle
  <2>4. QED
    BY <1>5, <2>1, <2>2, <2>3, PostingHolds DEF OfHost
<1>8. ASSUME NEW h \in Hosts, Agents!Kill(h) PROVE AgentsInv'
  <2>1. /\ s2[h] # Agents!Quiet /\ s2' = [s2 EXCEPT ![h] = Agents!Quiet]
        /\ UNCHANGED <<s3, s4, s5, s6, s7, s8>>
    BY <1>8 DEF Agents!Kill
  <2>2. \A g \in Hosts : \A t : s2[g] # Agents!Quiet /\ s2[g].bundle.session = <<g>> /\ t = <<g>>
                              /\ t \in DOMAIN s6' => s6'[t] <= s2[g].bundle.at
    BY <2>1 DEF AgentsInv, HookHolds
  <2>3. /\ DOMAIN s2' = Hosts /\ \A g \in Hosts : HookHolds(g)'
        /\ \A n \in DOMAIN s4' : \E g \in Hosts : OfHost(g, s4[n])'
    BY <2>1, <2>2, HooksKept
  <2>4. Agents!HandedOver'
    BY <2>1, StillHandedOver DEF AgentsInv, Agents!Known
  <2>5. QED
    BY <2>1, <2>3, <2>4 DEF AgentsInv, MarksHold
<1>9. QED
  BY <1>2, <1>3, <1>4, <1>6, <1>7, <1>8, PostKeeps, SaveKeeps, FileKeeps DEF Agents!Next

------------------------------------------------------------------------------
(* Types: what the services hold is within their bounds.                      *)

LEMMA ProjectsTypedStart == Projects!Init => Projects!TypeOK
<1>. SUFFICES ASSUME Projects!Init PROVE Projects!TypeOK
  OBVIOUS
<1>1. /\ s1 \in Engines /\ s2 = 0 /\ s3 = {} /\ s8 = {} /\ s7 \in [Sources -> Places \cup {None, Unset}]
      /\ s4 = [s \in Sources |-> IF s7[s] = Unset THEN None ELSE s7[s]]
      /\ s5 = [s \in Sources |-> Unset] /\ s6 = [u \in Upstream |-> Unset]
      /\ s9 = [s \in Sources |-> Projects!Idle]
  BY DEF Projects!Init
<1>2. s4 \in [Sources -> Projects!Memberships \cup Places]
  BY <1>1 DEF Projects!Memberships
<1>3. s2 \in Projects!Times
  BY <1>1, ProjectsAssumption DEF Projects!Times
<1>4. QED
  BY <1>1, <1>2, <1>3 DEF Projects!TypeOK

LEMMA CaptureTyped ==
  ASSUME Projects!TypeOK, NEW s \in Sources, s9[s] # Projects!Idle
  PROVE  /\ s9[s].observation \in s3 /\ s9[s].observation.source = s
         /\ s9[s].observation \in Projects!Observations
         /\ s9[s].observation.at \in Projects!Times /\ s9[s].observation.project \in Projects!Memberships
         /\ s9[s].binding \in Projects!Bindings \cup {Unset}
         /\ s9[s].project \in Projects!Memberships \cup Places
         /\ s9[s].remote \in Projects!Times \cup {Unset}
<1>1. /\ s9[s].observation \in s3 /\ s9[s].observation.source = s
      /\ s9[s].binding \in Projects!Bindings \cup {Unset}
      /\ s9[s].project \in Projects!Memberships \cup Places
      /\ s9[s].remote \in Projects!Times \cup {Unset} /\ s3 \subseteq Projects!Observations
  BY DEF Projects!TypeOK
<1>2. QED
  BY <1>1, ProjectsAssumption DEF Projects!Observations, Projects!Times

LEMMA ProjectsTyped ==
  ASSUME MembershipInv, Projects!TypeOK, [Projects!Next]_(Projects!vars)
  PROVE  Projects!TypeOK'
<1>. USE DEF Projects!tables
<1>1. CASE UNCHANGED Projects!vars
  BY <1>1 DEF Projects!vars, Projects!TypeOK
<1>2. ASSUME NEW s \in Sources, NEW u \in Projects!Memberships, Projects!Observe(s, u)
      PROVE  Projects!TypeOK'
  <2>1. /\ s2 < MaxTime /\ s2' = s2 + 1
        /\ s3' = s3 \cup {[source |-> s, at |-> s2 + 1, project |-> u]}
        /\ UNCHANGED <<s1, s4, s5, s6, s7, s8, s9>>
    BY <1>2 DEF Projects!Observe
  <2>2. s2' \in Projects!Times /\ s2 + 1 \in 1..MaxTime
    BY <2>1, ProjectsAssumption DEF Projects!TypeOK, Projects!Times
  <2>3. s3' \subseteq Projects!Observations
    BY <2>1, <2>2 DEF Projects!TypeOK, Projects!Observations
  <2>4. \A x \in Sources : s9'[x] # Projects!Idle => s9'[x].observation \in s3'
    BY <2>1 DEF Projects!TypeOK
  <2>5. s8' \subseteq s3'
    BY <2>1 DEF Projects!TypeOK
  <2>6. QED
    BY <2>1, <2>2, <2>3, <2>4, <2>5 DEF Projects!TypeOK
<1>3. ASSUME NEW o \in s3, Projects!Begin(o) PROVE Projects!TypeOK'
  <2>1. UNCHANGED <<s1, s2, s3, s4, s5, s6, s7>>
    BY <1>3 DEF Projects!Begin
  <2>2. CASE s9' = s9 /\ s8' = s8 \cup {o}
    BY <2>1, <2>2 DEF Projects!TypeOK
  <2>3. CASE /\ s8' = s8
             /\ s9' = [s9 EXCEPT ![o.source] =
                      [pc |-> "apply", observation |-> o, binding |-> s5[o.source],
                       project |-> s4[o.source], remote |-> Projects!RemoteOf(o.project)]]
    <3>1. PICK t : t = [pc |-> "apply", observation |-> o, binding |-> s5[o.source],
                        project |-> s4[o.source], remote |-> Projects!RemoteOf(o.project)]
      OBVIOUS
    <3>2. o.source \in Sources /\ o.project \in Projects!Memberships
      BY DEF Projects!TypeOK, Projects!Observations
    <3>3. Projects!RemoteOf(o.project) \in Projects!Times \cup {Unset}
      BY <3>2 DEF Projects!RemoteOf, Projects!Memberships, Projects!TypeOK
    <3>4. /\ t.observation \in s3 /\ t.observation.source = o.source
          /\ t.binding \in Projects!Bindings \cup {Unset}
          /\ t.project \in Projects!Memberships \cup Places
          /\ t.remote \in Projects!Times \cup {Unset}
      BY <3>1, <3>2, <3>3 DEF Projects!TypeOK
    <3>5. \A x \in Sources : s9'[x] = IF x = o.source THEN t ELSE s9[x]
      BY <2>3, <3>1, <3>2 DEF MembershipInv
    <3>6. \A x \in Sources : s9'[x] # Projects!Idle =>
            /\ s9'[x].observation \in s3 /\ s9'[x].observation.source = x
            /\ s9'[x].binding \in Projects!Bindings \cup {Unset}
            /\ s9'[x].project \in Projects!Memberships \cup Places
            /\ s9'[x].remote \in Projects!Times \cup {Unset}
      BY <3>4, <3>5 DEF Projects!TypeOK
    <3>7. QED
      BY <2>1, <2>3, <3>6 DEF Projects!TypeOK
  <2>4. QED
    BY <1>3, <2>2, <2>3 DEF Projects!Begin
<1>4. ASSUME NEW s \in Sources, Projects!Commit(s) \/ Projects!Fail(s) PROVE Projects!TypeOK'
  <2>1. s9[s] # Projects!Idle /\ s9' = [s9 EXCEPT ![s] = Projects!Idle] /\ UNCHANGED <<s1, s2, s3, s7>>
    BY <1>4 DEF Projects!Commit, Projects!Fail, Projects!End
  <2>2. \A x \in Sources : s9'[x] # Projects!Idle => x # s /\ s9'[x] = s9[x]
    BY <2>1 DEF MembershipInv
  <2>3. CASE Projects!Fail(s)
    BY <2>1, <2>2, <2>3 DEF Projects!Fail, Projects!TypeOK
  <2>4. CASE Projects!Commit(s)
    <3>1. /\ s9[s].observation \in s3
          /\ s9[s].observation.at \in Projects!Times
          /\ s9[s].observation.project \in Projects!Memberships
          /\ s9[s].binding \in Projects!Bindings \cup {Unset}
      BY <2>1, CaptureTyped
    <3>2. Projects!Bound(s) \in Projects!Bindings
      <4>1. CASE s9[s].binding = Unset
        <5>1. Projects!AssignedBefore(s) \in BOOLEAN
          BY DEF Projects!AssignedBefore
        <5>2. Projects!Bound(s) = [at |-> s9[s].observation.at, project |-> s9[s].observation.project,
                                   manual |-> Projects!AssignedBefore(s)]
          BY <4>1 DEF Projects!Bound
        <5>3. QED
          BY <3>1, <5>1, <5>2 DEF Projects!Bindings
      <4>2. CASE s9[s].binding # Unset
        <5>1. s5[s] \in Projects!Bindings
          BY <2>1, <4>2 DEF MembershipInv, SourceHolds, CaptureHolds
        <5>2. Projects!Bound(s) = [s5[s] EXCEPT !.at = s9[s].observation.at,
                                                !.project = s9[s].observation.project]
          BY <4>2 DEF Projects!Bound
        <5>3. QED
          BY <3>1, <5>1, <5>2 DEF Projects!Bindings
      <4>3. QED
        BY <4>1, <4>2
    <3>3. s5' = [s5 EXCEPT ![s] = Projects!Bound(s)] /\ s5' \in [Sources -> Projects!Bindings \cup {Unset}]
      BY <2>4, <3>2 DEF Projects!Commit, Projects!TypeOK
    <3>4. s6' \in [Upstream -> Projects!Times \cup {Unset}]
      BY <2>4, <3>1 DEF Projects!Commit, Projects!Observed, Projects!TypeOK
    <3>5. s4' \in [Sources -> Projects!Memberships \cup Places]
      BY <2>4, <3>1 DEF Projects!Commit, Projects!TypeOK
    <3>6. s8' \subseteq s3'
      BY <2>1, <2>4, <3>1 DEF Projects!Commit, Projects!TypeOK
    <3>7. \A x \in Sources : s9'[x] # Projects!Idle =>
            /\ s9'[x].observation \in s3' /\ s9'[x].observation.source = x
            /\ s9'[x].binding \in Projects!Bindings \cup {Unset}
            /\ s9'[x].project \in Projects!Memberships \cup Places
            /\ s9'[x].remote \in Projects!Times \cup {Unset}
      BY <2>1, <2>2, CaptureTyped
    <3>8. s1' \in Engines /\ s2' \in Projects!Times /\ s3' \subseteq Projects!Observations
          /\ s7' \in [Sources -> Places \cup {None, Unset}]
      BY <2>1 DEF Projects!TypeOK
    <3>9. QED
      BY <3>3, <3>4, <3>5, <3>6, <3>7, <3>8, Zenon DEF Projects!TypeOK
  <2>5. QED
    BY <1>4, <2>3, <2>4
<1>5. ASSUME NEW s \in Sources, NEW p \in Places \cup {None}, Projects!Edit(s, p) PROVE Projects!TypeOK'
  <2>1. /\ s4' = [s4 EXCEPT ![s] = p] /\ s7' = [s7 EXCEPT ![s] = p]
        /\ s5' = [s5 EXCEPT ![s] = IF @ = Unset THEN [at |-> 0, project |-> None, manual |-> TRUE]
                                   ELSE [@ EXCEPT !.manual = TRUE]]
        /\ UNCHANGED <<s1, s2, s3, s6, s8, s9>>
    BY <1>5 DEF Projects!Edit
  <2>2. [at |-> 0, project |-> None, manual |-> TRUE] \in Projects!Bindings
    BY ProjectsAssumption DEF Projects!Bindings, Projects!Times, Projects!Memberships
  <2>3. s5[s] # Unset => [s5[s] EXCEPT !.manual = TRUE] \in Projects!Bindings
    <3>1. SUFFICES ASSUME NEW b \in Projects!Bindings PROVE [b EXCEPT !.manual = TRUE] \in Projects!Bindings
      BY DEF Projects!TypeOK
    <3>2. QED
      BY Zenon DEF Projects!Bindings
  <2>4. s5' \in [Sources -> Projects!Bindings \cup {Unset}]
    BY <2>1, <2>2, <2>3 DEF Projects!TypeOK
  <2>5. /\ s4' \in [Sources -> Projects!Memberships \cup Places]
        /\ s7' \in [Sources -> Places \cup {None, Unset}]
    BY <2>1 DEF Projects!TypeOK, Projects!Memberships
  <2>6. QED
    BY <2>1, <2>4, <2>5 DEF Projects!TypeOK
<1>6. QED
  BY <1>1, <1>2, <1>3, <1>4, <1>5 DEF Projects!Next

\* Users are those of so many administrators, and a device has one token.
GrantsTypes ==
  /\ s1 \in [id : 0..MaxReplaced, name : Names]
  /\ s2 = [g \in Grants |-> s2[g]]
  /\ \A g \in Grants : s2[g] \in GrantRows => s2[g].user \in 0..MaxReplaced
  /\ s3 \subseteq [grant : Grants, device : Devices, user : 0..MaxReplaced]
  /\ \A t, u \in s3 : t.device = u.device => t = u

LEMMA GrantsTypesStart == Connections!Init => GrantsTypes
<1>. SUFFICES ASSUME Connections!Init PROVE GrantsTypes
  OBVIOUS
<1>1. /\ s1 \in [id : {0}, name : Names] /\ s2 = [g \in Grants |-> None] /\ s3 = {}
  BY DEF Connections!Init
<1>2. 0 \in 0..MaxReplaced
  BY BoundsAssumption
<1>3. QED
  BY <1>1, <1>2, GrantsAssumption DEF GrantsTypes, GrantRows

LEMMA GrantsTypesKeep ==
  ASSUME GrantsInv, GrantsTypes, [Connections!Next]_(Connections!vars)
  PROVE  GrantsTypes'
<1>1. CASE UNCHANGED <<s1, s2, s3>>
  BY <1>1 DEF GrantsTypes
<1>2. s1.id \in 0..MaxReplaced /\ s1.name \in Names
  BY DEF GrantsTypes
<1>3. ASSUME NEW g \in Grants, UNCHANGED <<s1, s3>>, NEW t, s2' = [s2 EXCEPT ![g] = t],
             t \in GrantRows => t.user \in 0..MaxReplaced
      PROVE  GrantsTypes'
  BY <1>3 DEF GrantsTypes, GrantsInv
<1>4. ASSUME NEW g \in Grants, NEW limit \in Limits, Connections!CreateGrant(g, limit)
      PROVE  GrantsTypes'
  <2>1. PICK t : t = [user |-> s1.id, limit |-> limit, count |-> 0, revoked |-> FALSE, expired |-> FALSE]
    OBVIOUS
  <2>2. s2' = [s2 EXCEPT ![g] = t] /\ UNCHANGED <<s1, s3>>
    BY <1>4, <2>1 DEF Connections!CreateGrant
  <2>3. QED
    BY <1>2, <1>3, <2>1, <2>2
<1>5. ASSUME NEW g \in Grants, Connections!Revoke(g) \/ Connections!Expire(g) PROVE GrantsTypes'
  <2>1. /\ Connections!Exists(g) /\ UNCHANGED <<s1, s3>>
        /\ \/ s2' = [s2 EXCEPT ![g].revoked = TRUE]
           \/ s2' = [s2 EXCEPT ![g].expired = TRUE]
    BY <1>5 DEF Connections!Revoke, Connections!Expire
  <2>2. s2[g] \in GrantRows /\ s2[g].user \in 0..MaxReplaced
    BY <2>1 DEF GrantsInv, GrantHolds, Connections!Exists, GrantsTypes
  <2>3. PICK t : /\ t = [s2[g] EXCEPT !.revoked = TRUE] \/ t = [s2[g] EXCEPT !.expired = TRUE]
                 /\ s2' = [s2 EXCEPT ![g] = t]
    BY <2>1
  <2>4. t.user \in 0..MaxReplaced
    BY <2>2, <2>3 DEF GrantRows
  <2>5. QED
    BY <1>3, <2>1, <2>3, <2>4
<1>6. ASSUME NEW name \in Names, Connections!Rename(name) PROVE GrantsTypes'
  <2>1. s1' = [s1 EXCEPT !.name = name] /\ UNCHANGED <<s2, s3>>
    BY <1>6 DEF Connections!Rename
  <2>2. QED
    BY <2>1 DEF GrantsTypes
<1>7. ASSUME NEW name \in Names, Connections!Replace(name) PROVE GrantsTypes'
  <2>1. /\ s1' = [id |-> s1.id + 1, name |-> name] /\ s3' = {} /\ s1.id < MaxReplaced
        /\ s2' = [g \in Grants |-> IF Connections!Exists(g) THEN Deleted ELSE s2[g]]
    BY <1>7 DEF Connections!Replace
  <2>2. s1' \in [id : 0..MaxReplaced, name : Names]
    BY <1>2, <2>1, BoundsAssumption
  <2>3. \A g \in Grants : s2'[g] \notin GrantRows
    BY <2>1, GrantsAssumption DEF Connections!Exists, GrantRows
  <2>4. QED
    BY <2>1, <2>2, <2>3 DEF GrantsTypes
<1>8. ASSUME NEW d \in Devices, Connections!Issue(d), s1.name = s4[d].name PROVE GrantsTypes'
  <2>1. PICK g : g = s4[d].grant
    OBVIOUS
  <2>2. PICK t : t = [grant |-> g, device |-> d, user |-> s1.id]
    OBVIOUS
  <2>3. /\ s3' = s3 \cup {t} /\ s2' = [s2 EXCEPT ![g].count = @ + 1] /\ s1' = s1
        /\ s4[d].pc = "claimed"
    BY <1>8, <2>1, <2>2 DEF Connections!Issue
  <2>4. g \in Grants /\ s2[g] \in GrantRows
    BY <2>1, <2>3 DEF GrantsInv, ClaimHolds, GrantHolds, Connections!Exists
  <2>5. t \in [grant : Grants, device : Devices, user : 0..MaxReplaced] /\ t.device = d
    BY <1>2, <2>2, <2>4
  <2>6. \A u \in s3 : u.device # d
    BY <2>3 DEF GrantsInv, TokensHold
  <2>7. \A h \in Grants : s2'[h] \in GrantRows => s2'[h].user \in 0..MaxReplaced
    <3>1. PICK w : w = [s2[g] EXCEPT !.count = @ + 1]
      OBVIOUS
    <3>2. w.user = s2[g].user /\ s2[g].user \in 0..MaxReplaced
      BY <2>4, <3>1 DEF GrantRows, GrantsTypes
    <3>3. \A h \in Grants : s2'[h] = IF h = g THEN w ELSE s2[h]
      BY <2>3, <2>4, <3>1 DEF GrantsInv
    <3>4. QED
      BY <3>2, <3>3 DEF GrantsTypes
  <2>8. \A u, v \in s3' : u.device = v.device => u = v
    BY <2>3, <2>5, <2>6 DEF GrantsTypes
  <2>9. QED
    BY <2>3, <2>5, <2>7, <2>8 DEF GrantsTypes
<1>9. ASSUME NEW d \in Devices,
             \/ \E g \in Grants : Connections!Check(d, g)
             \/ Connections!Claim(d) \/ Connections!Fail(d)
             \/ Connections!Issue(d) /\ s1.name # s4[d].name
      PROVE  UNCHANGED <<s1, s2, s3>>
  BY <1>9 DEF Connections!Check, Connections!Claim, Connections!Fail, Connections!Issue,
              Connections!Refuse, Connections!tables
<1>10. CASE UNCHANGED Connections!vars
  BY <1>1, <1>10 DEF Connections!vars, Connections!tables
<1>11. QED
  BY <1>1, <1>4, <1>5, <1>6, <1>7, <1>8, <1>9, <1>10 DEF Connections!Next

LEMMA GrantsTyped == GrantsInv /\ GrantsTypes => Connections!TypeOK
<1>. SUFFICES ASSUME GrantsInv, GrantsTypes PROVE Connections!TypeOK
  OBVIOUS
<1>1. ASSUME NEW g \in Grants, Connections!Exists(g) PROVE s2[g].count <= Cardinality(Devices)
  <2>1. PICK T : T = Connections!TokensOf(g)
    OBVIOUS
  <2>2. T \subseteq s3 /\ Cardinality(T) = s2[g].count
    BY <1>1, <2>1 DEF GrantsInv, GrantHolds, Connections!TokensOf
  <2>3. PICK f : f = [t \in T |-> t.device]
    OBVIOUS
  <2>4. f \in Injection(T, Devices)
    BY <2>2, <2>3 DEF GrantsTypes, Injection, IsInjective
  <2>5. Cardinality(T) <= Cardinality(Devices)
    BY <2>4, BoundsAssumption, FS_Injection
  <2>6. QED
    BY <2>2, <2>5
<1>2. Cardinality(Devices) \in Nat /\ Connections!Cardinality(Devices) = Cardinality(Devices)
  BY BoundsAssumption, FS_CardinalityType, SameCardinality
<1>3. s2 \in [Grants -> Connections!Rows \cup {None, Deleted}]
  <2>1. SUFFICES ASSUME NEW g \in Grants, Connections!Exists(g) PROVE s2[g] \in Connections!Rows
    BY DEF GrantsTypes, Connections!Exists
  <2>2. s2[g] \in GrantRows
    BY <2>1 DEF GrantsInv, GrantHolds, Connections!Exists
  <2>3. s2[g].user \in Connections!Users
    BY <2>2 DEF GrantsTypes, Connections!Users
  <2>4. s2[g].count \in 0..Cardinality(Devices)
    BY <1>1, <1>2, <2>1, <2>2 DEF GrantRows
  <2>5. QED
    BY <1>2, <2>2, <2>3, <2>4, Zenon DEF GrantRows, Connections!Rows
<1>4. s4 \in [Devices -> [pc : Connections!Pcs, grant : Grants \cup {None}, name : Names \cup {None}]]
  BY DEF GrantsInv, Redemptions
<1>5. QED
  BY <1>3, <1>4 DEF GrantsTypes, Connections!TypeOK, Connections!Users

PagesTypes ==
  /\ s1 \in Modes
  /\ s2 = [k \in CaptureKeys |-> s2[k]]
  /\ s4 \subseteq CaptureKeys

LEMMA PagesTypesStart == Pages!Init => PagesTypes
BY DEF Pages!Init, PagesTypes

LEMMA PagesTypesKeep ==
  ASSUME PagesInv, PagesTypes, [Pages!Next]_(Pages!vars)
  PROVE  PagesTypes'
<1>1. CASE UNCHANGED <<s1, s2, s4>>
  BY <1>1 DEF PagesTypes
<1>2. ASSUME NEW r \in Requests, s5[r] # Pages!Idle
      PROVE  s5[r].key \in CaptureKeys
  BY <1>2 DEF PagesInv, PagesHeld, PageRequestHolds, PageRequests
<1>3. ASSUME NEW r \in Requests, s5[r] # Pages!Idle, Pages!Insert(r)
      PROVE  PagesTypes'
  <2>1. /\ s1' = s1 /\ (s4' = s4 \/ s4' = s4 \cup {s5[r].key})
        /\ \/ s2' = s2
           \/ s2' = [s2 EXCEPT ![s5[r].key] = [payload |-> s5[r].payload, title |-> Sent,
                                               rest |-> None, path |-> None]]
    BY <1>3 DEF Pages!Insert
  <2>2. QED
    BY <1>2, <1>3, <2>1 DEF PagesTypes
<1>4. ASSUME NEW r \in Requests, s5[r] # Pages!Idle, Pages!Commit(r)
      PROVE  PagesTypes'
  <2>1. UNCHANGED <<s1, s4>> /\ \E w : s2' = [s2 EXCEPT ![s5[r].key] = w]
    BY <1>4 DEF Pages!Commit
  <2>2. QED
    BY <2>1 DEF PagesTypes
<1>5. QED
  BY <1>1, <1>3, <1>4
  DEF Pages!Next, Pages!vars, Pages!Receive, Pages!Find, Pages!Lock, Pages!Fail, Pages!Leave, Pages!Write

LEMMA PagesTyped == PagesInv /\ PagesTypes => Pages!TypeOK
<1>. SUFFICES ASSUME PagesInv, PagesTypes PROVE Pages!TypeOK
  OBVIOUS
<1>1. s2 \in [CaptureKeys -> Pages!Rows \cup {None}]
  BY DEF PagesInv, PagesHeld, PageHolds, PagesTypes
<1>2. ASSUME NEW r \in Requests, s5[r] # Pages!Idle
      PROVE  /\ s5[r].pc \in Pages!Pcs
             /\ s5[r].key \in CaptureKeys /\ s5[r].payload \in Payloads
             /\ s5[r].process \in Processes
             /\ s5[r].written \in Enrichments \cup {None}
             /\ s5[r].result \in Pages!Statuses \cup {None}
  BY <1>2 DEF PagesInv, PagesHeld, PageRequestHolds, PageRequests
<1>3. QED
  BY <1>1, <1>2 DEF PagesTypes, PagesInv, PagesHeld, ServedApart, Pages!TypeOK

\* So many tasks, and so many versions of each.
PlansTypes ==
  /\ Len(s1) <= MaxTasks
  /\ \A t \in 1..Len(s1) : s1[t].version <= MaxTaskVersion

LEMMA PlansTypesStart == Plans!Init => PlansTypes
BY BoundsAssumption DEF Plans!Init, PlansTypes

LEMMA PlansTypesKeep ==
  ASSUME PlannerInv, PlansTypes, [Plans!Next]_(Plans!plannerVars)
  PROVE  PlansTypes'
<1>1. CASE UNCHANGED s1
  BY <1>1 DEF PlansTypes
<1>2. s1 \in Seq(TaskRows) /\ Len(s1) \in Nat /\ DOMAIN s1 = 1..Len(s1)
  BY LenProperties DEF PlannerInv, PlannerTypes
<1>3. ASSUME NEW c \in Clients, Plans!CommitCreate(c), s1' # s1 PROVE PlansTypes'
  <2>1. PICK t : t = [values |-> s9[c].wish, version |-> 1, key |-> s9[c].key,
                      done |-> s9[c].wish.status = "done"]
    OBVIOUS
  <2>2. s9[c].op = "create" /\ s1' = Append(s1, t) /\ Len(s1) + 1 <= MaxTasks
    BY <1>3, <2>1 DEF Plans!CommitCreate
  <2>3. t \in TaskRows /\ t.version = 1
    <3>1. s9[c].wish \in Values /\ s9[c].key \in RequestKeys
      BY <2>2 DEF PlannerInv, AskHolds
    <3>2. QED
      BY <2>1, <3>1 DEF TaskRows
  <2>4. /\ Len(s1') = Len(s1) + 1 /\ s1'[Len(s1) + 1] = t
        /\ \A i \in 1..Len(s1) : s1'[i] = s1[i]
    BY <1>2, <2>2, <2>3, AppendProperties
  <2>5. \A i \in 1..Len(s1') : i \in 1..Len(s1) \/ i = Len(s1) + 1
    BY <1>2, <2>4
  <2>6. 1 <= MaxTaskVersion
    BY BoundsAssumption
  <2>7. \A i \in 1..Len(s1') : s1'[i].version <= MaxTaskVersion
    BY <2>3, <2>4, <2>5, <2>6 DEF PlansTypes
  <2>8. QED
    BY <2>2, <2>4, <2>7 DEF PlansTypes
<1>4. ASSUME NEW c \in Clients, Plans!CommitUpdate(c), s1' # s1 PROVE PlansTypes'
  <2>1. PICK n : n = s9[c].task
    OBVIOUS
  <2>2. /\ s9[c].op = "update" /\ s9[c].read < MaxTaskVersion
        /\ s1' = [s1 EXCEPT ![n].values = s9[c].after, ![n].version = s9[c].read + 1,
                            ![n].done = s9[c].after.status = "done"]
    BY <1>4, <2>1 DEF Plans!CommitUpdate
  <2>3. n \in 1..Len(s1) /\ s9[c].read \in Nat
    BY <2>1, <2>2 DEF PlannerInv, AskHolds
  <2>4. s1[n] \in TaskRows
    BY <1>2, <2>3, ElementOfSeq
  <2>5. PICK r : r = [s1[n] EXCEPT !.values = s9[c].after, !.version = s9[c].read + 1,
                                   !.done = s9[c].after.status = "done"]
    OBVIOUS
  <2>6. r.version = s9[c].read + 1
    BY <2>4, <2>5, Zenon DEF TaskRows
  <2>7. s1' = [s1 EXCEPT ![n] = r]
    BY <2>2, <2>5, Zenon
  <2>8. Len(s1') = Len(s1) /\ \A i \in 1..Len(s1) : s1'[i] = IF i = n THEN r ELSE s1[i]
    <3>1. DOMAIN s1' = DOMAIN s1 /\ \A i \in DOMAIN s1 : s1'[i] = IF i = n THEN r ELSE s1[i]
      BY <2>7
    <3>2. s1' \in Seq(TaskRows)
      <4>1. PlannerInv'
        BY PlannerKeeps
      <4>2. QED
        BY <4>1 DEF PlannerInv, PlannerTypes, TaskRows, Values, Plans!TaskValues
    <3>3. Len(s1') \in Nat /\ DOMAIN s1' = 1..Len(s1')
      BY <3>2, LenProperties
    <3>4. QED
      BY <1>2, <3>1, <3>3
  <2>9. s9[c].read + 1 <= MaxTaskVersion
    BY <2>2, <2>3, BoundsAssumption
  <2>10. QED
    BY <2>6, <2>8, <2>9 DEF PlansTypes
<1>5. ASSUME Plans!Deliver \/ Plans!Tick PROVE UNCHANGED s1
  BY <1>5 DEF Plans!Deliver, Plans!Tick
<1>6. ASSUME NEW c \in Clients,
             \/ \E key \in RequestKeys, wish \in Wishes : Plans!BeginCreate(c, key, wish)
             \/ \E t \in DOMAIN s1, change \in Changes : Plans!BeginUpdate(c, t, change)
             \/ \E change \in SettingChanges : Plans!BeginSettings(c, change)
             \/ Plans!CommitSettings(c)
      PROVE  UNCHANGED s1
  BY <1>6 DEF Plans!BeginCreate, Plans!BeginUpdate, Plans!BeginSettings, Plans!CommitSettings
<1>7. CASE UNCHANGED Plans!plannerVars
  BY <1>1, <1>7 DEF Plans!plannerVars
<1>8. QED
  BY <1>1, <1>3, <1>4, <1>5, <1>6, <1>7 DEF Plans!Next

LEMMA PlansTyped == PlannerInv /\ PlansTypes => Plans!TypeOK
<1>. SUFFICES ASSUME PlannerInv, PlansTypes PROVE Plans!TypeOK
  OBVIOUS
<1>1. s1 \in Seq(TaskRows) /\ s4 \in Seq(Trails) /\ Len(s4) = Len(s1) /\ DOMAIN s1 = 1..Len(s1)
  BY LenProperties DEF PlannerInv, PlannerTypes
<1>2. ASSUME NEW t \in 1..Len(s1)
      PROVE  /\ s1[t].version \in 1..MaxTaskVersion /\ s1[t].values \in Plans!TaskValues
             /\ s1[t].key \in RequestKeys
  <2>1. s1[t] \in TaskRows /\ s4[t] \in Trails
    BY <1>1, ElementOfSeq
  <2>2. s1[t].version = Len(s4[t]) + 1 /\ Len(s4[t]) \in Nat
    BY <2>1, LenProperties DEF PlannerInv, TrailHolds, Trails
  <2>3. s1[t].version <= MaxTaskVersion
    BY DEF PlansTypes
  <2>4. QED
    BY <2>1, <2>2, <2>3, BoundsAssumption DEF TaskRows, Values
<1>3. DOMAIN s2 \subseteq RequestKeys \ {None}
  BY <1>2 DEF PlannerInv, KeysHold
<1>4. QED
  BY <1>1, <1>2, <1>3 DEF PlannerInv, PlannerTypes, PlansTypes, Plans!TypeOK

\* A file is named by a second that is not before its bundle was made.
AgentsTypes ==
  /\ s1 = [h \in Hosts |-> s1[h]]
  /\ \A h \in Hosts : s1[h] \in Seq(Spoken) /\ Len(s1[h]) <= MaxLength
  /\ s3 <= 2 * MaxSeconds
  /\ \A n \in DOMAIN s4 : s4[n].at \div 2 <= n[2]

LEMMA AgentsTypesStart == Agents!Init => AgentsTypes
<1>. SUFFICES ASSUME Agents!Init PROVE AgentsTypes
  OBVIOUS
<1>1. s1 = [h \in Hosts |-> <<>>] /\ s3 = 0 /\ s4 = [n \in {} |-> None]
  BY DEF Agents!Init
<1>2. <<>> \in Seq(Spoken) /\ Len(<<>>) = 0
  BY EmptySeq
<1>3. QED
  BY <1>1, <1>2, BoundsAssumption DEF AgentsTypes

LEMMA AgentsTypesKeep ==
  ASSUME AgentsInv, AgentsTypes, [Agents!Next]_(Agents!handoffVars)
  PROVE  AgentsTypes'
<1>1. CASE UNCHANGED <<s1, s3, s4>>
  BY <1>1 DEF AgentsTypes
<1>2. ASSUME NEW h \in Hosts, NEW record \in Spoken, Agents!Turn(h, record) PROVE AgentsTypes'
  <2>1. PICK t : t = Append(s1[h], record)
    OBVIOUS
  <2>2. /\ s1' = [s1 EXCEPT ![h] = t] /\ Len(s1[h]) < MaxLength /\ UNCHANGED <<s3, s4>>
    BY <1>2, <2>1 DEF Agents!Turn
  <2>3. s1[h] \in Seq(Spoken)
    BY DEF AgentsTypes
  <2>4. t \in Seq(Spoken) /\ Len(t) = Len(s1[h]) + 1 /\ Len(s1[h]) \in Nat
    BY <2>1, <2>3, AppendProperties, LenProperties
  <2>5. Len(t) <= MaxLength
    BY <2>2, <2>4, BoundsAssumption
  <2>6. s1' = [g \in Hosts |-> s1'[g]] /\ \A g \in Hosts : s1'[g] = IF g = h THEN t ELSE s1[g]
    BY <2>2 DEF AgentsTypes
  <2>7. QED
    BY <2>2, <2>4, <2>5, <2>6 DEF AgentsTypes
<1>3. ASSUME NEW h \in Hosts, Agents!Save(h) PROVE AgentsTypes'
  <2>1. PICK b, name : b = s2[h].bundle /\ name = <<s2[h].bundle.provider, s3 \div 2>>
    OBVIOUS
  <2>2. /\ s2[h].state = "saving" /\ UNCHANGED <<s1, s3>>
        /\ s4' = [n \in DOMAIN s4 \cup {name} |-> IF n = name THEN b ELSE s4[n]]
    BY <1>3, <2>1 DEF Agents!Save
  <2>3. b.at \in Nat /\ b.at <= s3 /\ s3 \in Nat
    <3>1. s2[h] # Agents!Quiet
      BY <2>2 DEF Agents!Quiet
    <3>2. OfHost(h, b)
      BY <2>1, <3>1 DEF AgentsInv, HookHolds
    <3>3. QED
      BY <3>2 DEF AgentsInv, OfHost, MarksHold
  <2>4. b.at \div 2 <= s3 \div 2 /\ name[2] = s3 \div 2
    BY <2>1, <2>3
  <2>5. QED
    BY <2>2, <2>4 DEF AgentsTypes
<1>4. ASSUME Agents!Tick PROVE AgentsTypes'
  <2>1. s3 < 2 * MaxSeconds /\ s3' = s3 + 1 /\ UNCHANGED <<s1, s4>>
    BY <1>4 DEF Agents!Tick
  <2>2. s3' <= 2 * MaxSeconds
    BY <2>1, BoundsAssumption DEF AgentsInv, MarksHold
  <2>3. QED
    BY <2>1, <2>2 DEF AgentsTypes
<1>5. ASSUME NEW h \in Hosts,
             \/ Agents!Stop(h) \/ Agents!Kill(h)
             \/ \E f \in Files : Agents!DumpMarkdown(h, f) \/ Agents!DumpFromClaude(h, f)
             \/ \E outcome \in {"stored", "unheard", "refused", "lost"} : Agents!Post(h, outcome)
      PROVE  UNCHANGED <<s1, s3, s4>>
  BY <1>5 DEF Agents!Stop, Agents!Kill, Agents!DumpMarkdown, Agents!DumpFromClaude, Agents!Post
<1>6. ASSUME NEW name \in DOMAIN s4, Agents!ImportFile(name) PROVE UNCHANGED <<s1, s3, s4>>
  BY <1>6 DEF Agents!ImportFile
<1>7. CASE UNCHANGED Agents!handoffVars
  BY <1>1, <1>7 DEF Agents!handoffVars
<1>8. QED
  BY <1>1, <1>2, <1>3, <1>4, <1>5, <1>6, <1>7 DEF Agents!Next

LEMMA AgentsTyped == AgentsInv /\ AgentsTypes => Agents!TypeOK
<1>. SUFFICES ASSUME AgentsInv, AgentsTypes PROVE Agents!TypeOK
  OBVIOUS
<1>1. ASSUME NEW h \in Hosts PROVE Agents!ToSet(s1[h]) \subseteq Spoken
  <2>1. s1[h] \in Seq(Spoken)
    BY DEF AgentsTypes
  <2>2. DOMAIN s1[h] = 1..Len(s1[h]) /\ \A i \in 1..Len(s1[h]) : s1[h][i] \in Spoken
    BY <2>1, LenProperties, ElementOfSeq
  <2>3. QED
    BY <2>2 DEF Agents!ToSet
<1>2. QED
  BY <1>1, BoundsAssumption DEF AgentsInv, MarksHold, AgentsTypes, Agents!TypeOK

------------------------------------------------------------------------------
(* All of them.                                                               *)

ServicesInv ==
  /\ IndexInv
  /\ service = "projects" => MembershipInv
  /\ service = "grants" => GrantsInv
  /\ service = "pages" => PagesInv
  /\ service = "plans" => PlannerInv
  /\ service = "agents" => AgentsInv
  /\ service = "completions" => CompletionsInv

ServicesNext ==
  \/ SearchNext \/ ProjectsNext \/ GrantsNext \/ PagesNext
  \/ PlansNext \/ AgentsNext \/ CompletionsNext

LEMMA ServicesStart == ServicesInit => ServicesInv
BY IndexStart, MembershipStart, GrantsStart, PagesStart, PlannerStart, AgentsStart,
   CompletionsStart
   DEF ServicesInit, ServicesInv, NoIndex

\* A step of one service leaves the index alone, unless it is the index's own.
LEMMA ServicesKeep ==
  ASSUME ServicesInv, [ServicesNext]_<<service, vars, state>>
  PROVE  ServicesInv'
<1>1. service' = service
  BY DEF ServicesNext, SearchNext, ProjectsNext, GrantsNext, PagesNext, PlansNext, AgentsNext,
         CompletionsNext
<1>2. IndexInv'
  <2>1. [Next]_vars
    BY DEF ServicesNext, SearchNext, ProjectsNext, GrantsNext, PagesNext, PlansNext, AgentsNext,
           CompletionsNext
  <2>2. QED
    BY <2>1, IndexKeeps DEF ServicesInv
<1>3. ASSUME service = "projects" PROVE MembershipInv'
  <2>1. [Projects!Next]_(Projects!vars)
    BY <1>3 DEF ServicesNext, SearchNext, ProjectsNext, GrantsNext, PagesNext, PlansNext,
                AgentsNext, CompletionsNext, state, Projects!vars, Projects!tables
  <2>2. QED
    BY <1>3, <2>1, MembershipKeeps DEF ServicesInv
<1>4. ASSUME service = "grants" PROVE GrantsInv'
  <2>1. [Connections!Next]_(Connections!vars)
    BY <1>4 DEF ServicesNext, SearchNext, ProjectsNext, GrantsNext, PagesNext, PlansNext,
                AgentsNext, CompletionsNext, state, Connections!vars, Connections!tables
  <2>2. QED
    BY <1>4, <2>1, GrantsKeep DEF ServicesInv
<1>5. ASSUME service = "pages" PROVE PagesInv'
  <2>1. [Pages!Next]_(Pages!vars)
    BY <1>5 DEF ServicesNext, SearchNext, ProjectsNext, GrantsNext, PagesNext, PlansNext,
                AgentsNext, CompletionsNext, state, Pages!vars
  <2>2. QED
    BY <1>5, <2>1, PagesKeep DEF ServicesInv
<1>6. ASSUME service = "plans" PROVE PlannerInv'
  <2>1. [Plans!Next]_(Plans!plannerVars)
    BY <1>6 DEF ServicesNext, SearchNext, ProjectsNext, GrantsNext, PagesNext, PlansNext,
                AgentsNext, CompletionsNext, state, Plans!plannerVars
  <2>2. QED
    BY <1>6, <2>1, PlannerKeeps DEF ServicesInv
<1>7. ASSUME service = "agents" PROVE AgentsInv'
  <2>1. [Agents!Next]_(Agents!handoffVars)
    BY <1>7 DEF ServicesNext, SearchNext, ProjectsNext, GrantsNext, PagesNext, PlansNext,
                AgentsNext, CompletionsNext, state, Agents!handoffVars
  <2>2. QED
    BY <1>7, <2>1, AgentsKeep DEF ServicesInv
<1>8. ASSUME service = "completions" PROVE CompletionsInv'
  <2>1. [Completions!Next]_(Completions!vars)
    BY <1>8 DEF ServicesNext, SearchNext, ProjectsNext, GrantsNext, PagesNext, PlansNext,
                AgentsNext, CompletionsNext, state, Completions!vars
  <2>2. QED
    BY <1>8, <2>1, CompletionsKeep DEF ServicesInv
<1>9. QED
  BY <1>1, <1>2, <1>3, <1>4, <1>5, <1>6, <1>7, <1>8 DEF ServicesInv

LEMMA ServicesHold ==
  ServicesInv => NotesCurrent /\ Membership /\ CountedOnce /\ SavedIsKept /\ CompletionsHold
<1>. SUFFICES ASSUME ServicesInv
              PROVE  NotesCurrent /\ Membership /\ CountedOnce /\ SavedIsKept /\ CompletionsHold
  OBVIOUS
<1>1. NotesCurrent
  BY IndexHolds DEF ServicesInv
<1>2. Membership
  BY MembershipHolds DEF ServicesInv, Membership
<1>3. CountedOnce
  BY GrantsCounted, PlannerHolds DEF ServicesInv, CountedOnce
<1>4. SavedIsKept
  BY PagesHold DEF ServicesInv, SavedIsKept, AgentsInv
<1>5. CompletionsHold
  BY CompletionsAnswer DEF ServicesInv, CompletionsHold
<1>6. QED
  BY <1>1, <1>2, <1>3, <1>4, <1>5

LEMMA ServicesAlways == Services => []ServicesInv
<1>1. ServicesInv /\ [ServicesNext]_<<service, vars, state>> => ServicesInv'
  BY ServicesKeep
<1>2. QED
  BY <1>1, ServicesStart, PTL DEF Services, ServicesNext

ServicesTypes ==
  /\ service = "projects" => Projects!TypeOK
  /\ service = "grants" => GrantsTypes
  /\ service = "pages" => PagesTypes
  /\ service = "plans" => PlansTypes
  /\ service = "agents" => AgentsTypes

LEMMA ServicesTypesStart == ServicesInit => ServicesTypes
<1>. USE ProjectsTypedStart, GrantsTypesStart, PagesTypesStart, PlansTypesStart, AgentsTypesStart
<1>. QED
  BY DEF ServicesInit, ServicesTypes

LEMMA ServicesTypesKeep ==
  ASSUME ServicesInv, ServicesTypes, [ServicesNext]_<<service, vars, state>>
  PROVE  ServicesTypes'
<1>. USE DEF ServicesNext, SearchNext, ProjectsNext, GrantsNext, PagesNext, PlansNext,
             AgentsNext, CompletionsNext, state
<1>1. service' = service
  OBVIOUS
<1>2. ASSUME service = "projects" PROVE Projects!TypeOK'
  <2>1. [Projects!Next]_(Projects!vars)
    BY <1>2 DEF Projects!vars, Projects!tables
  <2>2. QED
    BY <1>2, <2>1, ProjectsTyped DEF ServicesInv, ServicesTypes
<1>3. ASSUME service = "grants" PROVE GrantsTypes'
  <2>1. [Connections!Next]_(Connections!vars)
    BY <1>3 DEF Connections!vars, Connections!tables
  <2>2. QED
    BY <1>3, <2>1, GrantsTypesKeep DEF ServicesInv, ServicesTypes
<1>4. ASSUME service = "pages" PROVE PagesTypes'
  <2>1. [Pages!Next]_(Pages!vars)
    BY <1>4 DEF Pages!vars
  <2>2. QED
    BY <1>4, <2>1, PagesTypesKeep DEF ServicesInv, ServicesTypes
<1>5. ASSUME service = "plans" PROVE PlansTypes'
  <2>1. [Plans!Next]_(Plans!plannerVars)
    BY <1>5 DEF Plans!plannerVars
  <2>2. QED
    BY <1>5, <2>1, PlansTypesKeep DEF ServicesInv, ServicesTypes
<1>6. ASSUME service = "agents" PROVE AgentsTypes'
  <2>1. [Agents!Next]_(Agents!handoffVars)
    BY <1>6 DEF Agents!handoffVars
  <2>2. QED
    BY <1>6, <2>1, AgentsTypesKeep DEF ServicesInv, ServicesTypes
<1>7. QED
  BY <1>1, <1>2, <1>3, <1>4, <1>5, <1>6 DEF ServicesTypes

\* Every table, request and bundle has its type whatever the services are given; a process
\* serves one request with a capture key at a time, however many come; tasks, versions,
\* transcripts and the clock stay in their bounds, and a grant has no more tokens than there
\* are devices; and a browser that works for one call holds its lock for it.
\* (services/source_capture.py, workspace/store.py, services/connection_grants.py,
\* workspace/provider_projects.py, workspace/knowledge.py, browser_proxy/service.py)
THEOREM ServicesTypeCorrect == Services => []TypesOK
<1>1. ServicesInv /\ ServicesTypes => TypesOK
  <2>. SUFFICES ASSUME ServicesInv, ServicesTypes PROVE TypesOK
    OBVIOUS
  <2>1. TypeOK
    BY IndexHolds DEF ServicesInv
  <2>2. QED
    BY <2>1, GrantsTyped, PagesTyped, PlansTyped, AgentsTyped, CompletionsTyped
       DEF ServicesInv, ServicesTypes, TypesOK
<1>2. ServicesInv /\ ServicesTypes /\ [ServicesNext]_<<service, vars, state>> => ServicesTypes'
  BY ServicesTypesKeep
<1>3. QED
  BY <1>1, <1>2, ServicesTypesStart, ServicesAlways, PTL DEF Services, ServicesNext

\* While nothing is loaded and no call has failed, the notes of the index are those of the
\* records, and the note of a memory with a current fingerprint is that of the memory as it
\* is now. (workspace/knowledge.py)
THEOREM NotesStayCurrent == Services => []NotesCurrent
<1>1. ServicesInv => NotesCurrent
  BY ServicesHold
<1>2. QED
  BY <1>1, ServicesAlways, PTL

\* A search that has waited for the index answers with what the database holds then: nothing
\* that was withdrawn or changed while it waited. (workspace/knowledge.py)
THEOREM AnswersStayCurrent == Services => AnswersCurrent
<1>1. ServicesInv /\ [ServicesNext]_<<service, vars, state>> =>
        [query.pc = "recheck" /\ query'.pc = "answered" =>
           \A i \in query'.items : row[i.key] = i.stamp /\ row[i.key].visible]_vars
  <2>1. SUFFICES ASSUME [ServicesNext]_<<service, vars, state>>, query.pc = "recheck",
                        query'.pc = "answered"
                 PROVE  \A i \in query'.items : row[i.key] = i.stamp /\ row[i.key].visible
    OBVIOUS
  <2>2. [Next]_vars
    BY <2>1 DEF ServicesNext, SearchNext, ProjectsNext, GrantsNext, PagesNext, PlansNext,
                AgentsNext, CompletionsNext
  <2>3. QED
    BY <2>1, <2>2, AnswersRead
<1>2. QED
  BY <1>1, ServicesAlways, PTL DEF Services, ServicesNext, AnswersCurrent

\* On sqlite the owner's choice of a project stands against every import; on either database
\* a source she has never assigned is where its newest applied observation says, however
\* many captures overlap and in whatever order they come. (workspace/provider_projects.py)
THEOREM MembershipCorrect == Services => []Membership
<1>1. ServicesInv => Membership
  BY ServicesHold
<1>2. QED
  BY <1>1, ServicesAlways, PTL

\* A grant has counted its tokens and none too many for any number of devices that redeem it
\* at once; and for any number of clients a key makes one task, a task's history has no fork,
\* and what is announced is announced under the key it then has. (services/connection_grants.py,
\* workspace/store.py)
THEOREM CountsCorrect == Services => []CountedOnce
<1>1. ServicesInv => CountedOnce
  BY ServicesHold
<1>2. QED
  BY <1>1, ServicesAlways, PTL

\* Who is told that a page is saved finds it under its key, for any number of requests and
\* processes; its row shows what its files do, unless it was taken up again when it was
\* complete, and only another process does that; and of any number of agents, whatever a hook
\* has dealt with is at the backend, or on disk, or its file had the name of another.
\* (services/source_capture.py, savemycontext_codex_hook.py)
THEOREM SavedStaysKept == Services => []SavedIsKept
<1>1. ServicesInv => SavedIsKept
  BY ServicesHold
<1>2. QED
  BY <1>1, ServicesAlways, PTL

\* Whatever calls and tasks overlap, and however long their conversations are: a call that
\* starts a conversation has the answer to its own prompt; one that continues one of ChatGPT
\* has a text after its own prompt, or of the branch that its page opened with, or of any if
\* the response named no branch; a task is repaired in the conversation of its reply, where
\* nobody has asked since, or at the beginning of another if its page had no address yet; and
\* a client's history is stored once. (browser_proxy/service.py, browser_proxy/parsers.py,
\* browser_proxy_client.py, openai_proxy.py)
THEOREM CompletionsCorrect == Services => []CompletionsHold
<1>1. ServicesInv => CompletionsHold
  BY ServicesHold
<1>2. QED
  BY <1>1, ServicesAlways, PTL

=============================================================================
