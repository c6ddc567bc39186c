------------------------------ MODULE MCPiles ------------------------------
(***************************************************************************)
(* The pile pipeline and what is shown of it, each part on a small         *)
(* instance of its own, in one run: how one conversation is routed, the    *)
(* requests that sort conversations, edits of the to-do list,              *)
(* restructuring, graphs, views and a search.                              *)
(***************************************************************************)
EXTENDS Routing, FiniteSets, TLC

CONSTANTS
  Sessions, Piles, Requests, BatchSize, MaxSource, Engines, Modes,
  Chats, BuiltIns, UserPiles, Runners, RunLimit, MaxTicks, MaxEdits, Configs,
  Conversations, NodeLimit, EdgeLimit, PathLimit, MaxHops, Rounds, CostScale, Contents, Scopes,
  Shelved, MatchLimit, GroupLimit, SourceLimit, Holdings, Themes,
  SearchSessions, SearchCaptures, MaxSearchEdits, Queries, Items, Paths,
  MaxRequests, Lists, Texts

VARIABLES
  part,  \* which of the parts runs; routing has its own variables
  s1, s2, s3, s4, s5, s6, s7, s8, s9, s10, s11  \* those of any other part, as many as it has

-----------------------------------------------------------------------------
(* What the instances hold.                                                *)

Word(list, verb, term) == [list |-> list, verb |-> verb, term |-> term]
Words == {Word(FALSE, FALSE, FALSE), Word(FALSE, FALSE, TRUE), Word(FALSE, TRUE, FALSE), Word(TRUE, FALSE, TRUE)}
ShortTalks == UNION {[1..n -> Words] : n \in 1..3}
Proposed == {s \in [pile : {"todo", "discarded", "journal"}, start : 1..3, end : 1..4] : s.start <= s.end}
TwoSegments ==
  {<<>>} \cup {<<s>> : s \in Proposed} \cup {p \in Proposed \X Proposed : p[1].start <= p[2].start}

Configured == {[enabled |-> TRUE, interval |-> 1]}

Told(kind, tags, facts, words) ==
  [pile |-> kind, tags |-> tags, account |-> "a", facts |-> facts, words |-> words]
\* A fact is its subject, its predicate and its object.
Library == {
  Told("factual", {"t"}, {<<1, 1, 2>>, <<2, 1, 3>>}, {1, 2}),
  Told("factual", {"t"}, {<<1, 1, 2>>, <<1, 2, 3>>, <<3, 2, 4>>}, {1, 2, 3}),
  Told("factual", {"t"}, {<<2, 2, 3>>, <<2, 1, 4>>, <<5, 1, 5>>}, {2, 3}),
  Told("factual", {}, {<<1, 2, 2>>, <<4, 1, 1>>}, {3}),
  Told("ideas", {"t"}, {}, {1, 2, 4}),
  Told("ideas", {"t"}, {}, {1, 3, 4}) }
TwoScopes == {[custom |-> FALSE, name |-> "factual", account |-> None],
              [custom |-> TRUE, name |-> "t", account |-> "a"]}

Held(kind, title, words, terms, thread, project, relations, people) ==
  [pile |-> kind, title |-> title, words |-> words, terms |-> terms, thread |-> thread, project |-> project,
   relations |-> relations, people |-> people]
Says(words, relation) == [words |-> words, relation |-> relation]
Shelf == {
  Held("factual", 1, {1, 2}, {1, 2, 3}, None, None, {}, {}),
  Held("factual", 1, {4}, {3, 4}, None, None, {}, {}),
  Held("journal", 2, {1, 3}, {}, None, None, {}, {1, 2}),
  Held("discarded", 2, {1, 3}, {}, None, None, {}, {1, 2}),
  Held("ideas", 3, {1, 2, 4}, {}, 1, None, {Says({2, 3}, "builds_on")}, {}),
  Held("ideas", 3, {2, 3}, {}, 1, None, {Says({1}, "validates")}, {}),
  Held("ideas", 2, {3, 4}, {}, None, None, {Says({4}, "counters")}, {}),
  Held("ideas", 1, {5}, {}, 1, 9, {}, {}) }
OneTheme == {[rank |-> 1, name |-> 9, words |-> {1, 2, 9}]}

Plain == [pile |-> "ideas", provider |-> "chatgpt", account |-> "me", tag |-> "x", discarded |-> FALSE,
          found |-> TRUE, fact |-> TRUE, entities |-> {0}, path |-> "p"]
FourItems ==
  {Plain, [Plain EXCEPT !.discarded = TRUE], [Plain EXCEPT !.path = "q", !.found = FALSE],
   [Plain EXCEPT !.pile = "todo", !.account = "you", !.tag = None, !.fact = FALSE, !.path = "q"]}
All == [limit |-> 2, pile |-> None, provider |-> None, account |-> None, tag |-> None,
        discarded |-> FALSE, kinds |-> {"session", "entity", "source_capture", "todo_list"}]
SevenQueries ==
  {[All EXCEPT !.limit = 1], [All EXCEPT !.limit = 5], [All EXCEPT !.pile = "todo", !.limit = 3],
   [All EXCEPT !.provider = "chatgpt"], [All EXCEPT !.account = "me"], [All EXCEPT !.tag = "x"],
   [All EXCEPT !.kinds = {"session", "source_capture"}, !.limit = 4, !.discarded = TRUE]}

Milk == [key |-> <<1>>, rank |-> 1]
OatMilk == [key |-> <<2, 1>>, rank |-> 2]
Things == {Milk, [Milk EXCEPT !.rank = 3], OatMilk, [key |-> <<3>>, rank |-> 4], [key |-> <<>>, rank |-> 5]}
Thing(text, done, deadline) == [text |-> text, done |-> done, deadline |-> deadline]
TodoLists ==
  {<<>>} \cup {<<Thing(OatMilk, a, 7), Thing(Milk, b, None), Thing(t, FALSE, d)>> :
                a, b \in BOOLEAN, t \in Things, d \in {None, 6}}

-----------------------------------------------------------------------------
Sorting == INSTANCE Enrichment
  WITH engine <- s1, mode <- s2, row <- s3, todo <- s4, copy <- s5, task <- s6, tx <- s7
Runs == INSTANCE Restructure
  WITH Owner <- 0,
       dialect <- s1, pile <- s2, chat <- s3, holder <- s4, run <- s5, assigning <- s6, chosen <- s7,
       reports <- s8, writers <- s9, ticks <- s10, edits <- s11
Explore == INSTANCE Explorer
  WITH library <- s1, graph <- s2, spread <- s3, walk <- s4
Shelves == INSTANCE Views
  WITH shelf <- s1, unlinked <- s2, linked <- s3, ideas <- s4, journal <- s5, sources <- s6
Finding == INSTANCE Search
  WITH Sessions <- SearchSessions, Captures <- SearchCaptures, MaxEdits <- MaxSearchEdits,
       item <- s1, age <- s2, list <- s3, query <- s4, step <- s5, hits <- s6, rows <- s7,
       notes <- s8, answer <- s9, edited <- s10

Todo == INSTANCE TodoList
  WITH items <- s1, last <- s2, requests <- s3

state == <<s1, s2, s3, s4, s5, s6, s7, s8, s9, s10, s11>>

\* Where nothing is routed, one conversation waits.
NoRouting == Init /\ ~hints /\ talk = CHOOSE t \in ShortTalks : Len(t) = 1

None8To11 == s8 = None /\ s9 = None /\ s10 = None /\ s11 = None
None5To11 == s5 = None /\ s6 = None /\ s7 = None /\ None8To11

PilesInit ==
  \/ part = "routing" /\ Init /\ s1 = None /\ s2 = None /\ s3 = None /\ s4 = None /\ None5To11
  \/ /\ NoRouting
     /\ \/ part = "sorting" /\ Sorting!Init /\ None8To11
        \/ part = "runs" /\ Runs!Init
        \/ part = "graph" /\ Explore!Init /\ None5To11
        \/ part = "shelf" /\ Shelves!Init /\ s7 = None /\ None8To11
        \/ part = "search" /\ Finding!Init /\ s11 = None
        \/ part = "list" /\ Todo!Init /\ s4 = None /\ None5To11

RoutingNext == part = "routing" /\ Next /\ UNCHANGED <<part, state>>
\* With browser processing captures never write the to-do list: while the owner has it open
\* there is no second revision, and where a batch can overtake captures, on sqlite, she
\* leaves it closed.
ListOpens ==
  s5' # None /\ s2 = "browser" => s1 = "postgres" /\ \A c \in Sessions : s3'[c].source < MaxSource
SortingNext == part = "sorting" /\ Sorting!Next /\ ListOpens /\ UNCHANGED <<part, vars, s8, s9, s10, s11>>
RunsNext == part = "runs" /\ Runs!Next /\ UNCHANGED <<part, vars>>
GraphNext == part = "graph" /\ Explore!Next /\ UNCHANGED <<part, vars, s5, s6, s7, s8, s9, s10, s11>>
ShelfNext == part = "shelf" /\ Shelves!Next /\ UNCHANGED <<part, vars, s7, s8, s9, s10, s11>>
SearchNext == part = "search" /\ Finding!Next /\ UNCHANGED <<part, vars, s11>>
ListNext == part = "list" /\ Todo!Next /\ UNCHANGED <<part, vars, s4, s5, s6, s7, s8, s9, s10, s11>>

PilesSpec ==
  PilesInit /\ [][\/ RoutingNext \/ SortingNext \/ RunsNext
                  \/ GraphNext \/ ShelfNext \/ SearchNext \/ ListNext]_<<part, vars, state>>

Symmetry == Permutations(Requests) \cup Permutations(Runners)

-----------------------------------------------------------------------------
\* There are two databases.
ASSUME SortingAssumption ==
  Engines \subseteq {"postgres", "sqlite"} /\ BatchSize \in Nat /\ MaxSource \in Nat

\* Runs, the owner and nobody are told apart; a listing has an end, and the pile of new
\* conversations is built in.
ASSUME RunsAssumption ==
  /\ None \notin Runners \cup {0} /\ 0 \notin Runners
  /\ IsFiniteSet(Chats) /\ RunLimit \in Nat /\ MaxTicks \in Nat
  /\ "ideas" \in BuiltIns

\* Rows are numbered and finitely many, and no result is none.
ASSUME SearchAssumption ==
  /\ SearchSessions \cup SearchCaptures \subseteq Nat /\ IsFiniteSet(SearchSessions \cup SearchCaptures)
  /\ IsFiniteSet(Paths)
  /\ \A q \in Queries : q.limit \in Nat
  /\ \A new \in Items : IsFiniteSet(new.entities)
  /\ None \notin [kind : {"session", "source_capture"}, id : SearchSessions \cup SearchCaptures]

\* Conversations, entities, predicates and words are numbered, and there are finitely many.
ASSUME ExplorerAssumption ==
  /\ Conversations \subseteq Nat \ {0} /\ IsFiniteSet(Conversations)
  /\ \A held \in Contents :
       /\ IsFiniteSet(held.facts) /\ IsFiniteSet(held.words) /\ held.words \subseteq Nat
       /\ \A f \in held.facts : f = <<f[1], f[2], f[3]>> /\ f[1] \in Nat \ {0} /\ f[2] \in Nat /\ f[3] \in Nat \ {0}
  /\ NodeLimit \in Nat /\ EdgeLimit \in Nat /\ PathLimit \in Nat /\ MaxHops \in Nat /\ CostScale \in Nat

\* Conversations are numbered and finitely many, words are numbered, and an idea relates to
\* others in three ways.
ASSUME ViewsAssumption ==
  /\ Shelved \subseteq Nat /\ IsFiniteSet(Shelved)
  /\ MatchLimit \in Nat \ {0}
  /\ \A held \in Holdings :
       /\ IsFiniteSet(held.words) /\ held.words \subseteq Nat
       /\ \A claim \in held.relations : claim.relation \in {"builds_on", "validates", "counters"}

\* The list holds items, and texts have each a place in their order.
ASSUME TodoAssumption ==
  /\ MaxRequests \in Nat /\ None \notin Nat
  /\ Lists \subseteq Seq([text : Texts, done : BOOLEAN, deadline : Nat \cup {None}])
  /\ \A t \in Texts : t.key \in Seq(Nat) /\ t.rank \in Nat
  /\ \A t, u \in Texts : t.rank = u.rank => t = u

-----------------------------------------------------------------------------
\* Types of all parts, the limits of what views return, and one holder for every row lock.
TypesOK ==
  /\ part = "sorting" => Sorting!TypeOK
  /\ TypeOK
  /\ part = "runs" => Runs!TypeOK
  /\ part = "graph" => Explore!TypeOK
  /\ part = "shelf" => Shelves!TypeOK
  /\ part = "search" => Finding!TypeOK
  /\ part = "list" => Todo!TypeOK

\* No result of an earlier revision, nor a failed request, takes the pending flag from a
\* newer capture.
FlagHonest == part = "sorting" => Sorting!PendingHonest

\* A conversation loses its mark for export only to a note that shows its latest revision.
NotesLatest == [][part = "sorting" => Sorting!ExportsLatest]_<<state, part>>

\* Automatic sorting never moves what the owner has assigned, and no writer of the to-do
\* list drops what another has put there meanwhile.
OwnerWins == [][part = "sorting" => Sorting!KeepsPile /\ Sorting!KeepsList]_<<state, part>>

\* A restructuring run leaves a conversation where its owner put it while the run was under
\* way, and reports what it has committed.
RunsHold == part = "runs" => Runs!OwnerStands /\ Runs!RunsReportTruly

\* Communities are stable and connected, paths are the cheapest, facts are linked to the
\* sources that mention them, within the limit of the view, and ideas to those before them,
\* and a search returns what passes its filters and hides nothing within its limit; and what
\* the owner asks of her to-do list can be read there, and only the item that she names, or
\* if there is none one of a like name, changes.
ViewsHold ==
  /\ part = "graph" => Explore!CommunitiesHold /\ Explore!PathsAreCheapest
  /\ part = "shelf" => Shelves!SourcesLinked /\ Shelves!IdeasJoined
  /\ part = "search" => Finding!NothingHidden /\ Finding!FiltersHold
  /\ part = "list" => Todo!NoneMerged /\ Todo!AskedIsListed /\ Todo!RenderedOnce
=============================================================================
