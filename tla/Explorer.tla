------------------------------ MODULE Explorer ------------------------------
(***************************************************************************)
(* The graph of a pile (services/explorer.py): conversations or the        *)
(* entities of their facts as nodes, communities by label propagation, and *)
(* the best paths between two nodes.  Conversations are numbered from the  *)
(* newest; entities, predicates and words by their alphabetical order.     *)
(***************************************************************************)
EXTENDS Orders, Sequences, FiniteSetsExt

CONSTANTS
  Conversations,    \* 1..n
  Contents,         \* what a conversation may hold
  Scopes,           \* piles and custom tags whose graph is asked for
  NodeLimit, EdgeLimit,        \* of either graph
  PathLimit, MaxHops,
  Rounds,           \* of label propagation
  CostScale,        \* a common multiple of 2 .. largest weight + 1
  None              \* no pile, no account

VARIABLES
  library,      \* the conversations
  graph,        \* the graph under construction: its nodes and edges
  spread,       \* the communities, the round, whom it has visited, whether it changed one
  walk          \* the search for paths: its ends, heap, counter and findings

explorerVars == <<library, graph, spread, walk>>

Peripheral == 0

\* What is not there yet.
Absent == <<>>

-----------------------------------------------------------------------------
(* The conversations of a scope and their dominant pile.                   *)

InScope(scope) ==
  {c \in Conversations :
     /\ IF scope.custom THEN scope.name \in library[c].tags ELSE scope.name = library[c].pile
     /\ scope.account \in {None, library[c].account}}

\* The pile of most conversations, and of the newest one among equals.
DominantCategory(S, fallback) ==
  LET count(c) == Cardinality({d \in S : library[d].pile = library[c].pile})
      sorted == {c \in S : library[c].pile # None}
  IN  IF sorted = {} THEN fallback
      ELSE library[CHOOSE c \in sorted : \A d \in sorted :
                     count(c) > count(d) \/ (count(c) = count(d) /\ c <= d)].pile

-----------------------------------------------------------------------------
(* Two kinds of graph.                                                     *)

\* Heavier edges first, then by label and ends.
EdgeBefore(e, f) ==
  \/ e.weight > f.weight
  \/ /\ e.weight = f.weight
     /\ \/ e.label < f.label
        \/ e.label = f.label /\ e.source < f.source
        \/ e.label = f.label /\ e.source = f.source /\ e.target < f.target

\* The facts of the conversations, who tells one, where an entity is named, and its edges.
Facts(S) == UNION {library[c].facts : c \in S}
Tellers(S, f) == {c \in S : f \in library[c].facts}
Mentions(S, n) == {t \in S \X Facts(S) \X {1, 3} : t[2] \in library[t[1]].facts /\ t[2][t[3]] = n}
Ends(S) == {f[end] : f \in Facts(S), end \in {1, 3}}
FactEdge(S, f) ==
  [source |-> f[1], label |-> f[2], target |-> f[3],
   weight |-> Cardinality(Tellers(S, f)), sessions |-> Tellers(S, f)]

MoreOften(S, m, n) ==
  LET degree(x) == Cardinality(Mentions(S, x))
  IN  degree(m) > degree(n) \/ (degree(m) = degree(n) /\ m < n)

FirstEnds(S) == First(Ends(S), NodeLimit, LAMBDA m, n : MoreOften(S, m, n))
FirstEdges(edges) == First(edges, EdgeLimit, EdgeBefore)

\* Entities by the number of their facts; an edge for every fact between two of the first.
FactualGraph(S) ==
  LET nodes == FirstEnds(S)
  IN  [nodes |-> nodes,
       sessions |-> [n \in nodes |-> {c \in S : \E f \in library[c].facts : n \in {f[1], f[3]}}],
       edges |-> FirstEdges({FactEdge(S, f) : f \in {g \in Facts(S) : {g[1], g[3]} \subseteq nodes}})]

\* The first three words that two conversations share, as one number.
SharedLabel(words) ==
  LET sorted == InTurn(words)
  IN  100 * sorted[1] + 10 * sorted[2] + IF Cardinality(words) > 2 THEN sorted[3] ELSE 0

Shared(c, d) == library[c].words \cap library[d].words
SharedEdge(c, d) ==
  [source |-> c, label |-> SharedLabel(Shared(c, d)), target |-> d,
   weight |-> Min({Cardinality(Shared(c, d)), 8}), sessions |-> {c, d}]

Newest(S) == First(S, NodeLimit, LAMBDA c, d : c < d)

\* Conversations, with an edge where two share two words or more.
SimilarityGraph(S) ==
  LET nodes == Newest(S)
      pairs == {p \in nodes \X nodes : p[1] < p[2] /\ Cardinality(Shared(p[1], p[2])) >= 2}
  IN  [nodes |-> nodes, sessions |-> [n \in nodes |-> {n}],
       edges |-> FirstEdges({SharedEdge(p[1], p[2]) : p \in pairs})]

GraphOf(scope) ==
  LET S == InScope(scope)
      fallback == IF scope.custom THEN "factual" ELSE scope.name
  IN  IF /\ DominantCategory(S, fallback) = "factual"
         /\ \A c \in S : library[c].pile = "factual"
      THEN FactualGraph(S) ELSE SimilarityGraph(S)

-----------------------------------------------------------------------------
(* Communities.                                                            *)

Between(g, m, n) == {e \in g.edges : {e.source, e.target} = {m, n}}
Adjacent(g, m, n) == m # n /\ Between(g, m, n) # {}
Neighbors(g, n) == {m \in g.nodes : Adjacent(g, m, n)}

\* An edge has as many votes as its weight.
Weight(e) == Max({e.weight, 1})
Votes(edges) == UNION {{e} \X (1..Weight(e)) : e \in edges}

\* The order in which a round visits the nodes.
RankedBefore(g, m, n) ==
  LET degree(x) == Cardinality(Neighbors(g, x))
      evidence(x) == Cardinality(g.sessions[x])
  IN  \/ degree(m) > degree(n)
      \/ /\ degree(m) = degree(n)
         /\ evidence(m) > evidence(n) \/ (evidence(m) = evidence(n) /\ m < n)

\* The weight that ties a node to a community, and the community that a visit gives it.
Score(g, community, n, c) ==
  Cardinality(Votes(UNION {Between(g, m, n) : m \in {x \in Neighbors(g, n) : community[x] = c}}))

Options(g, community, n) == {community[m] : m \in Neighbors(g, n)}
Best(g, community, n) ==
  {c \in Options(g, community, n) :
     \A d \in Options(g, community, n) : Score(g, community, n, c) >= Score(g, community, n, d)}

BestCommunity(g, community, n) ==
  IF Neighbors(g, n) = {} THEN Peripheral
  ELSE IF community[n] \in Best(g, community, n) THEN community[n] ELSE Max(Best(g, community, n))

\* Faulty: a round is judged by its last visit.
ChangedLast(p, n, to) == to # p.community[n]

\* Whether the round has changed anything, this visit included.
Changed(p, n, to) == p.changed \/ to # p.community[n]

Settled == spread # Absent /\ spread.done

BuildGraph(scope) ==
  /\ graph = Absent
  /\ graph' = GraphOf(scope)
  /\ spread' = [community |-> [n \in graph'.nodes |-> n], round |-> 1, visited |-> {},
                changed |-> FALSE, done |-> graph'.nodes = {}]
  /\ UNCHANGED <<library, walk>>

\* Whom a round visits next, and what the visit leaves.
NextOf(g, left) == CHOOSE x \in left : \A y \in left : x = y \/ RankedBefore(g, x, y)

Visited(g, p, n) ==
  LET to == BestCommunity(g, p.community, n)
      changed == Changed(p, n, to)
      last == g.nodes \ p.visited = {n}
      done == last /\ (~changed \/ p.round = Rounds)
  IN  [community |-> [p.community EXCEPT ![n] = to],
       round |-> IF last THEN p.round + 1 ELSE p.round,
       visited |-> IF last THEN {} ELSE p.visited \cup {n},
       changed |-> changed /\ (last => done),
       done |-> done]

Visit ==
  /\ spread # Absent /\ ~spread.done
  /\ spread' = Visited(graph, spread, NextOf(graph, graph.nodes \ spread.visited))
  /\ UNCHANGED <<library, graph, walk>>

-----------------------------------------------------------------------------
(* Paths: the cheapest entry of the heap is taken off and extended.        *)

EdgeCost(e) == CostScale \div (Weight(e) + 1)

BeginWalk(source, target) ==
  /\ Settled /\ walk = Absent
  /\ walk' = [source |-> source, target |-> target, tick |-> 1, found |-> <<>>,
              queue |-> IF source = target THEN {}
                        ELSE {[cost |-> 0, tick |-> 0, path |-> <<source>>, edges |-> <<>>]}]
  /\ UNCHANGED <<library, graph, spread>>

WalkGoesOn == walk # Absent /\ walk.queue # {} /\ Len(walk.found) < PathLimit

\* Faulty: entries are taken off in the order in which they came.
PopOldest(e, f) == e.tick <= f.tick

PopBefore(e, f) == e.cost < f.cost \/ (e.cost = f.cost /\ e.tick <= f.tick)

\* The end of a path, where an edge leads from there, and the edges that do not lead back.
End(path) == path[Len(path)]
Far(e, here) == IF e.source = here THEN e.target ELSE e.source
Ways(g, path) ==
  {e \in g.edges : /\ End(path) \in {e.source, e.target}
                   /\ \A i \in DOMAIN path : path[i] # Far(e, End(path))}

Extended(g, tick, entry, e) ==
  [cost |-> entry.cost + EdgeCost(e),
   tick |-> tick + Cardinality({f \in Ways(g, entry.path) : EdgeBefore(f, e)}),
   path |-> Append(entry.path, Far(e, End(entry.path))),
   edges |-> Append(entry.edges, e)]
Extensions(g, tick, entry) == {Extended(g, tick, entry, e) : e \in Ways(g, entry.path)}

\* An arrival is reported unless its nodes are those of an earlier one.
Reported(found, entry) ==
  IF \E i \in DOMAIN found : found[i].path = entry.path THEN found
  ELSE Append(found,
              [path |-> entry.path, cost |-> entry.cost,
               evidence |-> UNION {entry.edges[i].sessions : i \in DOMAIN entry.edges}])

Popped(g, w, entry) ==
  LET rest == w.queue \ {entry}
      more == Extensions(g, w.tick, entry)
  IN  IF End(entry.path) = w.target THEN [w EXCEPT !.queue = rest, !.found = Reported(w.found, entry)]
      ELSE IF Len(entry.edges) >= MaxHops THEN [w EXCEPT !.queue = rest]
      ELSE [w EXCEPT !.queue = rest \cup more, !.tick = @ + Cardinality(more)]

Pop ==
  /\ WalkGoesOn
  /\ walk' = Popped(graph, walk, CHOOSE e \in walk.queue : \A f \in walk.queue : PopBefore(e, f))
  /\ UNCHANGED <<library, graph, spread>>

-----------------------------------------------------------------------------
Init ==
  /\ library \in [Conversations -> Contents]
  /\ graph = Absent /\ spread = Absent /\ walk = Absent

Next ==
  \/ \E scope \in Scopes : BuildGraph(scope)
  \/ Visit
  \/ graph # Absent /\ \E source, target \in graph.nodes : BeginWalk(source, target)
  \/ Pop

Spec == Init /\ [][Next]_explorerVars

\* Types, and the limits on what a graph and a search return.
TypeOK ==
  /\ library \in [Conversations -> Contents]
  /\ graph # Absent =>
       /\ Cardinality(graph.nodes) <= NodeLimit /\ Cardinality(graph.edges) <= EdgeLimit
       /\ \A e \in graph.edges : {e.source, e.target} \subseteq graph.nodes
       /\ spread.community \in [graph.nodes -> graph.nodes \cup {Peripheral}]
  /\ walk # Absent => Len(walk.found) <= PathLimit

\* A chain of edges leads from m to n: n is wherever m is, in any part that no edge leaves.
Connected(g, m, n) ==
  \A S \in SUBSET g.nodes : m \in S /\ (\A x \in S : Neighbors(g, x) \subseteq S) => n \in S

\* Communities are a part of one component each, peripheral is who has no edge, and unless the
\* rounds ran out no node has a community that suits it better.
\* (services/explorer.py: _detect_communities)
CommunitiesHold ==
  Settled =>
    /\ \A n \in graph.nodes : spread.community[n] = Peripheral <=> Neighbors(graph, n) = {}
    /\ \A m, n \in graph.nodes :
         spread.community[m] = spread.community[n] /\ spread.community[m] # Peripheral
           => Connected(graph, m, n)
    /\ ~spread.changed =>
         \A n \in graph.nodes : BestCommunity(graph, spread.community, n) = spread.community[n]

\* The simple paths between two nodes within the limit of hops, and what each costs by its
\* cheapest edges, up to its first, second, third ... node.
Routes(g, source, target) ==
  {p \in UNION {[1..k -> g.nodes] : k \in 2..(MaxHops + 1)} :
     /\ p[1] = source /\ End(p) = target
     /\ \A i, j \in DOMAIN p : p[i] = p[j] => i = j
     /\ \A i \in 1..(Len(p) - 1) : Adjacent(g, p[i], p[i + 1])}
LegCost(g, p, i) == Min({EdgeCost(e) : e \in Between(g, p[i], p[i + 1])})
Fares(g, p) ==
  LET sum[n \in 1..Len(p)] == IF n = 1 THEN 0 ELSE sum[n - 1] + LegCost(g, p, n - 1) IN sum
Fare(g, p) == Fares(g, p)[Len(p)]

\* A finished search has found the cheapest simple paths within the limit of hops, each by
\* its heaviest edges, in the order of their cost; fewer than the limit only if there are.
\* (services/explorer.py: _build_graph_path)
PathsAreCheapest ==
  walk # Absent /\ ~WalkGoesOn /\ walk.source # walk.target =>
    LET routes == Routes(graph, walk.source, walk.target)
        found == {walk.found[i].path : i \in DOMAIN walk.found}
    IN  /\ found \subseteq routes /\ Cardinality(found) = Len(walk.found)
        /\ \A i \in DOMAIN walk.found : walk.found[i].cost = Fare(graph, walk.found[i].path)
        /\ \A i, j \in DOMAIN walk.found : i < j => walk.found[i].cost <= walk.found[j].cost
        /\ Len(walk.found) < PathLimit => found = routes
        /\ \A p \in routes \ found, q \in found : Fare(graph, p) >= Fare(graph, q)

-----------------------------------------------------------------------------
(* Why these hold.                                                         *)

\* A graph: numbered nodes, and edges between them that differ in their label or an end.
Sound(g) ==
  /\ g.nodes \subseteq Nat \ {Peripheral} /\ IsFiniteSet(g.nodes)
  /\ IsFiniteSet(g.edges) /\ Cardinality(g.nodes) <= NodeLimit /\ Cardinality(g.edges) <= EdgeLimit
  /\ g.edges \subseteq [source : g.nodes, label : Nat, target : g.nodes, weight : Nat,
                        sessions : SUBSET Conversations]
  /\ \A e, f \in g.edges :
       e.label = f.label /\ e.source = f.source /\ e.target = f.target => e = f
  /\ g.sessions \in [g.nodes -> SUBSET Conversations]

\* A node is connected to the one that its community is named after; who was visited and has
\* no edge is peripheral, and while nothing changes who was visited has the best community.
Spreading(g, p) ==
  /\ p.community \in [g.nodes -> g.nodes \cup {Peripheral}] /\ p.visited \subseteq g.nodes
  /\ p.round \in Nat \ {0} /\ p.changed \in BOOLEAN /\ p.done \in BOOLEAN
  /\ ~p.done => p.visited # g.nodes
  /\ p.done => p.round > 1 \/ g.nodes = {}
  /\ \A n \in g.nodes :
       /\ p.community[n] = Peripheral => Neighbors(g, n) = {}
       /\ p.community[n] # Peripheral => Connected(g, n, p.community[n])
       /\ (p.round > 1 \/ n \in p.visited) /\ Neighbors(g, n) = {} => p.community[n] = Peripheral
       /\ ~p.changed /\ (p.done \/ n \in p.visited) => BestCommunity(g, p.community, n) = p.community[n]

\* A search for paths, its heap and what it finds.
Walks(g) ==
  [source : g.nodes, target : g.nodes, tick : Nat,
   queue : SUBSET [cost : Nat, tick : Nat, path : Seq(g.nodes), edges : Seq(g.edges)],
   found : Seq([path : Seq(g.nodes), cost : Nat, evidence : SUBSET Conversations])]

\* A path under way, no cheaper than by its cheapest edges.
UnderWay(g, w, entry) ==
  /\ Len(entry.path) = Len(entry.edges) + 1 /\ Len(entry.edges) <= MaxHops
  /\ entry.path[1] = w.source
  /\ \A i, j \in DOMAIN entry.path : entry.path[i] = entry.path[j] => i = j
  /\ \A i \in 1..(Len(entry.path) - 1) : Adjacent(g, entry.path[i], entry.path[i + 1])
  /\ entry.cost >= Fare(g, entry.path)

\* A beginning of the route by its cheapest edges.
LeadsTo(g, entry, route) ==
  /\ Len(entry.path) <= Len(route) /\ \A i \in DOMAIN entry.path : entry.path[i] = route[i]
  /\ entry.cost = Fares(g, route)[Len(entry.path)]

\* No entry of the heap is cheaper than what was found, and every route is found or under way.
Walking(g, w) ==
  /\ w \in Walks(g)
  /\ w.source = w.target => w.queue = {} /\ w.found = <<>>
  /\ w.source # w.target =>
       /\ \A entry \in w.queue : UnderWay(g, w, entry)
       /\ \A i \in DOMAIN w.found : w.found[i].path \in Routes(g, w.source, w.target)
       /\ \A i \in DOMAIN w.found : w.found[i].cost = Fare(g, w.found[i].path)
       /\ \A i, j \in DOMAIN w.found : w.found[i].path = w.found[j].path => i = j
       /\ \A i, j \in DOMAIN w.found : i < j => w.found[i].cost <= w.found[j].cost
       /\ \A i \in DOMAIN w.found, entry \in w.queue : w.found[i].cost <= entry.cost
       /\ \A route \in Routes(g, w.source, w.target) :
            \/ \E i \in DOMAIN w.found : w.found[i].path = route
            \/ \E entry \in w.queue : LeadsTo(g, entry, route)

ExplorerInv ==
  /\ TypeOK /\ (graph = Absent <=> spread = Absent) /\ (walk # Absent => Settled)
  /\ graph # Absent => Sound(graph) /\ Spreading(graph, spread)
  /\ walk # Absent => Walking(graph, walk)
=============================================================================
