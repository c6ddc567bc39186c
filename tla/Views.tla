------------------------------- MODULE Views --------------------------------
(***************************************************************************)
(* The views of a pile (services/explorer.py): the facts with the sources  *)
(* that mention them, the ideas with their projects, threads and           *)
(* relations, and the groups of the journal.  Conversations are numbered   *)
(* from the newest; a text is the set of its words, and words, people and  *)
(* labels are numbered alphabetically.                                     *)
(***************************************************************************)
EXTENDS Orders, FiniteSetsExt

CONSTANTS
  Shelved,      \* 1..n, the conversations
  Holdings,     \* what a conversation may hold
  Themes,       \* the idea projects: [rank, name (a word), words]
  MatchLimit,   \* terms listed for one source (6 in the code)
  GroupLimit,   \* groups of a view (24)
  SourceLimit,  \* sources in the factual view (24)
  None

VARIABLES
  shelf,        \* the conversations
  unlinked,     \* facts that the factual view has yet to link
  linked,       \* the sources linked so far: the terms listed with each
  sources,      \* those in the factual view, or None
  ideas,        \* the idea view, or None
  journal       \* the groups of people of the journal view, or None

viewVars == <<shelf, unlinked, linked, sources, ideas, journal>>

InPile(pile) == {c \in Shelved : shelf[c].pile = pile}

-----------------------------------------------------------------------------
(* Groups of the journal and of the ideas.                                 *)

\* Rows <<label, conversation>>: a group for every label, the larger before the smaller.
GroupsBy(rows, rank(_)) ==
  LET members(l) == {r[2] : r \in {q \in rows : q[1] = l}}
      before(k, l) ==
        \/ rank(members(k)) < rank(members(l))
        \/ /\ rank(members(k)) = rank(members(l))
           /\ \/ Cardinality(members(k)) > Cardinality(members(l))
              \/ (Cardinality(members(k)) = Cardinality(members(l)) /\ k < l)
  IN  {[label |-> l, sessions |-> members(l)] :
         l \in First({r[1] : r \in rows}, GroupLimit, before)}

JournalRows == UNION {shelf[c].people \X {c} : c \in InPile("journal")}

ViewJournal ==
  /\ journal = None
  /\ journal' = GroupsBy(JournalRows, LAMBDA S : 0)
  /\ UNCHANGED <<shelf, unlinked, linked, sources, ideas>>

-----------------------------------------------------------------------------
(* Facts and the sources that mention their terms.                         *)

Matches(fact, source) ==
  First(shelf[fact].terms \cap shelf[source].words, MatchLimit, LAMBDA v, w : v < w)

FactualLinks(fact) ==
  {s \in Shelved : shelf[s].pile \notin {"factual", "discarded"} /\ Matches(fact, s) # {}}

\* Faulty: what an earlier fact found in a source is forgotten.
MergedAnew(old, new) == new

\* The terms that are listed with a source, with those of another fact.
Merged(old, new) == old \cup new

\* The newest fact not yet linked; a source linked before gains the terms of this one.
LinkFact ==
  /\ unlinked # {}
  /\ LET fact == Min(unlinked)
         old(s) == IF s \in DOMAIN linked THEN linked[s] ELSE {}
     IN  /\ unlinked' = unlinked \ {fact}
         /\ linked' = [s \in DOMAIN linked \cup FactualLinks(fact) |->
                         IF s \in FactualLinks(fact) THEN Merged(old(s), Matches(fact, s))
                         ELSE old(s)]
  /\ UNCHANGED <<shelf, sources, ideas, journal>>

Terms(s) == Cardinality(linked[s])

\* Those with more terms first, then by title; of equals the code has one order, that in
\* which they were found.
SourceBefore(s, t) ==
  \/ Terms(s) > Terms(t)
  \/ Terms(s) = Terms(t) /\ shelf[s].title < shelf[t].title

\* When all facts are linked, the view takes the first sources.
ListSources ==
  /\ unlinked = {} /\ sources = None
  /\ \E S \in SUBSET DOMAIN linked :
       /\ IF Cardinality(DOMAIN linked) <= SourceLimit
          THEN S = DOMAIN linked ELSE Cardinality(S) = SourceLimit
       /\ \A s \in S, t \in DOMAIN linked \ S : ~SourceBefore(t, s)
       /\ sources' = [s \in S |-> linked[s]]
  /\ UNCHANGED <<shelf, unlinked, linked, ideas, journal>>

-----------------------------------------------------------------------------
(* Ideas.                                                                  *)

ThemeScore(theme, words) ==
  LET hit == theme.words \cap words
  IN  Cardinality(hit) + (IF theme.name \in hit THEN 2 ELSE 0)

\* The active project whose terms the text names best, the first of equals, from two points.
BestProject(words) ==
  LET fit == {t \in Themes : ThemeScore(t, words) >= 2}
  IN  IF fit = {} THEN None
      ELSE CHOOSE t \in fit : \A u \in fit :
             \/ ThemeScore(t, words) > ThemeScore(u, words)
             \/ (ThemeScore(t, words) = ThemeScore(u, words) /\ t.rank <= u.rank)

\* The two words that most ideas share, or else the first two of the idea itself.
SuggestedWords(c) ==
  LET count(w) == Cardinality({d \in InPile("ideas") : w \in shelf[d].words})
      before(v, w) == count(v) > count(w) \/ (count(v) = count(w) /\ v < w)
      repeated == {w \in shelf[c].words : count(w) > 1}
  IN  IF repeated # {} THEN First(repeated, 2, before)
      ELSE First(shelf[c].words, 2, before)

\* The project an idea names, the one its text matches, or a suggestion from its thread.
ProjectOf(c) ==
  LET best == BestProject(shelf[c].words)
  IN  CASE shelf[c].project # None -> [label |-> shelf[c].project, kind |-> "defined"]
        [] shelf[c].project = None /\ best # None -> [label |-> best.name, kind |-> "defined"]
        [] OTHER -> [label |-> IF shelf[c].thread # None THEN 100 + shelf[c].thread
                               ELSE 200 + MapThenSumSet(LAMBDA w : 2^w, SuggestedWords(c)),
                     kind |-> "suggested"]

\* Faulty: the idea that says it may be the one.
OthersOrItself(source) == InPile("ideas")

OtherIdeas(source) == InPile("ideas") \ {source}

Likeness(words, c) ==
  IF words \subseteq shelf[c].words \/ shelf[c].words \subseteq words
  THEN 1000 ELSE Cardinality(words \cap shelf[c].words)

\* The idea that a text speaks of: one that contains it or is contained in it, or else the
\* one with most of its words; the oldest of equals.
BestIdeaTarget(words, source) ==
  LET fit == {c \in OtherIdeas(source) : words # {} /\ Likeness(words, c) > 0}
  IN  IF fit = {} THEN None
      ELSE CHOOSE c \in fit : \A d \in fit :
             \/ Likeness(words, c) > Likeness(words, d)
             \/ (Likeness(words, c) = Likeness(words, d) /\ c >= d)

Idea(from, to, relation) == [source |-> from, target |-> to, relation |-> relation]

\* The ideas of one thread in one project.
Mates(c) ==
  {d \in InPile("ideas") : ProjectOf(d).label = ProjectOf(c).label /\ shelf[d].thread = shelf[c].thread}

\* Every idea of a thread builds on the one before it.
ThreadEdges ==
  {Idea(Min({d \in Mates(c) : d > c}), c, "builds_on") :
     c \in {x \in InPile("ideas") : \E d \in Mates(x) : d > x}}

\* And an idea relates to those that it says it builds on, validates or counters.
RelationEdges ==
  LET claims == UNION {{c} \X shelf[c].relations : c \in InPile("ideas")}
      aim(claim) == BestIdeaTarget(claim[2].words, claim[1])
  IN  {IF claim[2].relation = "builds_on" THEN Idea(aim(claim), claim[1], "builds_on")
       ELSE Idea(claim[1], aim(claim), claim[2].relation) :
         claim \in {k \in claims : aim(k) # None}}

ViewIdeas ==
  /\ ideas = None
  /\ LET rows == {<<ProjectOf(c).label, c>> : c \in InPile("ideas")}
         kindOf(S) == IF ProjectOf(Max(S)).kind = "defined" THEN 0 ELSE 1
     IN  ideas' = [edges |-> ThreadEdges \cup RelationEdges, projects |-> GroupsBy(rows, kindOf)]
  /\ UNCHANGED <<shelf, unlinked, linked, sources, journal>>

-----------------------------------------------------------------------------
Init ==
  /\ shelf \in [Shelved -> Holdings]
  /\ unlinked = InPile("factual")
  /\ linked = [s \in {} |-> {}] /\ sources = None
  /\ ideas = None /\ journal = None

Next == LinkFact \/ ListSources \/ ViewIdeas \/ ViewJournal

Spec == Init /\ [][Next]_viewVars

\* Types; a linked source is not itself a fact.
TypeOK ==
  /\ shelf \in [Shelved -> Holdings]
  /\ unlinked \subseteq InPile("factual")
  /\ DOMAIN linked \subseteq Shelved \ InPile("factual")
  /\ ideas # None => ideas.edges \subseteq
       [source : Shelved, target : Shelved, relation : {"builds_on", "validates", "counters"}]

\* The words of the facts that a source mentions, and what linking finds of them.
Told(s) == (UNION {shelf[f].terms : f \in InPile("factual")}) \cap shelf[s].words
Found(s) == UNION {Matches(f, s) : f \in InPile("factual")}

Mentioning == {s \in Shelved \ (InPile("factual") \cup InPile("discarded")) : Told(s) # {}}

\* The factual view lists every source that mentions a fact, up to its limit, and beyond it
\* none that has fewer terms than one left out; each with terms that it does mention, some
\* of every fact that it mentions, whichever fact was looked at last.
\* (services/explorer.py: _factual_links, _factual_views)
SourcesLinked ==
  sources # None =>
    LET listed == DOMAIN sources IN
    /\ listed \subseteq Mentioning
    /\ IF Cardinality(Mentioning) <= SourceLimit THEN listed = Mentioning
       ELSE /\ Cardinality(listed) = SourceLimit
            /\ \A s \in listed, t \in Mentioning \ listed : ~(Cardinality(Found(t)) > Cardinality(Found(s)))
    /\ \A s \in listed :
         /\ sources[s] \subseteq Told(s)
         /\ \A f \in InPile("factual") :
              shelf[f].terms \cap Told(s) # {} => shelf[f].terms \cap sources[s] # {}

\* No idea relates to itself, two ideas of one thread are joined by a chain from the older to
\* the newer, and every idea is in one project.
\* (services/explorer.py: _idea_views, _best_idea_target)
IdeasJoined ==
  ideas # None =>
    LET chain == {<<e.source, e.target>> : e \in {f \in ideas.edges : f.relation = "builds_on"}}
        reaches(c, d) ==
          \A S \in SUBSET Shelved : c \in S /\ (\A link \in chain : link[1] \in S => link[2] \in S) => d \in S
    IN  /\ \A e \in ideas.edges : e.source # e.target
        /\ \A c, d \in InPile("ideas") :
             c > d /\ shelf[c].thread = shelf[d].thread
             /\ (\E g \in ideas.projects : {c, d} \subseteq g.sessions)
               => reaches(c, d)
        /\ \A c \in InPile("ideas") : Cardinality({g \in ideas.projects : c \in g.sessions}) <= 1

-----------------------------------------------------------------------------
(* Why these hold.                                                         *)

\* What is linked is what was found for the facts that have been looked at.
LinkedSoFar ==
  /\ DOMAIN linked \cap InPile("discarded") = {}
  /\ \A s \in Shelved \ (InPile("factual") \cup InPile("discarded")) :
       LET found == UNION {Matches(f, s) : f \in InPile("factual") \ unlinked}
       IN  /\ s \in DOMAIN linked <=> found # {}
           /\ s \in DOMAIN linked => linked[s] = found

ViewsInv == TypeOK /\ LinkedSoFar /\ SourcesLinked /\ IdeasJoined
=============================================================================
