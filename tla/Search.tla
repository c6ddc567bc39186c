------------------------------- MODULE Search -------------------------------
(***************************************************************************)
(* One search of the pile pipeline: conversations, facts and saved pages   *)
(* by their rows, the to-do list, and notes of the vault by what a local   *)
(* search finds in their files; the notes are looked up again by path, and *)
(* both lists are merged.  Each read awaits the database or the disk, and  *)
(* the owner goes on in between.                                           *)
(***************************************************************************)
EXTENDS Orders, Sequences, SequencesExt

CONSTANTS
  Sessions, Captures,   \* items, two disjoint sets of numbers
  Queries,  \* [limit, pile, provider, account, tag, discarded, kinds]
  Items,    \* what an item can be: [pile, provider, account, tag, discarded, found, fact, entities, path]
  Paths,    \* of notes
  MaxEdits, \* bound on what the owner does meanwhile
  None

Rows == Sessions \cup Captures

VARIABLES
  item, age,  \* the rows; age[x] orders them by updated_at
  list,       \* whether the to-do list has the words
  query, step,
  hits,       \* paths that the local search found, best first
  rows,       \* results by rows
  notes,      \* results by paths
  answer,
  edited      \* rows that changed since the search began
vars == <<item, age, list, query, step, hits, rows, notes, answer, edited>>

-----------------------------------------------------------------------------
\* The filters in the statement, and those on the rows that it returns.
Selected(x) ==
  /\ query.pile # None => item[x].pile = query.pile
  /\ query.provider # None => x \in Sessions /\ item[x].provider = query.provider
  /\ item[x].discarded => query.discarded

Kept(x) ==
  /\ query.tag # None => item[x].tag = query.tag
  /\ query.account # None => item[x].account = query.account

FetchLimit == IF query.tag # None THEN query.limit * 4 ELSE query.limit

Least(a, b) == IF a < b THEN a ELSE b

\* The n latest of a set of rows.
Latest(S, n) ==
  SubSeq(Sorted(S, LAMBDA x, y : age[x] > age[y]), 1, Least(n, Cardinality(S)))

\* Faulty: the limit is applied before the filters.
FetchedAny(S, n) ==
  LET latest == Latest(S, n) IN Picked(latest, {i \in DOMAIN latest : item[latest[i]].found /\ Selected(latest[i])})

\* One statement: the latest rows with the words that pass the filters.
Fetched(S, n) == Latest({x \in S : item[x].found /\ Selected(x)}, n)

\* _result_identity: entities by name, the others by their row.
Result(kind, id) == [kind |-> kind, id |-> id]
Results(kind, s) == [i \in DOMAIN s |-> Result(kind, s[i])]

Init ==
  /\ item \in [Rows -> Items]
  /\ age = [x \in Rows |-> x]
  /\ list \in BOOLEAN
  /\ query = None /\ step = "idle" /\ hits = <<>> /\ rows = <<>> /\ notes = <<>> /\ answer = <<>>
  /\ edited = {}

Begin(q) ==
  /\ step = "idle"
  /\ query' = q /\ step' = "sessions"
  /\ UNCHANGED <<item, age, list, hits, rows, notes, answer, edited>>

Goto(next) == step' = next /\ UNCHANGED <<item, age, list, query, answer, edited>>

ReadSessions ==
  /\ step = "sessions"
  /\ rows' = LET fetched == Fetched(Sessions, FetchLimit)
             IN IF "session" \in query.kinds THEN Results("session", Picked(fetched, {i \in DOMAIN fetched : Kept(fetched[i])})) ELSE <<>>
  /\ Goto("facts") /\ UNCHANGED <<hits, notes>>

\* Facts come in no order; both ends of a fact are results, each entity once.
ReadFacts ==
  /\ step = "facts"
  /\ LET matching == {x \in Sessions : item[x].fact /\ Selected(x)} IN
     \E fetched \in SUBSET matching :
       /\ Cardinality(fetched) = Least(FetchLimit, Cardinality(matching))
       /\ LET entities == UNION {item[x].entities : x \in {y \in fetched : Kept(y)}}
          IN \E order \in SetToSeqs(entities) :
               rows' = IF "entity" \in query.kinds THEN rows \o Results("entity", order) ELSE rows
  /\ Goto("captures") /\ UNCHANGED <<hits, notes>>

\* Saved pages have no account and no tags, and are not filtered by them.
ReadCaptures ==
  /\ step = "captures"
  /\ rows' = LET fetched == Fetched(Captures, query.limit)
             IN IF "source_capture" \in query.kinds THEN rows \o Results("source_capture", fetched) ELSE rows
  /\ Goto("list") /\ UNCHANGED <<hits, notes>>

ReadList ==
  /\ step = "list"
  /\ rows' = IF "todo_list" \in query.kinds /\ query.provider = None /\ query.pile \in {None, "todo"} /\ list
             THEN Append(rows, Result("todo_list", None)) ELSE rows
  /\ Goto("vault") /\ UNCHANGED <<hits, notes>>

\* The local search of the files, or none of it if that fails.
Grep(found) ==
  /\ step = "vault"
  /\ hits' = IF query.kinds \cap {"session", "source_capture"} = {} THEN <<>> ELSE found
  /\ Goto("resolve") /\ UNCHANGED <<rows, notes>>

RowsOf(kind) == IF kind = "session" THEN Sessions ELSE Captures

\* Faulty: what the disk has at a path is a result, filtered or not.
AtAnyPath(p, kind) ==
  LET here == {x \in RowsOf(kind) : item[x].path = p}
  IN IF here = {} \/ kind \notin query.kinds THEN {None} ELSE {Result(kind, x) : x \in here}

\* The result of this kind whose note is at a path, if there is one; one of several.
AtPath(p, kind) ==
  LET here == {x \in RowsOf(kind) : item[x].path = p /\ Selected(x) /\ (x \in Sessions => Kept(x))}
  IN IF here = {} \/ kind \notin query.kinds THEN {None} ELSE {Result(kind, x) : x \in here}

Resolved(kind) ==
  {found \in [DOMAIN hits -> UNION {AtPath(p, kind) : p \in Paths}] :
     \A i \in DOMAIN hits : found[i] \in AtPath(hits[i], kind)}

\* One statement for conversations and one for saved pages.
ResolveSessions ==
  /\ step = "resolve"
  /\ notes' \in Resolved("session")
  /\ Goto("pages") /\ UNCHANGED <<hits, rows>>

\* A path that neither knows any more gives nothing.
ResolveCaptures ==
  /\ step = "pages"
  /\ \E found \in Resolved("source_capture") :
       LET either == [i \in DOMAIN hits |-> IF notes[i] # None THEN notes[i] ELSE found[i]]
       IN notes' = Picked(either, {i \in DOMAIN hits : either[i] # None})
  /\ Goto("merge") /\ UNCHANGED <<hits, rows>>

\* The first of several results of one thing keeps its place.
Distinct(results) ==
  Picked(results, {n \in DOMAIN results : \A m \in 1..(n - 1) : results[m] # results[n]})

Merge ==
  /\ step = "merge"
  /\ LET all == Distinct(notes \o rows) IN answer' = SubSeq(all, 1, Least(query.limit, Len(all)))
  /\ step' = "end"
  /\ UNCHANGED <<item, age, list, query, hits, rows, notes, edited>>

\* The owner, a capture or a sorting change a row meanwhile.
Edit(x, new) ==
  /\ step \notin {"idle", "end"}
  /\ Cardinality(edited \cup {x}) <= MaxEdits
  /\ item' = [item EXCEPT ![x] = new]
  /\ age' = [age EXCEPT ![x] = 1 + Max({age[y] : y \in Rows})]
  /\ edited' = edited \cup {x}
  /\ UNCHANGED <<list, query, step, hits, rows, notes, answer>>

Next ==
  \/ \E q \in Queries : Begin(q)
  \/ ReadSessions
  \/ ReadFacts
  \/ ReadCaptures
  \/ ReadList
  \/ \E found \in UNION {SetToSeqs(S) : S \in SUBSET Paths} : Grep(found)
  \/ ResolveSessions
  \/ ResolveCaptures
  \/ Merge
  \/ \E x \in Rows, new \in Items : x \notin edited /\ Edit(x, new)

Spec == Init /\ [][Next]_vars

-----------------------------------------------------------------------------
\* Types.
TypeOK ==
  /\ item \in [Rows -> Items]
  /\ query \in Queries \cup {None}
  /\ step \in {"idle", "sessions", "facts", "captures", "list", "vault", "resolve", "pages", "merge", "end"}
  /\ edited \subseteq Rows

Kind(x) == IF x \in Sessions THEN "session" ELSE "source_capture"

\* A search that returns less than its limit has left out nothing: each row that had the
\* words and passed the filters all the time is there, unless the filters that are applied
\* after the fetch dropped others. (services/search.py: search, _merge_results)
NothingHidden ==
  step = "end" /\ Len(answer) < query.limit /\ query.account = None /\ query.tag = None =>
    \A x \in Rows \ edited :
      item[x].found /\ Selected(x) /\ Kind(x) \in query.kinds =>
        \E i \in DOMAIN answer : answer[i] = Result(Kind(x), x)

\* What a search returns passes its filters, by whichever way it was found, unless it was
\* changed meanwhile; and nothing is there twice.
FiltersHold ==
  step = "end" =>
    /\ IsInjective(answer) /\ Len(answer) <= query.limit
    /\ \A i \in DOMAIN answer :
         /\ answer[i].kind \in query.kinds
         /\ answer[i].kind \in {"session", "source_capture"} /\ answer[i].id \notin edited =>
              Selected(answer[i].id) /\ (answer[i].kind = "session" => Kept(answer[i].id))

-----------------------------------------------------------------------------
(* Why these hold.                                                         *)

Found == [kind : {"session", "entity", "source_capture", "todo_list"},
          id : Rows \cup {None} \cup UNION {new.entities : new \in Items}]

\* A result passes its filters, unless its row has changed since the search began.
Passes(result) ==
  /\ result \in Found /\ result.kind \in query.kinds
  /\ result.kind \in {"session", "source_capture"} =>
       /\ result.id \in RowsOf(result.kind)
       /\ result.id \notin edited =>
            Selected(result.id) /\ (result.kind = "session" => Kept(result.id))

\* The rows of a kind have been read: either all that match are there or as many as asked for.
ListsAll(kind) ==
  kind \in query.kinds /\ query.account = None /\ query.tag = None =>
    \/ query.limit <= Cardinality(ToSet(rows))
    \/ \A x \in RowsOf(kind) \ edited :
         item[x].found /\ Selected(x) => Result(kind, x) \in ToSet(rows)

Aged == age \in [Rows -> Nat] /\ \A x, y \in Rows : age[x] = age[y] => x = y

RowsPass ==
  /\ rows \in Seq(Found) /\ \A i \in DOMAIN rows : Passes(rows[i])
  /\ step \in {"idle", "sessions"} => rows = <<>>

NotesPass ==
  /\ hits \in Seq(Paths)
  /\ step \notin {"pages", "merge", "end"} => notes = <<>>
  /\ step = "pages" => DOMAIN notes = DOMAIN hits /\ \A i \in DOMAIN hits : notes[i] = None \/ Passes(notes[i])
  /\ step \in {"merge", "end"} => notes \in Seq(Found) /\ \A i \in DOMAIN notes : Passes(notes[i])

AllListed ==
  /\ step \notin {"idle", "sessions"} => ListsAll("session")
  /\ step \notin {"idle", "sessions", "facts", "captures"} => ListsAll("source_capture")

SearchInv ==
  /\ TypeOK /\ Aged /\ RowsPass /\ NotesPass /\ AllListed
  /\ step # "idle" => query \in Queries
  /\ FiltersHold /\ NothingHidden
=============================================================================
