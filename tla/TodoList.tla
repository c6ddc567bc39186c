------------------------------ MODULE TodoList ------------------------------
(***************************************************************************)
(* The to-do list without a language model: requests found in the owner's  *)
(* messages edit the items that the file holds, and what is left is        *)
(* written again.  An item is found by its key, which is its text in small *)
(* letters and digits, or by a part of it.  Whether the file changed       *)
(* meanwhile is the business of Enrichment.                                *)
(***************************************************************************)
EXTENDS Orders, Sequences, SequencesExt

CONSTANTS
  Lists,    \* sequences of items [text, done, deadline] that the file may hold
  Texts,    \* what requests may name: [key, rank], a sequence and the text's place in the
            \* order of texts; the key of "!!!" is empty
  MaxRequests,
  None      \* no deadline

VARIABLES
  items,
  last,     \* the last request, and the items that it found
  requests  \* how many there were
todoVars == <<items, last, requests>>

Key(item) == item.text.key

\* heuristic_todo_result parses the file of the list.
Init ==
  /\ items \in Lists
  /\ last = [kind |-> "none", text |-> None, before |-> items]
  /\ requests = 0

-----------------------------------------------------------------------------
Within(part, whole) ==
  \E n \in 0..(Len(whole) - Len(part)) : SubSeq(whole, n + 1, n + Len(part)) = part

FirstAt(places) == IF places = {} THEN 0 ELSE CHOOSE i \in places : \A j \in places : i <= j

Same(text) == {i \in DOMAIN items : Key(items[i]) = text.key}
Like(text) == {i \in DOMAIN items : Within(text.key, Key(items[i])) \/ Within(Key(items[i]), text.key)}

\* Faulty: the first item that has the name, or a part of it, in its own.
FindFirst(text) ==
  IF text.key = <<>> THEN 0 ELSE FirstAt(Like(text))

\* The item of that key, or else the first one whose key holds it or is part of it; 0 if
\* there is none. An empty key is part of every other.
Find(text) ==
  IF text.key = <<>> THEN 0 ELSE FirstAt(IF Same(text) # {} THEN Same(text) ELSE Like(text))

NewItem(text, done) == [text |-> text, done |-> done, deadline |-> None]

\* An item that is like the new one gets its text.
AddItem(text) ==
  IF Find(text) = 0 THEN Append(items, NewItem(text, FALSE))
  ELSE [items EXCEPT ![Find(text)].done = FALSE, ![Find(text)].text = text]

RemoveItem(text) == IF Find(text) = 0 THEN items ELSE RemoveAt(items, Find(text))

MarkItem(text, done) ==
  IF Find(text) = 0 THEN Append(items, NewItem(text, done)) ELSE [items EXCEPT ![Find(text)].done = done]

Applied(kind, text) ==
  CASE kind = "add" -> AddItem(text)
    [] kind = "remove" -> RemoveItem(text)
    [] kind = "complete" -> MarkItem(text, TRUE)
    [] kind = "reopen" -> MarkItem(text, FALSE)

Request(kind, text) ==
  /\ requests < MaxRequests
  /\ items' = Applied(kind, text)
  /\ last' = [kind |-> kind, text |-> text, before |-> items]
  /\ requests' = requests + 1

-----------------------------------------------------------------------------
Keyed(list) == {i \in DOMAIN list : Key(list[i]) # <<>>}

\* Where each key comes first, and where the key of an item comes last.
Firsts(list) == {i \in DOMAIN list : \A j \in 1..(i - 1) : Key(list[j]) # Key(list[i])}
LastLike(list, i) ==
  CHOOSE j \in DOMAIN list :
    Key(list[j]) = Key(list[i]) /\ \A k \in (j + 1)..Len(list) : Key(list[k]) # Key(list[i])

\* Items without a key go, and of several with one key the last stays, in the first place.
Sanitized(list) ==
  LET keyed == Picked(list, Keyed(list))
      order == InTurn(Firsts(keyed))
  IN [n \in DOMAIN order |-> keyed[LastLike(keyed, order[n])]]

\* Dated items come first, then the others; deadlines are numbers.
ListedBefore(a, b) ==
  \/ a.deadline # None /\ b.deadline = None
  \/ a.deadline # None /\ b.deadline # None /\ a.deadline < b.deadline
  \/ a.deadline = b.deadline /\ a.text.rank < b.text.rank

InListing(S) == Sorted(S, ListedBefore)

\* What the file holds: the active items in order, and those done as they were.
Rendered(list) ==
  LET kept == Sanitized(list)
      active == {item \in ToSet(kept) : ~item.done}
  IN InListing(active) \o Picked(kept, {i \in DOMAIN kept : kept[i].done})

\* The file is written, and read for the next conversation.
Rewrite ==
  /\ items' = Rendered(items)
  /\ last' = [kind |-> "none", text |-> None, before |-> items']
  /\ UNCHANGED requests

Next ==
  \/ \E kind \in {"add", "remove", "complete", "reopen"}, text \in Texts : Request(kind, text)
  \/ Rewrite

Spec == Init /\ [][Next]_todoVars

-----------------------------------------------------------------------------
Distinct(list) == \A i, j \in Keyed(list) : Key(list[i]) = Key(list[j]) => i = j

TypeOK == requests \in 0..MaxRequests /\ items \in Seq([text : Texts, done : BOOLEAN, deadline : Nat \cup {None}])

\* A request that renames an item never makes it one with another: if the file had every
\* item once, all items that were not removed are on the rendered list, each once.
\* (services/todo.py: _find_item looks for the whole key first; sanitize_todo_items)
NoneMerged ==
  Distinct(last.before) => Distinct(items) /\ Len(Rendered(items)) = Cardinality(Keyed(items))

\* What the owner asked for can be read in the file, if that had every item once and none
\* without a key: her new item is active, the item she named is done or open, and no other
\* item was added, changed or lost.  The item that she named is the one of that name; only
\* where there is none, one whose name holds hers or is part of it, which "add" renames.
\* (services/todo.py: heuristic_todo_result)
AskedIsListed ==
  /\ last.kind # "none" /\ last.text.key # <<>>
  /\ Distinct(last.before) /\ Keyed(last.before) = DOMAIN last.before
  => LET shown == ToSet(Rendered(items))
         shownBefore == ToSet(Rendered(last.before)) IN
     /\ Cardinality(shownBefore \ shown) <= 1
     /\ \A item \in shownBefore \ shown :
          /\ Within(Key(item), last.text.key) \/ Within(last.text.key, Key(item))
          /\ Key(item) # last.text.key => \A other \in ToSet(last.before) : Key(other) # last.text.key
     /\ Cardinality(shown \ shownBefore) <= IF last.kind = "remove" THEN 0 ELSE 1
     /\ last.kind = "add" => \E item \in shown : item.text = last.text /\ ~item.done
     /\ last.kind \in {"complete", "reopen"} =>
          \E item \in shown :
            /\ item.done = (last.kind = "complete")
            /\ Within(Key(item), last.text.key) \/ Within(last.text.key, Key(item))

\* Writing the list again changes nothing. (services/todo.py: render_todo_markdown)
RenderedOnce == Rendered(Rendered(items)) = Rendered(items)

\* These hold together.
TodoInv == TypeOK /\ NoneMerged /\ AskedIsListed /\ RenderedOnce
=============================================================================
