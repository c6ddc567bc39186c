------------------------------ MODULE Routing ------------------------------
(***************************************************************************)
(* How a conversation finds its pile: the owner's piles first, then        *)
(* segments of the transcript, then one pile for all of it.  A language    *)
(* model answers each question with anything that its schema admits; the   *)
(* orchestrator takes what it can use of the answer.  Messages are counted *)
(* from 1, where the code counts from 0.                                   *)
(***************************************************************************)
EXTENDS Integers, Sequences

CONSTANTS
  Transcripts,  \* sequences of messages [list, verb, term]: of the user's words, are "to-do"
                \* and words like "add" among them; of anyone's, is one of TODO_TERMS
  Answers,      \* sequences of segments that the model may propose, by their first message
  OwnPiles,     \* the owner's piles
  None

BuiltIn == {"journal", "factual", "ideas", "todo"}
Slugs == BuiltIn \cup {"discarded"} \cup OwnPiles

\* A slice and its pile; the schema admits no empty slice.
Segment == {s \in [pile : Slugs, start : Nat \ {0}, end : Nat] : s.start <= s.end}

ASSUME RoutingAssumption ==
  /\ \A t \in Transcripts : t \in Seq([list : BOOLEAN, verb : BOOLEAN, term : BOOLEAN]) /\ t # <<>>
  /\ \A t \in Transcripts : \A i \in DOMAIN t : t[i].list => t[i].term
  /\ Answers \subseteq Seq(Segment)
  /\ None \notin Slugs

VARIABLES
  talk,      \* the messages
  hints,     \* whether the owner named subjects that are to be discarded
  stage, answer,
  read,      \* how many segments of the answer have been looked at
  cleaned, cursor,
  joined,    \* how many of the cleaned segments are in "merged"
  merged,
  pile       \* where the conversation goes
vars == <<talk, hints, stage, answer, read, cleaned, cursor, joined, merged, pile>>

-----------------------------------------------------------------------------
\* The words may be in different messages of the slice.
Explicit(first, last) ==
  \E i, j \in first..last : i \in DOMAIN talk /\ j \in DOMAIN talk /\ talk[i].list /\ talk[j].verb

Whole == Explicit(1, Len(talk))

\* heuristic_classification counts words of all messages, the assistant's too; it may say
\* "todo" when a list is only mentioned, or something is to be checked off.
Mentioned == \E i \in DOMAIN talk : talk[i].term
Guesses == {"journal", "factual", "ideas"} \cup {p \in {"todo"} : Mentioned}

Init ==
  /\ talk \in Transcripts /\ hints \in BOOLEAN
  /\ stage = "own" /\ answer = <<>> /\ read = 0 /\ cleaned = <<>> /\ cursor = 1
  /\ joined = 0 /\ merged = <<>> /\ pile = None

\* Faulty: "discarded" is trusted without hints.
TrustedAny(choice) == choice \in Slugs /\ (choice = "todo" => Whole)

\* classify_pile: a slug that is not on the list, "discarded" without hints or "todo"
\* without a request is no choice.
Trusted(choice) ==
  /\ choice \in Slugs
  /\ choice = "discarded" => hints
  /\ choice = "todo" => Whole

\* The owner's pile or "discarded" decides; any other choice is left to the next questions.
ChooseOwn(choice) ==
  /\ stage = "own"
  /\ IF OwnPiles # {} /\ Trusted(choice) /\ choice \notin BuiltIn
     THEN stage' = "end" /\ pile' = choice
     ELSE stage' = "split" /\ UNCHANGED pile
  /\ UNCHANGED <<talk, hints, answer, read, cleaned, cursor, joined, merged>>

\* classify_segments; no model, an exception and an empty answer give no segment.
Split(segments) ==
  /\ answer' = segments /\ stage' = "clip"
  /\ UNCHANGED <<talk, hints, read, cleaned, cursor, joined, merged, pile>>

\* Faulty: the start of a segment is taken as proposed.
StartProposed(s) == s.start

\* What is left of a segment after the ones before it; process() offers the built-in piles.
Start(s) == IF s.start < cursor THEN cursor ELSE s.start
End(s) == IF s.end > Len(talk) THEN Len(talk) ELSE s.end

Usable(s) ==
  /\ s.pile \in BuiltIn
  /\ Start(s) <= End(s)
  /\ s.pile = "todo" => Explicit(Start(s), End(s))

Clip ==
  /\ stage = "clip" /\ read < Len(answer)
  /\ LET s == answer[read + 1] IN
     IF Usable(s)
     THEN /\ cleaned' = Append(cleaned, [pile |-> s.pile, start |-> Start(s), end |-> End(s)])
          /\ cursor' = End(s) + 1
     ELSE UNCHANGED <<cleaned, cursor>>
  /\ read' = read + 1
  /\ UNCHANGED <<talk, hints, stage, answer, joined, merged, pile>>

\* The last segment gets the messages after it.
Extend ==
  /\ stage = "clip" /\ read = Len(answer)
  /\ IF cleaned = <<>>
     THEN stage' = "single" /\ UNCHANGED cleaned
     ELSE /\ cleaned' = [cleaned EXCEPT ![Len(cleaned)].end = Len(talk)]
          /\ stage' = "join"
  /\ UNCHANGED <<talk, hints, answer, read, cursor, joined, merged, pile>>

\* Faulty: neighbours are joined whatever their piles.
AdjoinsAny(s) == merged # <<>> /\ merged[Len(merged)].end + 1 = s.start

Adjoins(s) ==
  /\ merged # <<>>
  /\ merged[Len(merged)].pile = s.pile
  /\ merged[Len(merged)].end + 1 = s.start

\* Neighbours of one pile become one.
Join ==
  /\ stage = "join" /\ joined < Len(cleaned)
  /\ LET s == cleaned[joined + 1]
     IN merged' = IF Adjoins(s) THEN [merged EXCEPT ![Len(merged)].end = s.end] ELSE Append(merged, s)
  /\ joined' = joined + 1
  /\ UNCHANGED <<talk, hints, stage, answer, read, cleaned, cursor, pile>>

Length(s) == s.end - s.start + 1

\* _apply_segmented: the first of the longest segments names the pile.
Dominant(n) ==
  /\ \A i \in DOMAIN merged : Length(merged[i]) <= Length(merged[n])
  /\ \A i \in 1..(n - 1) : Length(merged[i]) < Length(merged[n])

Segmented ==
  /\ stage = "join" /\ joined = Len(cleaned)
  /\ IF \E i, j \in DOMAIN merged : merged[i].pile # merged[j].pile
     THEN stage' = "end" /\ \E n \in DOMAIN merged : Dominant(n) /\ pile' = merged[n].pile
     ELSE stage' = "single" /\ UNCHANGED pile
  /\ UNCHANGED <<talk, hints, answer, read, cleaned, cursor, joined, merged>>

\* classify: the model's pile if the guards admit it, and what the words suggest if not,
\* or if there is no model.
Admitted(choice) ==
  /\ choice \in BuiltIn \cup {"discarded"}
  /\ IF choice = "discarded" THEN hints ELSE choice = "todo" <=> Whole

Classify(choice, guess) ==
  /\ stage = "single"
  /\ guess \in Guesses
  /\ IF Admitted(choice)
     THEN stage' = "end" /\ pile' = choice
     ELSE stage' = "guessed" /\ pile' = guess
  /\ UNCHANGED <<talk, hints, answer, read, cleaned, cursor, joined, merged>>

Next ==
  \/ \E choice \in Slugs \cup {None} : ChooseOwn(choice)
  \/ stage = "split" /\ \E segments \in Answers : Split(segments)
  \/ Clip
  \/ Extend
  \/ Join
  \/ Segmented
  \/ \E choice \in Slugs \cup {None}, guess \in BuiltIn : Classify(choice, guess)

Spec == Init /\ [][Next]_vars

-----------------------------------------------------------------------------
\* Types, and how far the two loops are.
TypeOK ==
  /\ talk \in Transcripts /\ hints \in BOOLEAN
  /\ stage \in {"own", "split", "clip", "join", "single", "end", "guessed"}
  /\ answer \in Seq(Segment) /\ cleaned \in Seq(Segment) /\ merged \in Seq(Segment)
  /\ read \in 0..Len(answer) /\ cursor \in Nat \ {0} /\ joined \in 0..Len(cleaned)
  /\ pile \in Slugs \cup {None}

\* Slices in their order, none with a message of another, and each one in a pile that it
\* may be in.
Sound(segments) ==
  /\ \A i \in DOMAIN segments :
       LET s == segments[i] IN
       /\ s.start \in 1..s.end /\ s.end \in 1..Len(talk)
       /\ s.pile \in BuiltIn
       /\ s.pile = "todo" => Explicit(s.start, s.end)
  /\ \A i, j \in DOMAIN segments : i < j => segments[i].end < segments[j].start

\* Whatever the model proposes, no message is in two segments or out of the transcript,
\* none is discarded, and no slice edits the to-do list in which nobody asks for it, also
\* after clipping, extension and joining.
\* (services/orchestrator.py: classify_segments)
SegmentsSound == Sound(cleaned) /\ Sound(merged)

PilesOf(segments, i) ==
  {segments[n].pile : n \in {m \in DOMAIN segments : i \in segments[m].start..segments[m].end}}

\* Joining moves no message to another pile and drops none.
\* (services/orchestrator.py: "Collapse consecutive segments that pick the same pile.")
JoinKeeps ==
  joined = Len(cleaned) /\ merged # <<>> =>
    \A i \in DOMAIN talk : PilesOf(merged, i) = PilesOf(cleaned, i)

\* A conversation is discarded only if the owner named what to discard.  It goes to the
\* to-do list on a model's word only if she asks for an edit of it; where no answer is of
\* use, counting words may send it there unasked, if only the assistant speaks of a list.
\* (services/orchestrator.py: the guards of the three classifiers; heuristics.py:134)
RoutesAsked ==
  /\ pile = "discarded" => hints
  /\ pile = "todo" => \/ Whole
                      \/ stage = "guessed" /\ Mentioned

\* All three: whatever the model answers, segments stay sound and keep their messages, and
\* its word alone discards nothing and edits no to-do list. (services/orchestrator.py)
RoutesHold == SegmentsSound /\ JoinKeeps /\ RoutesAsked
=============================================================================
