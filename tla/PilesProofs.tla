----------------------------- MODULE PilesProofs ------------------------------
(***************************************************************************)
(* Routing, restructuring of piles and the pile pipeline, for transcripts  *)
(* and answers of any length, any conversations, piles, runs and requests, *)
(* and any bounds.                                                         *)
(***************************************************************************)
EXTENDS MCPiles, FiniteSetTheorems, SequenceTheorems, TLAPS

------------------------------------------------------------------------------
(* Routing: whatever the model answers, segments stay in order and apart,     *)
(* joining them moves no message, and its word alone discards no conversation *)
(* and sends none to the to-do list.                                          *)

\* Before the answer is read there are no segments.
NoneYet == stage \in {"own", "split"} => cleaned = <<>> /\ cursor = 1 /\ joined = 0 /\ read = 0

\* The loop over the answer takes only messages that no segment has.
Ahead ==
  stage = "clip" => joined = 0 /\ \A i \in DOMAIN cleaned : cleaned[i].end < cursor

\* The last joined segment ends where the last segment looked at does.
Follows ==
  IF joined = 0 THEN merged = <<>>
  ELSE merged # <<>> /\ merged[Len(merged)].end = cleaned[joined].end

SamePiles ==
  /\ \A m \in DOMAIN merged : \A i \in merged[m].start..merged[m].end :
       \E n \in 1..joined : i \in cleaned[n].start..cleaned[n].end /\ cleaned[n].pile = merged[m].pile
  /\ \A n \in 1..joined : \A i \in cleaned[n].start..cleaned[n].end :
       \E m \in DOMAIN merged : i \in merged[m].start..merged[m].end /\ merged[m].pile = cleaned[n].pile

RoutingInv ==
  /\ TypeOK
  /\ NoneYet
  /\ Ahead
  /\ stage = "join" => cleaned # <<>>
  /\ SegmentsSound
  /\ Follows
  /\ SamePiles
  /\ RoutesAsked

-----------------------------------------------------------------------------
(* What appending to a sound sequence, and stretching its last segment, does *)

\* A segment after all others keeps a sequence sound.
LEMMA SoundAppend ==
  ASSUME NEW segments \in Seq(Segment), Sound(segments), NEW s \in Segment,
         s.end <= Len(talk), Len(talk) \in Nat, s.pile \in BuiltIn,
         s.pile = "todo" => Explicit(s.start, s.end),
         \A i \in DOMAIN segments : segments[i].end < s.start
  PROVE  Sound(Append(segments, s))
<1> DEFINE longer == Append(segments, s)
<1>1. DOMAIN longer = 1..(Len(segments) + 1) /\ DOMAIN segments = 1..Len(segments) /\ Len(segments) \in Nat
  OBVIOUS
<1>2. \A i \in DOMAIN segments : longer[i] = segments[i] /\ segments[i] \in Segment
  OBVIOUS
<1>3. longer[Len(segments) + 1] = s
  OBVIOUS
<1>4. s.start \in Nat \ {0} /\ s.end \in Nat /\ s.start <= s.end
  BY DEF Segment
<1> HIDE DEF longer
<1>5. ASSUME NEW i \in DOMAIN longer
      PROVE  /\ longer[i].start \in 1..longer[i].end /\ longer[i].end \in 1..Len(talk)
             /\ longer[i].pile \in BuiltIn
             /\ longer[i].pile = "todo" => Explicit(longer[i].start, longer[i].end)
  <2>1. CASE i \in DOMAIN segments
    BY <1>2, <2>1 DEF Sound
  <2>2. CASE i = Len(segments) + 1
    BY <1>3, <1>4, <2>2
  <2> QED BY <1>1, <2>1, <2>2
<1>6. ASSUME NEW i \in DOMAIN longer, NEW j \in DOMAIN longer, i < j
      PROVE  longer[i].end < longer[j].start
  <2>1. i \in DOMAIN segments
    BY <1>1, <1>6
  <2>2. CASE j \in DOMAIN segments
    BY <1>2, <1>6, <2>1, <2>2 DEF Sound
  <2>3. CASE j = Len(segments) + 1
    BY <1>2, <1>3, <2>1, <2>3
  <2> QED BY <1>1, <2>2, <2>3
<1> QED BY <1>5, <1>6 DEF Sound, longer

\* The last segment may be stretched to any later message.
LEMMA SoundStretch ==
  ASSUME NEW segments \in Seq(Segment), Sound(segments), segments # <<>>, Len(talk) \in Nat,
         NEW e \in Nat, segments[Len(segments)].end <= e, e <= Len(talk)
  PROVE  /\ Sound([segments EXCEPT ![Len(segments)].end = e])
         /\ [segments EXCEPT ![Len(segments)].end = e] \in Seq(Segment)
<1> DEFINE stretched == [segments EXCEPT ![Len(segments)].end = e]
           n == Len(segments)
<1>1. n \in DOMAIN segments /\ DOMAIN segments = 1..n /\ n \in Nat /\ DOMAIN stretched = 1..n
  OBVIOUS
<1>2. \A i \in DOMAIN segments : segments[i] \in Segment
  OBVIOUS
<1>3. \A i \in 1..n : i # n => stretched[i] = segments[i]
  BY <1>1
<1>4. /\ stretched[n].pile = segments[n].pile
      /\ stretched[n].start = segments[n].start
      /\ stretched[n].end = e
  BY <1>1, <1>2 DEF Segment
<1>5. /\ segments[n].start \in Nat \ {0} /\ segments[n].end \in Nat /\ segments[n].pile \in Slugs
      /\ segments[n].start <= segments[n].end /\ segments[n].end <= e
  BY <1>1, <1>2 DEF Segment
<1>6. stretched \in Seq(Segment)
  <2>1. [segments[n] EXCEPT !.end = e] \in Segment
    <3>1. segments[n] \in [pile : Slugs, start : Nat \ {0}, end : Nat]
      BY <1>1, <1>2 DEF Segment
    <3>2. [segments[n] EXCEPT !.end = e]
             = [pile |-> segments[n].pile, start |-> segments[n].start, end |-> e]
      BY <3>1
    <3> QED BY <1>5, <3>2 DEF Segment
  <2>2. stretched = [segments EXCEPT ![n] = [segments[n] EXCEPT !.end = e]]
    BY <1>1
  <2> QED BY <1>1, <2>1, <2>2
<1>7. Explicit(segments[n].start, segments[n].end) => Explicit(segments[n].start, e)
  BY <1>5 DEF Explicit
<1> HIDE DEF stretched, n
<1>8. ASSUME NEW i \in 1..n
      PROVE  /\ stretched[i].start \in 1..stretched[i].end /\ stretched[i].end \in 1..Len(talk)
             /\ stretched[i].pile \in BuiltIn
             /\ stretched[i].pile = "todo" => Explicit(stretched[i].start, stretched[i].end)
  <2>1. CASE i = n
    BY <1>1, <1>4, <1>5, <1>7, <2>1 DEF Sound
  <2>2. CASE i # n
    BY <1>1, <1>3, <2>2 DEF Sound
  <2> QED BY <2>1, <2>2
<1>9. ASSUME NEW i \in 1..n, NEW j \in 1..n, i < j
      PROVE  stretched[i].end < stretched[j].start
  <2>1. i # n
    BY <1>1, <1>9
  <2>2. stretched[j].start = segments[j].start
    BY <1>3, <1>4
  <2> QED BY <1>1, <1>3, <1>9, <2>1, <2>2 DEF Sound
<1> QED BY <1>1, <1>6, <1>8, <1>9 DEF Sound, stretched, n

-----------------------------------------------------------------------------
(* One lemma per action *)

LEMMA RoutingStart == ASSUME Init PROVE RoutingInv
<1> USE DEF Init
<1>1. TypeOK
  BY RoutingAssumption DEF TypeOK
<1>2. NoneYet /\ Ahead /\ Follows /\ (stage = "join" => cleaned # <<>>)
  BY DEF NoneYet, Ahead, Follows
<1>3. SegmentsSound /\ SamePiles
  BY DEF SegmentsSound, Sound, SamePiles
<1>4. RoutesAsked
  BY RoutingAssumption DEF RoutesAsked, Slugs, BuiltIn
<1> QED BY <1>1, <1>2, <1>3, <1>4 DEF RoutingInv

\* Steps that leave the segments alone keep what is said of them.
LEMMA SegmentsUnchanged ==
  ASSUME SegmentsSound, Follows, SamePiles, UNCHANGED <<talk, cleaned, joined, merged>>
  PROVE  SegmentsSound' /\ Follows' /\ SamePiles'
<1>1. SegmentsSound'
  BY DEF SegmentsSound, Sound, Explicit
<1>2. Follows' /\ SamePiles'
  BY DEF Follows, SamePiles
<1> QED BY <1>1, <1>2

\* Where nothing was guessed, steps that leave the pile alone keep what is said of it.
LEMMA RoutesKept ==
  ASSUME RoutesAsked, UNCHANGED <<talk, hints, pile>>, stage # "guessed" \/ UNCHANGED stage
  PROVE  RoutesAsked'
<1>1. Whole' = Whole /\ Mentioned' = Mentioned
  BY DEF Whole, Explicit, Mentioned
<1> QED BY <1>1 DEF RoutesAsked

LEMMA ChooseOwnInv ==
  ASSUME RoutingInv, NEW choice \in Slugs \cup {None}, ChooseOwn(choice)
  PROVE  RoutingInv'
<1> USE DEF RoutingInv, ChooseOwn
<1>1. TypeOK'
  BY DEF TypeOK, Trusted
<1>2. NoneYet' /\ Ahead' /\ (stage' = "join" => cleaned' # <<>>)
  BY DEF NoneYet, Ahead
<1>3. RoutesAsked'
  <2>1. Whole' = Whole
    BY DEF Whole, Explicit
  <2>2. CASE pile' = choice
    BY <2>1, <2>2 DEF RoutesAsked, Trusted, BuiltIn
  <2>3. CASE UNCHANGED pile
    BY <2>3, RoutesKept
  <2> QED BY <2>2, <2>3
<1> QED BY <1>1, <1>2, <1>3, SegmentsUnchanged

LEMMA SplitInv ==
  ASSUME RoutingInv, stage = "split", NEW segments \in Answers, Split(segments)
  PROVE  RoutingInv'
<1> USE DEF RoutingInv, Split
<1>1. TypeOK'
  <2>1. answer' \in Seq(Segment) /\ read' = 0
    BY RoutingAssumption DEF NoneYet
  <2> QED BY <2>1 DEF TypeOK
<1>2. NoneYet' /\ Ahead' /\ (stage' = "join" => cleaned' # <<>>)
  BY DEF NoneYet, Ahead
<1>3. RoutesAsked'
  BY RoutesKept
<1> QED BY <1>1, <1>2, <1>3, SegmentsUnchanged

LEMMA ClipInv == ASSUME RoutingInv, Clip PROVE RoutingInv'
<1> DEFINE s == answer[read + 1]
           clipped == [pile |-> s.pile, start |-> Start(s), end |-> End(s)]
<1>1. /\ s \in Segment
      /\ s.pile \in Slugs /\ s.start \in Nat \ {0} /\ s.end \in Nat
  BY DEF RoutingInv, TypeOK, Clip, Segment
<1>2. Len(talk) \in Nat
  BY RoutingAssumption DEF RoutingInv, TypeOK
<1>3. /\ Start(s) \in Nat \ {0} /\ End(s) \in Nat
      /\ cursor \in Nat /\ Start(s) >= cursor /\ End(s) <= Len(talk)
  BY <1>1, <1>2 DEF Start, End, RoutingInv, TypeOK
<1>4. read' \in 0..Len(answer)
  BY DEF RoutingInv, TypeOK, Clip
<1>5. UNCHANGED <<talk, hints, stage, answer, joined, merged, pile>> /\ stage = "clip" /\ joined = 0
  BY DEF Clip, RoutingInv, Ahead
<1> HIDE DEF s
<1>6. CASE Usable(s)
  <2>1. cleaned' = Append(cleaned, clipped) /\ cursor' = End(s) + 1
    BY <1>6 DEF Clip, s
  <2>2. clipped \in Segment
    BY <1>1, <1>3, <1>6 DEF Segment, Usable
  <2>3. cleaned \in Seq(Segment) /\ Sound(cleaned) /\ (\A i \in DOMAIN cleaned : cleaned[i].end < cursor)
    BY <1>5 DEF RoutingInv, TypeOK, SegmentsSound, Ahead
  <2>4. \A i \in DOMAIN cleaned : cleaned[i] \in Segment /\ cleaned[i].end \in Nat
    BY <2>3 DEF Segment
  <2>5. \A i \in DOMAIN cleaned : cleaned[i].end < clipped.start
    BY <1>3, <2>3, <2>4
  <2>6. Sound(Append(cleaned, clipped))
    <3> HIDE DEF clipped
    <3>1. clipped.pile \in BuiltIn /\ (clipped.pile = "todo" => Explicit(clipped.start, clipped.end))
      BY <1>6 DEF Usable, clipped
    <3>2. clipped.end <= Len(talk)
      BY <1>3 DEF clipped
    <3> QED BY <1>2, <2>2, <2>3, <2>5, <3>1, <3>2, SoundAppend
  <2>7. TypeOK'
    <3>1. cleaned' \in Seq(Segment) /\ cursor' \in Nat \ {0} /\ joined' \in 0..Len(cleaned')
      BY <1>3, <1>5, <2>1, <2>2, <2>3
    <3> QED BY <1>4, <1>5, <3>1 DEF RoutingInv, TypeOK
  <2>8. Ahead'
    <3> SUFFICES ASSUME NEW i \in DOMAIN cleaned' PROVE cleaned'[i].end < cursor'
      BY <1>5 DEF Ahead
    <3>1. CASE i \in DOMAIN cleaned
      <4>1. cleaned'[i] = cleaned[i]
        BY <2>1, <2>3, <3>1
      <4>2. Start(s) <= End(s)
        BY <1>6 DEF Usable
      <4> QED BY <1>3, <2>1, <2>3, <2>4, <3>1, <4>1, <4>2
    <3>2. CASE i = Len(cleaned) + 1
      <4>1. cleaned'[i] = clipped
        BY <2>1, <2>3, <3>2
      <4> QED BY <1>3, <2>1, <4>1
    <3> QED BY <2>1, <2>3, <3>1, <3>2
  <2>9. SegmentsSound'
    BY <1>5, <2>1, <2>6 DEF RoutingInv, SegmentsSound, Sound, Explicit
  <2>10. Follows' /\ SamePiles'
    BY <1>5 DEF RoutingInv, Follows, SamePiles
  <2> QED BY <1>5, <2>7, <2>8, <2>9, <2>10, RoutesKept DEF RoutingInv, NoneYet
<1>7. CASE ~Usable(s)
  <2>1. UNCHANGED <<cleaned, cursor>>
    BY <1>7 DEF Clip, s
  <2>2. TypeOK' /\ Ahead'
    BY <1>4, <1>5, <2>1 DEF RoutingInv, TypeOK, Ahead
  <2> QED BY <1>5, <2>1, <2>2, SegmentsUnchanged, RoutesKept DEF RoutingInv, NoneYet
<1> QED BY <1>6, <1>7

LEMMA ExtendInv == ASSUME RoutingInv, Extend PROVE RoutingInv'
<1>1. UNCHANGED <<talk, hints, answer, read, cursor, joined, merged, pile>> /\ stage = "clip" /\ joined = 0
  BY DEF Extend, RoutingInv, Ahead
<1>2. CASE cleaned = <<>>
  <2>1. stage' = "single" /\ UNCHANGED cleaned
    BY <1>2 DEF Extend
  <2>2. TypeOK' /\ Ahead' /\ NoneYet' /\ RoutesAsked'
    BY <1>1, <2>1, RoutesKept DEF RoutingInv, TypeOK, Ahead, NoneYet
  <2> QED BY <1>1, <2>1, <2>2, SegmentsUnchanged DEF RoutingInv
<1>3. CASE cleaned # <<>>
  <2>1. stage' = "join" /\ cleaned' = [cleaned EXCEPT ![Len(cleaned)].end = Len(talk)]
    BY <1>3 DEF Extend
  <2>2. Len(talk) \in Nat /\ cleaned \in Seq(Segment) /\ Sound(cleaned)
    BY RoutingAssumption DEF RoutingInv, TypeOK, SegmentsSound
  <2>3. cleaned[Len(cleaned)].end <= Len(talk)
    BY <1>3, <2>2 DEF Sound
  <2>4. Sound(cleaned') /\ cleaned' \in Seq(Segment)
    <3> DEFINE e == Len(talk)
    <3>1. e \in Nat /\ cleaned[Len(cleaned)].end <= e /\ e <= Len(talk)
      BY <2>2, <2>3
    <3>2. cleaned' = [cleaned EXCEPT ![Len(cleaned)].end = e]
      BY <2>1
    <3> HIDE DEF e
    <3>3. /\ Sound([cleaned EXCEPT ![Len(cleaned)].end = e])
          /\ [cleaned EXCEPT ![Len(cleaned)].end = e] \in Seq(Segment)
      BY <1>3, <2>2, <3>1, SoundStretch
    <3> QED BY <3>2, <3>3, Zenon
  <2>5. TypeOK'
    BY <1>1, <2>1, <2>4 DEF RoutingInv, TypeOK
  <2>6. SegmentsSound'
    BY <1>1, <2>4 DEF RoutingInv, SegmentsSound, Sound, Explicit
  <2>7. Follows' /\ SamePiles'
    BY <1>1 DEF RoutingInv, Follows, SamePiles
  <2>8. cleaned' # <<>>
    BY <1>3, <2>1, <2>2
  <2> QED BY <1>1, <2>1, <2>5, <2>6, <2>7, <2>8, RoutesKept DEF RoutingInv, NoneYet, Ahead
<1> QED BY <1>2, <1>3

LEMMA JoinInv == ASSUME RoutingInv, Join PROVE RoutingInv'
<1> DEFINE s == cleaned[joined + 1]
           n == Len(merged)
<1>1. UNCHANGED <<talk, hints, stage, answer, read, cleaned, cursor, pile>> /\ stage = "join" /\ joined' = joined + 1
  BY DEF Join
<1>2. /\ cleaned \in Seq(Segment) /\ merged \in Seq(Segment) /\ Sound(cleaned) /\ Sound(merged)
      /\ joined \in Nat /\ joined + 1 \in DOMAIN cleaned /\ joined + 1 \in 1..Len(cleaned)
      /\ DOMAIN merged = 1..n /\ n \in Nat /\ Len(talk) \in Nat
  BY RoutingAssumption DEF RoutingInv, TypeOK, SegmentsSound, Join
<1>3. /\ s \in Segment /\ s.start \in Nat \ {0} /\ s.end \in Nat /\ s.pile \in BuiltIn
      /\ s.start <= s.end /\ s.end <= Len(talk)
      /\ s.pile = "todo" => Explicit(s.start, s.end)
  BY <1>2 DEF Segment, Sound
<1>4. \A i \in DOMAIN merged : merged[i].start \in Nat /\ merged[i].end \in Nat
  BY <1>2 DEF Segment
<1>5. \A i \in DOMAIN merged : merged[i].end < s.start
  <2> SUFFICES ASSUME NEW i \in DOMAIN merged PROVE merged[i].end < s.start
    OBVIOUS
  <2>1. joined # 0 /\ joined \in DOMAIN cleaned /\ merged[n].end = cleaned[joined].end
    BY <1>2 DEF RoutingInv, Follows
  <2>2. cleaned[joined].end < s.start
    BY <1>2, <2>1 DEF Sound
  <2>3. merged[i].end <= merged[n].end
    <3>1. CASE i = n
      BY <1>2, <1>4, <3>1
    <3>2. CASE i < n
      <4>1. merged[i].end < merged[n].start /\ merged[n].start <= merged[n].end
        BY <1>2, <3>2 DEF Sound
      <4> QED BY <1>2, <1>4, <4>1
    <3> QED BY <1>2, <3>1, <3>2
  <2> QED BY <1>2, <1>3, <1>4, <2>1, <2>2, <2>3, SMTT(30)
<1> HIDE DEF s
<1>6. CASE Adjoins(s)
  <2>1. /\ merged # <<>> /\ n \in DOMAIN merged /\ merged[n].pile = s.pile /\ merged[n].end + 1 = s.start
        /\ merged' = [merged EXCEPT ![n].end = s.end]
    BY <1>2, <1>6 DEF Adjoins, Join, s
  <2>2. Sound(merged') /\ merged' \in Seq(Segment)
    <3>1. merged[n].end <= s.end
      BY <1>3, <1>4, <2>1
    <3>2. /\ Sound([merged EXCEPT ![n].end = s.end])
          /\ [merged EXCEPT ![n].end = s.end] \in Seq(Segment)
      BY <1>2, <1>3, <2>1, <3>1, SoundStretch
    <3> QED BY <2>1, <3>2, Zenon
  <2>3. /\ DOMAIN merged' = 1..n
        /\ \A i \in 1..n : merged'[i].pile = merged[i].pile /\ merged'[i].start = merged[i].start
        /\ \A i \in 1..n : i # n => merged'[i].end = merged[i].end
        /\ merged'[n].end = s.end
    <3>1. \A i \in 1..n : merged[i] \in [pile : Slugs, start : Nat \ {0}, end : Nat]
      BY <1>2 DEF Segment
    <3> QED BY <1>2, <2>1, <3>1
  <2>4. Follows'
    <3>1. merged' # <<>> /\ Len(merged') = n
      BY <1>2, <2>1, <2>2, <2>3
    <3>2. joined' # 0 /\ cleaned'[joined'].end = s.end
      BY <1>1, <1>2 DEF s
    <3> QED BY <2>3, <3>1, <3>2 DEF Follows
  <2>5. ASSUME NEW m \in 1..n, NEW i \in merged'[m].start..merged'[m].end
        PROVE  \E k \in 1..(joined + 1) : i \in cleaned[k].start..cleaned[k].end /\ cleaned[k].pile = merged'[m].pile
    <3>1. CASE i \in merged[m].start..merged[m].end
      <4>1. PICK k \in 1..joined : i \in cleaned[k].start..cleaned[k].end /\ cleaned[k].pile = merged[m].pile
        BY <1>2, <3>1 DEF RoutingInv, SamePiles
      <4>2. k \in 1..(joined + 1)
        BY <1>2
      <4> QED BY <2>3, <4>1, <4>2
    <3>2. CASE i \notin merged[m].start..merged[m].end
      <4>1. m = n /\ i \in s.start..s.end
        BY <1>2, <1>3, <1>4, <2>1, <2>3, <3>2
      <4> QED BY <1>2, <2>1, <2>3, <4>1 DEF s
    <3> QED BY <3>1, <3>2
  <2>6. ASSUME NEW k \in 1..(joined + 1), NEW i \in cleaned[k].start..cleaned[k].end
        PROVE  \E m \in 1..n : i \in merged'[m].start..merged'[m].end /\ merged'[m].pile = cleaned[k].pile
    <3>1. CASE k = joined + 1
      <4>1. i \in merged'[n].start..merged'[n].end
        <5>1. merged[n].start \in 1..merged[n].end
          BY <1>2, <2>1 DEF Sound
        <5>2. merged'[n].start = merged[n].start /\ merged'[n].end = s.end
          BY <2>1, <2>3
        <5> QED BY <1>3, <1>4, <2>1, <3>1, <5>1, <5>2 DEF s
      <4> QED BY <1>2, <2>1, <2>3, <3>1, <4>1 DEF s
    <3>2. CASE k \in 1..joined
      <4>1. PICK m \in 1..n : i \in merged[m].start..merged[m].end /\ merged[m].pile = cleaned[k].pile
        BY <1>2, <3>2 DEF RoutingInv, SamePiles
      <4>2. i \in merged'[m].start..merged'[m].end
        BY <1>2, <1>3, <1>4, <2>1, <2>3, <4>1
      <4> QED BY <2>3, <4>1, <4>2
    <3> QED BY <1>2, <3>1, <3>2
  <2>7. SamePiles'
    BY <1>1, <2>3, <2>5, <2>6 DEF SamePiles
  <2>8. TypeOK'
    BY <1>1, <1>2, <2>2 DEF RoutingInv, TypeOK
  <2>9. SegmentsSound'
    BY <1>1, <2>2 DEF RoutingInv, SegmentsSound, Sound, Explicit
  <2> QED BY <1>1, <2>4, <2>7, <2>8, <2>9, RoutesKept DEF RoutingInv, NoneYet, Ahead
<1>7. CASE ~Adjoins(s)
  <2>1. merged' = Append(merged, s)
    BY <1>7 DEF Join, s
  <2>2. Sound(Append(merged, s))
    BY <1>2, <1>3, <1>5, SoundAppend
  <2>3. /\ DOMAIN merged' = 1..(n + 1) /\ Len(merged') = n + 1 /\ merged' \in Seq(Segment)
        /\ merged'[n + 1] = s
        /\ \A i \in 1..n : merged'[i] = merged[i]
    BY <1>2, <1>3, <2>1
  <2>4. Follows'
    <3>1. merged' # <<>>
      BY <1>2, <2>3
    <3> QED BY <1>1, <1>2, <2>3, <3>1 DEF Follows, s
  <2>5. ASSUME NEW m \in 1..(n + 1), NEW i \in merged'[m].start..merged'[m].end
        PROVE  \E k \in 1..(joined + 1) : i \in cleaned[k].start..cleaned[k].end /\ cleaned[k].pile = merged'[m].pile
    <3>1. CASE m \in 1..n
      <4>1. PICK k \in 1..joined : i \in cleaned[k].start..cleaned[k].end /\ cleaned[k].pile = merged[m].pile
        BY <1>2, <2>3, <3>1 DEF RoutingInv, SamePiles
      <4>2. k \in 1..(joined + 1)
        BY <1>2
      <4> QED BY <2>3, <3>1, <4>1, <4>2
    <3>2. CASE m = n + 1
      <4>1. i \in s.start..s.end /\ merged'[m].pile = s.pile
        BY <2>3, <3>2
      <4>2. joined + 1 \in 1..(joined + 1)
        BY <1>2
      <4> QED BY <4>1, <4>2 DEF s
    <3> QED BY <1>2, <3>1, <3>2
  <2>6. ASSUME NEW k \in 1..(joined + 1), NEW i \in cleaned[k].start..cleaned[k].end
        PROVE  \E m \in 1..(n + 1) : i \in merged'[m].start..merged'[m].end /\ merged'[m].pile = cleaned[k].pile
    <3>1. CASE k = joined + 1
      <4>1. i \in merged'[n + 1].start..merged'[n + 1].end /\ merged'[n + 1].pile = cleaned[k].pile
        BY <2>3, <3>1 DEF s
      <4> QED BY <1>2, <4>1
    <3>2. CASE k \in 1..joined
      <4>1. PICK m \in 1..n : i \in merged[m].start..merged[m].end /\ merged[m].pile = cleaned[k].pile
        BY <1>2, <3>2 DEF RoutingInv, SamePiles
      <4> QED BY <1>2, <2>3, <4>1
    <3> QED BY <1>2, <3>1, <3>2
  <2>7. SamePiles'
    <3>1. DOMAIN merged' = 1..(n + 1) /\ joined' = joined + 1 /\ cleaned' = cleaned
      BY <1>1, <2>3
    <3> HIDE DEF n
    <3> QED BY <2>5, <2>6, <3>1, SMTT(30) DEF SamePiles
  <2>8. TypeOK'
    BY <1>1, <1>2, <2>3 DEF RoutingInv, TypeOK
  <2>9. SegmentsSound'
    BY <1>1, <2>1, <2>2 DEF RoutingInv, SegmentsSound, Sound, Explicit
  <2> QED BY <1>1, <2>4, <2>7, <2>8, <2>9, RoutesKept DEF RoutingInv, NoneYet, Ahead
<1> QED BY <1>6, <1>7

LEMMA SegmentedInv == ASSUME RoutingInv, Segmented PROVE RoutingInv'
<1>1. UNCHANGED <<talk, hints, answer, read, cleaned, cursor, joined, merged>> /\ stage = "join"
  BY DEF Segmented
<1>2. stage' \in {"end", "single"}
  BY DEF Segmented
<1>3. CASE UNCHANGED pile
  <2>1. TypeOK' /\ RoutesAsked'
    BY <1>1, <1>2, <1>3, RoutesKept DEF RoutingInv, TypeOK
  <2> QED BY <1>1, <1>2, <2>1, SegmentsUnchanged DEF RoutingInv, NoneYet, Ahead
<1>4. CASE \E n \in DOMAIN merged : Dominant(n) /\ pile' = merged[n].pile
  <2>1. PICK n \in DOMAIN merged : pile' = merged[n].pile
    BY <1>4
  <2>2. merged[n].pile \in BuiltIn /\ (merged[n].pile = "todo" => Explicit(merged[n].start, merged[n].end))
    BY DEF RoutingInv, SegmentsSound, Sound
  <2>3. RoutesAsked'
    <3>1. merged[n].start \in 1..merged[n].end /\ merged[n].end \in 1..Len(talk) /\ Len(talk) \in Nat
      BY RoutingAssumption DEF RoutingInv, TypeOK, SegmentsSound, Sound
    <3>2. pile' = "todo" => Whole
      BY <2>1, <2>2, <3>1 DEF Whole, Explicit
    <3>3. Whole' = Whole
      BY <1>1 DEF Whole, Explicit
    <3> QED BY <2>1, <2>2, <3>2, <3>3 DEF RoutesAsked, BuiltIn
  <2>4. TypeOK'
    BY <1>1, <1>2, <2>1, <2>2 DEF RoutingInv, TypeOK, Slugs
  <2> QED BY <1>1, <1>2, <2>3, <2>4, SegmentsUnchanged DEF RoutingInv, NoneYet, Ahead
<1> QED BY <1>3, <1>4 DEF Segmented

LEMMA ClassifyInv ==
  ASSUME RoutingInv, NEW choice, NEW guess \in BuiltIn, Classify(choice, guess)
  PROVE  RoutingInv'
<1>1. UNCHANGED <<talk, hints, answer, read, cleaned, cursor, joined, merged>> /\ stage' \in {"end", "guessed"}
  BY DEF Classify
<1>2. RoutesAsked'
  <2>1. CASE Admitted(choice)
    <3>1. pile' = choice
      BY <2>1 DEF Classify
    <3>2. Whole' = Whole
      BY <1>1 DEF Whole, Explicit
    <3> QED BY <1>1, <2>1, <3>1, <3>2 DEF Admitted, RoutesAsked
  <2>2. CASE ~Admitted(choice)
    <3>1. stage' = "guessed" /\ pile' = guess /\ guess \in Guesses
      BY <2>2 DEF Classify
    <3>2. Mentioned' = Mentioned
      BY <1>1 DEF Mentioned
    <3> QED BY <3>1, <3>2 DEF Guesses, RoutesAsked
  <2> QED BY <2>1, <2>2
<1>3. TypeOK'
  <2>1. pile' \in Slugs
    BY DEF Classify, Admitted, Guesses, Slugs, BuiltIn
  <2> QED BY <1>1, <2>1 DEF RoutingInv, TypeOK
<1> QED BY <1>1, <1>2, <1>3, SegmentsUnchanged DEF RoutingInv, NoneYet, Ahead

-----------------------------------------------------------------------------
(* The theorems *)

LEMMA RoutingStep == ASSUME RoutingInv, [Next]_vars PROVE RoutingInv'
<1>1. ASSUME NEW choice \in Slugs \cup {None}, ChooseOwn(choice) PROVE RoutingInv'
  BY <1>1, ChooseOwnInv
<1>2. ASSUME stage = "split", NEW segments \in Answers, Split(segments) PROVE RoutingInv'
  BY <1>2, SplitInv
<1>3. CASE Clip
  BY <1>3, ClipInv
<1>4. CASE Extend
  BY <1>4, ExtendInv
<1>5. CASE Join
  BY <1>5, JoinInv
<1>6. CASE Segmented
  BY <1>6, SegmentedInv
<1>7. ASSUME NEW choice \in Slugs \cup {None}, NEW guess \in BuiltIn, Classify(choice, guess) PROVE RoutingInv'
  BY <1>7, ClassifyInv
<1>8. CASE UNCHANGED vars
  <2> USE <1>8 DEF vars
  <2>1. TypeOK' /\ RoutesAsked'
    BY RoutesKept DEF RoutingInv, TypeOK
  <2> QED BY <2>1, SegmentsUnchanged DEF RoutingInv, NoneYet, Ahead
<1> QED BY <1>1, <1>2, <1>3, <1>4, <1>5, <1>6, <1>7, <1>8 DEF Next

\* When all segments are joined, "the first ones" are all of them.
LEMMA RoutingHolds == ASSUME RoutingInv PROVE RoutesHold
<1>1. ASSUME joined = Len(cleaned), NEW i \in DOMAIN talk PROVE PilesOf(merged, i) = PilesOf(cleaned, i)
  <2>1. DOMAIN cleaned = 1..joined
    BY <1>1 DEF RoutingInv, TypeOK
  <2>2. ASSUME NEW m \in DOMAIN merged, i \in merged[m].start..merged[m].end
        PROVE  merged[m].pile \in PilesOf(cleaned, i)
    BY <2>1, <2>2 DEF RoutingInv, SamePiles, PilesOf
  <2>3. ASSUME NEW n \in DOMAIN cleaned, i \in cleaned[n].start..cleaned[n].end
        PROVE  cleaned[n].pile \in PilesOf(merged, i)
    BY <2>1, <2>3 DEF RoutingInv, SamePiles, PilesOf
  <2> QED BY <2>2, <2>3 DEF PilesOf
<1>2. JoinKeeps
  BY <1>1 DEF JoinKeeps
<1> QED BY <1>2 DEF RoutesHold, RoutingInv

\* A step of any part.
PilesStep ==
  [\/ RoutingNext \/ SortingNext \/ RunsNext
   \/ GraphNext \/ ShelfNext \/ SearchNext \/ ListNext]_<<part, vars, state>>

LEMMA RoutingAlways == PilesSpec => []RoutingInv
<1>1. PilesInit => RoutingInv
  BY RoutingStart DEF PilesInit, NoRouting
<1>2. RoutingInv /\ PilesStep => RoutingInv'
  <2>. SUFFICES ASSUME RoutingInv, PilesStep PROVE RoutingInv'
    OBVIOUS
  <2>1. [Next]_vars
    BY DEF PilesStep, RoutingNext, SortingNext, RunsNext, GraphNext, ShelfNext, SearchNext, ListNext
  <2>2. QED
    BY <2>1, RoutingStep
<1>3. QED
  BY <1>1, <1>2, PTL DEF PilesSpec, PilesStep

\* Whatever the language model answers to each question, a conversation of any length is
\* discarded only with the owner's hints, and goes to the to-do list only if she asks for an
\* edit of it or, no answer being of use, the words counted in it say so; its segments keep
\* their order, share no message and lose none when they are joined.
THEOREM RoutesCorrect == PilesSpec => []RoutesHold
<1>1. RoutingInv => RoutesHold
  BY RoutingHolds
<1>2. QED
  BY <1>1, RoutingAlways, PTL

------------------------------------------------------------------------------
(* Restructuring: s1 is the database, s3 the conversations, s4 who holds      *)
(* their rows, s5 the runs, s6 the owner's request, s7 what she has chosen,   *)
(* s8 the reports and s9 the committed rewrites.                              *)

Going(r) == s5[r].state \in {"next", "claimed"}

\* What a run has sorted, it holds, and nobody has locked.
RunHolds(r) ==
  Going(r) =>
    /\ s5[r] = [state |-> s5[r].state, pile |-> s5[r].pile, row |-> s5[r].row,
                queue |-> s5[r].queue, done |-> s5[r].done, skipped |-> s5[r].skipped,
                new |-> s5[r].new, due |-> s5[r].due]
    /\ s5[r].queue \in Seq(Chats)
    /\ \A c \in DOMAIN s5[r].new : c \in Chats /\ s4[c] = r /\ ~s3[c].locked
    /\ s5[r].state = "claimed" =>
         s5[r].queue # <<>> /\ s4[Head(s5[r].queue)] = r /\ ~s3[Head(s5[r].queue)].locked
    /\ s1 = "sqlite" /\ s5[r].skipped = {} => DOMAIN s5[r].new = {}
    /\ DOMAIN s5[r].new \subseteq s5[r].done
    /\ \A c \in s5[r].done : c \in Chats /\ (c \in DOMAIN s5[r].new \/ r \in s9[c])

\* What a request has committed it will report, unless it fails and reports nothing.
ReportHolds(r) ==
  /\ s8[r].done \subseteq Chats /\ s8[r].skipped \subseteq Chats
  /\ Going(r) => s5[r].skipped \subseteq Chats
  /\ \A c \in s8[r].done : r \in s9[c]
  /\ s5[r].state # "over" =>
       \A c \in Chats : r \in s9[c] => c \in s8[r].done \/ (Going(r) /\ c \in s5[r].done)
  /\ s5[r].state = "over" => \A c \in s8[r].skipped \ s8[r].done : r \notin s9[c]

ChatHolds(c) ==
  /\ s3[c] = [pile |-> s3[c].pile, locked |-> s3[c].locked, stamp |-> s3[c].stamp]
  /\ s7[c] # None => s3[c].pile = s7[c] /\ s3[c].locked

RunsInv ==
  /\ DOMAIN s3 = Chats /\ DOMAIN s4 = Chats /\ DOMAIN s7 = Chats /\ DOMAIN s9 = Chats
  /\ DOMAIN s5 = Runners /\ DOMAIN s8 = Runners
  /\ \A c \in Chats : ChatHolds(c)
  /\ \A r \in Runners : RunHolds(r) /\ ReportHolds(r)
  /\ s6 # None => s6.chat \in Chats /\ s4[s6.chat] = 0

LEMMA RunsStart == Runs!Init => RunsInv
<1>. SUFFICES ASSUME Runs!Init PROVE RunsInv
  OBVIOUS
<1>1. /\ s3 = [c \in Chats |-> [pile |-> "ideas", locked |-> FALSE, stamp |-> 0]]
      /\ s4 = [c \in Chats |-> None] /\ s7 = [c \in Chats |-> None] /\ s6 = None
      /\ s5 = [r \in Runners |-> [state |-> "idle"]] /\ s9 = [c \in Chats |-> {}]
      /\ s8 = [r \in Runners |-> [done |-> {}, skipped |-> {}]]
  BY DEF Runs!Init, Runs!NoRun, Runs!NoReport
<1>2. \A c \in Chats : ChatHolds(c)
  BY <1>1 DEF ChatHolds
<1>3. \A r \in Runners : s5[r].state = "idle" /\ s8[r].done = {} /\ s8[r].skipped = {}
  BY <1>1
<1>4. \A r \in Runners : RunHolds(r) /\ ReportHolds(r)
  BY <1>1, <1>3 DEF RunHolds, ReportHolds, Going
<1>5. QED
  BY <1>1, <1>2, <1>4 DEF RunsInv

\* The instance counts as the library does.
LEMMA SameCount == \A S : Runs!Cardinality(S) = Cardinality(S)
BY DEF Runs!Cardinality, Cardinality

\* A listing is a sequence of conversations.
LEMMA ListingType == \A p : \A l \in Runs!Listings(p) : l \in Seq(Chats)
<1>. SUFFICES ASSUME NEW p, NEW l \in Runs!Listings(p) PROVE l \in Seq(Chats)
  OBVIOUS
<1>1. Runs!Unlocked(p) \subseteq Chats
  BY DEF Runs!Unlocked
<1>2. Cardinality(Runs!Unlocked(p)) \in Nat
  BY <1>1, RunsAssumption, FS_Subset, FS_CardinalityType
<1>3. PICK n \in Nat : l \in [1..n -> Runs!Unlocked(p)]
  BY <1>2, SameCount, RunsAssumption DEF Runs!Listings
<1>4. QED
  BY <1>1, <1>3

\* A run that has just listed its conversations has done nothing.
LEMMA BeginKeeps ==
  ASSUME RunsInv, NEW r \in Runners, NEW p, NEW row_, NEW due, Runs!Begin(r, p, row_, due),
         ~Going(r), s5[r].state # "over", UNCHANGED <<s1, s3, s4, s6, s7, s8, s9>>
  PROVE  RunsInv'
<1>1. PICK l \in Runs!Listings(p) :
        s5' = [s5 EXCEPT ![r] = [state |-> "next", pile |-> p, row |-> row_, queue |-> l,
                                 done |-> {}, skipped |-> {}, new |-> [c \in {} |-> None], due |-> due]]
  BY DEF Runs!Begin
<1>2. PICK own : own = [state |-> "next", pile |-> p, row |-> row_, queue |-> l,
                        done |-> {}, skipped |-> {}, new |-> [c \in {} |-> None], due |-> due]
  OBVIOUS
<1>3. /\ DOMAIN s5' = Runners /\ s5'[r] = own
      /\ \A q \in Runners : q # r => s5'[q] = s5[q]
  BY <1>1, <1>2 DEF RunsInv
<1>4. /\ own.state = "next" /\ own.done = {} /\ own.skipped = {} /\ DOMAIN own.new = {}
      /\ own.queue = l /\ l \in Seq(Chats)
      /\ own = [state |-> own.state, pile |-> own.pile, row |-> own.row, queue |-> own.queue,
                done |-> own.done, skipped |-> own.skipped, new |-> own.new, due |-> own.due]
  BY <1>2, ListingType
<1>5. RunHolds(r)'
  BY <1>3, <1>4 DEF RunHolds, Going
<1>6. ReportHolds(r)'
  BY <1>3, <1>4 DEF RunsInv, ReportHolds, Going
<1>7. \A q \in Runners : q # r => RunHolds(q)' /\ ReportHolds(q)'
  BY <1>3 DEF RunsInv, RunHolds, ReportHolds, Going
<1>8. \A c \in Chats : ChatHolds(c)'
  BY DEF RunsInv, ChatHolds
<1>9. QED
  BY <1>3, <1>5, <1>6, <1>7, <1>8 DEF RunsInv

\* What another holds is not what this one holds.
LEMMA HolderFree ==
  ASSUME RunsInv, NEW r \in Runners \cup {0}, NEW c \in Chats, ~Runs!Waits(r, c)
  PROVE  s4[c] \in {None, r}
BY DEF Runs!Waits

\* A run of which nothing changed still holds what it has sorted.
LEMMA OtherKeeps ==
  ASSUME RunsInv, NEW q \in Runners, s5'[q] = s5[q], s8'[q] = s8[q], UNCHANGED s1,
         \A c \in Chats : s4[c] = q => s4'[c] = q /\ s3'[c].locked = s3[c].locked,
         \A c \in Chats : q \in s9'[c] <=> q \in s9[c]
  PROVE  RunHolds(q)' /\ ReportHolds(q)'
<1>1. RunHolds(q) /\ ReportHolds(q)
  BY DEF RunsInv
<1>2. Going(q)' <=> Going(q)
  BY DEF Going
<1>3. Going(q) /\ s5[q].state = "claimed" => Head(s5[q].queue) \in Chats
  BY <1>1 DEF RunHolds
<1>4. RunHolds(q)'
  BY <1>1, <1>2, <1>3 DEF RunHolds
<1>5. ReportHolds(q)'
  BY <1>1, <1>2 DEF ReportHolds
<1>6. QED
  BY <1>4, <1>5

\* Whom a run has released holds nothing; the others hold what they held.
LEMMA ReleasedType ==
  ASSUME RunsInv, NEW who \in Runners \cup {0}, s4' = Runs!Released(who)
  PROVE  /\ DOMAIN s4' = Chats
         /\ \A c \in Chats : s4[c] # who => s4'[c] = s4[c]
BY DEF RunsInv, Runs!Released

------------------------------------------------------------------------------
\* A claim gets the row that nobody holds, of a conversation that nobody has assigned.
LEMMA ClaimKeeps ==
  ASSUME RunsInv, NEW r \in Runners, Runs!Claim(r)
  PROVE  RunsInv'
<1>1. PICK own : own = s5[r]
  OBVIOUS
<1>2. PICK c : c = Head(own.queue)
  OBVIOUS
<1>3. /\ own.state = "next" /\ own.queue # <<>> /\ own.queue \in Seq(Chats)
      /\ own = [state |-> own.state, pile |-> own.pile, row |-> own.row, queue |-> own.queue,
                done |-> own.done, skipped |-> own.skipped, new |-> own.new, due |-> own.due]
      /\ RunHolds(r) /\ ReportHolds(r) /\ Going(r)
  BY <1>1 DEF Runs!Claim, RunsInv, RunHolds, Going
<1>4. c \in Chats /\ Tail(own.queue) \in Seq(Chats)
  BY <1>2, <1>3
<1>5. ~Runs!Waits(r, c) /\ UNCHANGED <<s1, s3, s6, s7, s8, s9>>
  BY <1>1, <1>2 DEF Runs!Claim
<1>6. s4[c] \in {None, r}
  BY <1>4, <1>5, HolderFree
<1>7. \A d \in Chats : ChatHolds(d)'
  BY <1>5 DEF RunsInv, ChatHolds
<1>8. CASE Runs!Claimable(c)
  <2>1. s4' = [s4 EXCEPT ![c] = r] /\ s5' = [s5 EXCEPT ![r].state = "claimed"]
    BY <1>1, <1>2, <1>8 DEF Runs!Claim
  <2>2. PICK new : new = [own EXCEPT !.state = "claimed"]
    OBVIOUS
  <2>3. DOMAIN s5' = Runners /\ s5'[r] = new /\ \A q \in Runners : q # r => s5'[q] = s5[q]
    BY <1>1, <2>1, <2>2 DEF RunsInv
  <2>4. /\ new.state = "claimed" /\ new.queue = own.queue /\ new.done = own.done
        /\ new.skipped = own.skipped /\ new.new = own.new
        /\ new = [state |-> new.state, pile |-> new.pile, row |-> new.row, queue |-> new.queue,
                  done |-> new.done, skipped |-> new.skipped, new |-> new.new, due |-> new.due]
    BY <1>3, <2>2
  <2>5. /\ DOMAIN s4' = Chats /\ s4'[c] = r
        /\ \A d \in Chats : d # c => s4'[d] = s4[d]
    BY <1>4, <2>1 DEF RunsInv
  <2>6. \A d \in Chats : s4[d] = r => s4'[d] = r
    BY <2>5
  <2>7. ~s3[c].locked
    BY <1>8 DEF Runs!Claimable
  <2>8. RunHolds(r)'
    BY <1>1, <1>2, <1>3, <1>4, <1>5, <2>3, <2>4, <2>5, <2>6, <2>7 DEF RunHolds, Going
  <2>9. ReportHolds(r)'
    BY <1>1, <1>3, <1>5, <2>3, <2>4 DEF ReportHolds, Going
  <2>10. ASSUME NEW q \in Runners, q # r PROVE RunHolds(q)' /\ ReportHolds(q)'
    <3>1. None # q
      BY RunsAssumption
    <3>2. \A d \in Chats : s4[d] = q => s4'[d] = q
      BY <1>6, <2>5, <2>10, <3>1
    <3>3. QED
      BY <1>5, <2>3, <2>10, <3>2, OtherKeeps
  <2>11. s6 # None => s6.chat \in Chats /\ s4'[s6.chat] = 0
    BY <1>6, <2>5, RunsAssumption DEF RunsInv
  <2>12. QED
    BY <1>5, <1>7, <2>3, <2>5, <2>8, <2>9, <2>10, <2>11 DEF RunsInv
<1>9. CASE ~Runs!Claimable(c)
  <2>1. /\ s5' = [s5 EXCEPT ![r].queue = Tail(@), ![r].skipped = @ \cup {c},
                            ![r].new = Runs!Kept(r)]
        /\ UNCHANGED s4
    BY <1>1, <1>2, <1>9 DEF Runs!Claim
  <2>2. PICK new : new = [own EXCEPT !.queue = Tail(@), !.skipped = @ \cup {c}, !.new = own.new]
    OBVIOUS
  <2>3. DOMAIN s5' = Runners /\ s5'[r] = new /\ \A q \in Runners : q # r => s5'[q] = s5[q]
    BY <1>1, <2>1, <2>2 DEF RunsInv, Runs!Kept
  <2>4. /\ new.state = "next" /\ new.queue = Tail(own.queue) /\ new.done = own.done
        /\ new.skipped = own.skipped \cup {c} /\ new.new = own.new
        /\ new = [state |-> new.state, pile |-> new.pile, row |-> new.row, queue |-> new.queue,
                  done |-> new.done, skipped |-> new.skipped, new |-> new.new, due |-> new.due]
    BY <1>3, <2>2
  <2>5. RunHolds(r)'
    <3>1. /\ \A d \in DOMAIN own.new : d \in Chats /\ s4[d] = r /\ ~s3[d].locked
          /\ DOMAIN own.new \subseteq own.done
          /\ \A d \in own.done : d \in Chats /\ (d \in DOMAIN own.new \/ r \in s9[d])
      BY <1>1, <1>3 DEF RunHolds
    <3>2. new.queue \in Seq(Chats) /\ new.skipped # {} /\ new.state # "claimed"
      BY <1>4, <2>4
    <3>3. s5'[r] = new /\ UNCHANGED <<s1, s3, s4, s9>>
      BY <1>5, <2>1, <2>3
    <3>4. QED
      BY <2>4, <3>1, <3>2, <3>3 DEF RunHolds
  <2>6. ReportHolds(r)'
    BY <1>1, <1>3, <1>4, <1>5, <2>3, <2>4 DEF ReportHolds, Going
  <2>7. \A q \in Runners : q # r => RunHolds(q)' /\ ReportHolds(q)'
    BY <1>5, <2>1, <2>3, OtherKeeps
  <2>8. QED
    BY <1>5, <1>7, <2>1, <2>3, <2>5, <2>6, <2>7 DEF RunsInv
<1>10. QED
  BY <1>8, <1>9

\* A settled conversation is committed at once, or is held until the run commits.
LEMMA SettleKeeps ==
  ASSUME RunsInv, NEW r \in Runners, NEW p, Runs!Settle(r, p)
  PROVE  RunsInv'
<1>1. PICK own : own = s5[r]
  OBVIOUS
<1>2. PICK c : c = Head(own.queue)
  OBVIOUS
<1>3. /\ own.state = "claimed" /\ own.queue # <<>> /\ own.queue \in Seq(Chats)
      /\ own = [state |-> own.state, pile |-> own.pile, row |-> own.row, queue |-> own.queue,
                done |-> own.done, skipped |-> own.skipped, new |-> own.new, due |-> own.due]
      /\ RunHolds(r) /\ ReportHolds(r) /\ Going(r)
  BY <1>1 DEF Runs!Settle, RunsInv, RunHolds, Going
<1>4. c \in Chats /\ Tail(own.queue) \in Seq(Chats) /\ s4[c] = r /\ ~s3[c].locked
  BY <1>1, <1>2, <1>3 DEF RunHolds
<1>5. UNCHANGED <<s1, s6, s7, s8>>
  BY DEF Runs!Settle
<1>6. PICK settled : settled = IF Runs!CommitsAlone(r) THEN own.new
                     ELSE [d \in DOMAIN own.new \cup {c} |-> IF d = c THEN <<p, s10 + 1>> ELSE own.new[d]]
  OBVIOUS
<1>7. PICK new : new = [own EXCEPT !.state = "next", !.queue = Tail(@), !.done = @ \cup {c}, !.new = settled]
  OBVIOUS
<1>8. /\ DOMAIN s5' = Runners /\ s5'[r] = new /\ \A q \in Runners : q # r => s5'[q] = s5[q]
  BY <1>1, <1>2, <1>6, <1>7 DEF RunsInv, Runs!Settle
<1>9. /\ new.state = "next" /\ new.queue = Tail(own.queue) /\ new.done = own.done \cup {c}
      /\ new.skipped = own.skipped /\ new.new = settled
      /\ new = [state |-> new.state, pile |-> new.pile, row |-> new.row, queue |-> new.queue,
                done |-> new.done, skipped |-> new.skipped, new |-> new.new, due |-> new.due]
  BY <1>3, <1>7
<1>10. CASE Runs!CommitsAlone(r)
  <2>1. /\ s3' = [s3 EXCEPT ![c].pile = p, ![c].stamp = s10 + 1]
        /\ s9' = [s9 EXCEPT ![c] = @ \cup {r}] /\ s4' = Runs!Released(r)
    BY <1>1, <1>2, <1>10 DEF Runs!Settle, Runs!Sorted
  <2>2. s1 = "sqlite" /\ own.skipped = {} /\ DOMAIN settled = {} /\ DOMAIN own.new = {}
    BY <1>1, <1>3, <1>6, <1>10 DEF Runs!CommitsAlone, RunHolds
  <2>3. /\ DOMAIN s4' = Chats /\ \A d \in Chats : s4[d] # r => s4'[d] = s4[d]
    BY <2>1, ReleasedType
  <2>4. /\ DOMAIN s9' = Chats /\ s9'[c] = s9[c] \cup {r}
        /\ \A d \in Chats : d # c => s9'[d] = s9[d]
    BY <1>4, <2>1 DEF RunsInv
  <2>5. PICK row_ : row_ = [s3[c] EXCEPT !.pile = p, !.stamp = s10 + 1]
    OBVIOUS
  <2>6. /\ DOMAIN s3' = Chats /\ s3'[c] = row_ /\ \A d \in Chats : d # c => s3'[d] = s3[d]
    BY <1>4, <2>1, <2>5 DEF RunsInv
  <2>7. ChatHolds(c) /\ s7[c] = None
    BY <1>4 DEF RunsInv, ChatHolds
  <2>8. /\ row_ = [pile |-> row_.pile, locked |-> row_.locked, stamp |-> row_.stamp]
        /\ row_.locked = s3[c].locked
    BY <2>5, <2>7 DEF ChatHolds
  <2>9. \A d \in Chats : ChatHolds(d)'
    BY <1>5, <2>6, <2>7, <2>8 DEF RunsInv, ChatHolds
  <2>10. RunHolds(r)'
    BY <1>1, <1>3, <1>4, <1>8, <1>9, <2>2, <2>4 DEF RunHolds, Going
  <2>11. ReportHolds(r)'
    BY <1>1, <1>3, <1>4, <1>5, <1>8, <1>9, <2>4 DEF ReportHolds, Going
  <2>12. ASSUME NEW q \in Runners, q # r PROVE RunHolds(q)' /\ ReportHolds(q)'
    <3>1. \A d \in Chats : s4[d] = q => s4'[d] = q /\ s3'[d].locked = s3[d].locked
      BY <2>3, <2>6, <2>8, <2>12
    <3>2. \A d \in Chats : q \in s9'[d] <=> q \in s9[d]
      BY <2>4, <2>12
    <3>3. QED
      BY <1>5, <1>8, <2>12, <3>1, <3>2, OtherKeeps
  <2>13. s6 # None => s6.chat \in Chats /\ s4'[s6.chat] = 0
    BY <2>3, RunsAssumption DEF RunsInv
  <2>14. QED
    BY <1>5, <1>8, <2>3, <2>4, <2>6, <2>9, <2>10, <2>11, <2>12, <2>13 DEF RunsInv
<1>11. CASE ~Runs!CommitsAlone(r)
  <2>1. UNCHANGED <<s3, s4, s9>>
    BY <1>11 DEF Runs!Settle
  <2>2. DOMAIN settled = DOMAIN own.new \cup {c} /\ ~(s1 = "sqlite" /\ own.skipped = {})
    BY <1>1, <1>6, <1>11 DEF Runs!CommitsAlone
  <2>3. RunHolds(r)'
    BY <1>1, <1>3, <1>4, <1>5, <1>8, <1>9, <2>1, <2>2 DEF RunHolds, Going
  <2>4. ReportHolds(r)'
    BY <1>1, <1>3, <1>4, <1>5, <1>8, <1>9, <2>1 DEF ReportHolds, Going
  <2>5. \A q \in Runners : q # r => RunHolds(q)' /\ ReportHolds(q)'
    BY <1>5, <1>8, <2>1, OtherKeeps
  <2>6. \A d \in Chats : ChatHolds(d)'
    BY <1>5, <2>1 DEF RunsInv, ChatHolds
  <2>7. QED
    BY <1>5, <1>8, <2>1, <2>3, <2>4, <2>5, <2>6 DEF RunsInv
<1>12. QED
  BY <1>10, <1>11

\* What is committed is reported, and a run that is not over stays silent about the rest.
LEMMA CommitKeeps ==
  ASSUME RunsInv, NEW r \in Runners, Runs!Commit(r)
  PROVE  RunsInv'
<1>1. PICK own : own = s5[r]
  OBVIOUS
<1>2. /\ RunHolds(r) /\ ReportHolds(r) /\ Going(r) /\ own.state = "next"
      /\ s4' = Runs!Released(r) /\ UNCHANGED <<s1, s6, s7>>
  BY <1>1 DEF Runs!Commit, RunsInv, Going
<1>3. /\ DOMAIN s4' = Chats /\ \A d \in Chats : s4[d] # r => s4'[d] = s4[d]
  BY <1>2, ReleasedType
<1>4. s3' = [c \in Chats |-> IF c \in DOMAIN own.new
               THEN [s3[c] EXCEPT !.pile = own.new[c][1], !.stamp = own.new[c][2]] ELSE s3[c]]
  BY <1>1 DEF Runs!Commit
<1>5. s9' = [c \in Chats |-> s9[c] \cup (IF c \in DOMAIN own.new THEN {r} ELSE {})]
  BY <1>1 DEF Runs!Commit
<1>6. PICK told : told = [done |-> s8[r].done \cup own.done, skipped |-> s8[r].skipped \cup own.skipped]
  OBVIOUS
<1>7. DOMAIN s8' = Runners /\ s8'[r] = told /\ \A q \in Runners : q # r => s8'[q] = s8[q]
  BY <1>1, <1>6 DEF Runs!Commit, RunsInv
<1>8. told.done = s8[r].done \cup own.done /\ told.skipped = s8[r].skipped \cup own.skipped
  BY <1>6
<1>9. PICK new : s5' = [s5 EXCEPT ![r] = new] /\ new.state \in {"over", "list"}
  <2>1. CASE s5' = [s5 EXCEPT ![r] = [state |-> "over"]]
    <3>1. PICK new : new = [state |-> "over"]
      OBVIOUS
    <3>2. new.state = "over"
      BY <3>1
    <3>3. QED
      BY <2>1, <3>1, <3>2
  <2>2. ASSUME NEW d, s5' = [s5 EXCEPT ![r] = [state |-> "list", pile |-> d[1], row |-> d[2],
                                                due |-> own.due \ {d}]]
        PROVE  \E new : s5' = [s5 EXCEPT ![r] = new] /\ new.state \in {"over", "list"}
    <3>1. PICK new : new = [state |-> "list", pile |-> d[1], row |-> d[2], due |-> own.due \ {d}]
      OBVIOUS
    <3>2. new.state = "list"
      BY <3>1
    <3>3. QED
      BY <2>2, <3>1, <3>2
  <2>3. QED
    BY <1>1, <2>1, <2>2 DEF Runs!Commit
<1>10. DOMAIN s5' = Runners /\ s5'[r] = new /\ \A q \in Runners : q # r => s5'[q] = s5[q]
  BY <1>9 DEF RunsInv
<1>11. \A d \in DOMAIN own.new : d \in Chats /\ s4[d] = r /\ ~s3[d].locked /\ d \in own.done
  BY <1>1, <1>2 DEF RunHolds
<1>12. ASSUME NEW d \in Chats PROVE ChatHolds(d)' /\ s3'[d].locked = s3[d].locked
  <2>1. ChatHolds(d)
    BY DEF RunsInv
  <2>2. CASE d \in DOMAIN own.new
    <3>1. PICK row_ : row_ = [s3[d] EXCEPT !.pile = own.new[d][1], !.stamp = own.new[d][2]]
      OBVIOUS
    <3>2. s3'[d] = row_ /\ s7[d] = None
      BY <1>4, <1>11, <2>1, <2>2, <3>1 DEF ChatHolds
    <3>3. /\ row_ = [pile |-> row_.pile, locked |-> row_.locked, stamp |-> row_.stamp]
          /\ row_.locked = s3[d].locked
      BY <2>1, <3>1 DEF ChatHolds
    <3>4. QED
      BY <1>2, <3>2, <3>3 DEF ChatHolds
  <2>3. CASE d \notin DOMAIN own.new
    BY <1>2, <1>4, <2>1, <2>3 DEF ChatHolds
  <2>4. QED
    BY <2>2, <2>3
<1>13. RunHolds(r)'
  BY <1>9, <1>10 DEF RunHolds, Going
<1>14. \A d \in Chats : r \in s9'[d] <=> r \in s9[d] \/ d \in DOMAIN own.new
  BY <1>5
<1>15. ReportHolds(r)'
  <2>1. ~Going(r)'
    BY <1>9, <1>10 DEF Going
  <2>2. told.done \subseteq Chats /\ told.skipped \subseteq Chats
    BY <1>1, <1>2, <1>8 DEF RunHolds, ReportHolds
  <2>3. \A d \in told.done : r \in s9'[d]
    BY <1>1, <1>2, <1>8, <1>14, <2>2 DEF RunHolds, ReportHolds
  <2>4. \A d \in Chats : r \in s9'[d] => d \in told.done
    BY <1>1, <1>2, <1>8, <1>11, <1>14 DEF ReportHolds, Going
  <2>5. QED
    BY <1>7, <1>10, <2>1, <2>2, <2>3, <2>4 DEF ReportHolds
<1>16. ASSUME NEW q \in Runners, q # r PROVE RunHolds(q)' /\ ReportHolds(q)'
  <2>1. \A d \in Chats : s4[d] = q => s4'[d] = q /\ s3'[d].locked = s3[d].locked
    BY <1>3, <1>12, <1>16
  <2>2. \A d \in Chats : q \in s9'[d] <=> q \in s9[d]
    BY <1>5, <1>16
  <2>3. QED
    BY <1>2, <1>7, <1>10, <1>16, <2>1, <2>2, OtherKeeps
<1>17. s6 # None => s6.chat \in Chats /\ s4'[s6.chat] = 0
  BY <1>3, RunsAssumption DEF RunsInv
<1>18. QED
  BY <1>2, <1>3, <1>4, <1>5, <1>7, <1>10, <1>12, <1>13, <1>15, <1>16, <1>17 DEF RunsInv

\* A run that fails reports nothing.
LEMMA AbortKeeps ==
  ASSUME RunsInv, NEW r \in Runners, Runs!Abort(r)
  PROVE  RunsInv'
<1>1. /\ s4' = Runs!Released(r) /\ s5' = [s5 EXCEPT ![r] = [state |-> "over"]]
      /\ s8' = [s8 EXCEPT ![r] = [done |-> {}, skipped |-> {}]]
      /\ UNCHANGED <<s1, s3, s6, s7, s9>>
  BY DEF Runs!Abort, Runs!NoReport
<1>2. /\ DOMAIN s4' = Chats /\ \A d \in Chats : s4[d] # r => s4'[d] = s4[d]
  BY <1>1, ReleasedType
<1>3. /\ DOMAIN s5' = Runners /\ s5'[r].state = "over" /\ \A q \in Runners : q # r => s5'[q] = s5[q]
  BY <1>1 DEF RunsInv
<1>4. /\ DOMAIN s8' = Runners /\ s8'[r].done = {} /\ s8'[r].skipped = {}
      /\ \A q \in Runners : q # r => s8'[q] = s8[q]
  BY <1>1 DEF RunsInv
<1>5. RunHolds(r)' /\ ReportHolds(r)'
  BY <1>3, <1>4 DEF RunHolds, ReportHolds, Going
<1>6. \A q \in Runners : q # r => RunHolds(q)' /\ ReportHolds(q)'
  BY <1>1, <1>2, <1>3, <1>4, OtherKeeps
<1>7. \A d \in Chats : ChatHolds(d)'
  BY <1>1 DEF RunsInv, ChatHolds
<1>8. s6 # None => s6.chat \in Chats /\ s4'[s6.chat] = 0
  BY <1>2, RunsAssumption DEF RunsInv
<1>9. QED
  BY <1>1, <1>2, <1>3, <1>4, <1>5, <1>6, <1>7, <1>8 DEF RunsInv

\* The owner waits for whoever holds the conversation.
LEMMA OwnerClaimKeeps ==
  ASSUME RunsInv, NEW c \in Chats, NEW recover \in BOOLEAN, Runs!OwnerClaim(c, recover)
  PROVE  RunsInv'
<1>1. /\ s4' = [s4 EXCEPT ![c] = 0] /\ s6' = [chat |-> c, recover |-> recover]
      /\ ~Runs!Waits(0, c) /\ UNCHANGED <<s1, s3, s5, s7, s8, s9>>
  BY DEF Runs!OwnerClaim
<1>2. s4[c] \in {None, 0}
  BY <1>1, HolderFree
<1>3. /\ DOMAIN s4' = Chats /\ s4'[c] = 0 /\ \A d \in Chats : d # c => s4'[d] = s4[d]
  BY <1>1 DEF RunsInv
<1>4. ASSUME NEW q \in Runners PROVE RunHolds(q)' /\ ReportHolds(q)'
  <2>1. q # None /\ q # 0
    BY RunsAssumption
  <2>2. \A d \in Chats : s4[d] = q => s4'[d] = q
    BY <1>2, <1>3, <2>1
  <2>3. QED
    BY <1>1, <2>2, OtherKeeps
<1>5. \A d \in Chats : ChatHolds(d)'
  BY <1>1 DEF RunsInv, ChatHolds
<1>6. QED
  BY <1>1, <1>3, <1>4, <1>5 DEF RunsInv

\* What she assigns, no run holds.
LEMMA OwnerCommitKeeps ==
  ASSUME RunsInv, NEW p, Runs!OwnerCommit(p)
  PROVE  RunsInv'
<1>1. PICK c : c = s6.chat
  OBVIOUS
<1>2. c \in Chats /\ s4[c] = 0 /\ s6' = None /\ s4' = Runs!Released(0)
      /\ UNCHANGED <<s1, s5, s8, s9>>
  BY <1>1 DEF Runs!OwnerCommit, RunsInv
<1>3. PICK row_ : row_ = [s3[c] EXCEPT !.pile = p, !.stamp = s10 + 1]
  OBVIOUS
<1>4. PICK set : set = [row_ EXCEPT !.locked = ~s6.recover]
  OBVIOUS
<1>5. PICK sorted : sorted = Runs!Sorted(c, p, s10 + 1)
  OBVIOUS
<1>6. /\ DOMAIN sorted = Chats /\ sorted[c] = row_ /\ \A d \in Chats : d # c => sorted[d] = s3[d]
  BY <1>2, <1>3, <1>5 DEF Runs!Sorted, RunsInv
<1>7. s3' = [sorted EXCEPT ![c].locked = ~s6.recover]
  BY <1>1, <1>5 DEF Runs!OwnerCommit
<1>8. /\ DOMAIN s3' = Chats /\ s3'[c] = set /\ \A d \in Chats : d # c => s3'[d] = s3[d]
  BY <1>2, <1>4, <1>6, <1>7
<1>9. s7' = [s7 EXCEPT ![c] = IF s6.recover THEN None ELSE p]
  BY <1>1 DEF Runs!OwnerCommit
<1>10. /\ DOMAIN s7' = Chats /\ s7'[c] = (IF s6.recover THEN None ELSE p)
       /\ \A d \in Chats : d # c => s7'[d] = s7[d]
  BY <1>2, <1>9 DEF RunsInv
<1>11. /\ set = [pile |-> set.pile, locked |-> set.locked, stamp |-> set.stamp] /\ set.pile = p
  <2>1. s3[c] = [pile |-> s3[c].pile, locked |-> s3[c].locked, stamp |-> s3[c].stamp]
    BY <1>2 DEF RunsInv, ChatHolds
  <2>2. row_ = [pile |-> p, locked |-> s3[c].locked, stamp |-> s10 + 1]
    BY <1>3, <2>1
  <2>3. set = [pile |-> p, locked |-> ~s6.recover, stamp |-> s10 + 1]
    BY <1>4, <2>2
  <2>4. QED
    BY <2>3
<1>12. set.locked = ~s6.recover
  BY <1>2, <1>3, <1>4 DEF RunsInv, ChatHolds
<1>13. s7'[c] # None => ~s6.recover /\ p = s7'[c]
  BY <1>10
<1>14. s7'[c] # None => set.locked
  BY <1>12, <1>13
<1>15. ChatHolds(c)'
  BY <1>8, <1>11, <1>13, <1>14 DEF ChatHolds
<1>16. \A d \in Chats : d # c => ChatHolds(d)'
  BY <1>8, <1>10 DEF RunsInv, ChatHolds
<1>17. /\ DOMAIN s4' = Chats /\ \A d \in Chats : s4[d] # 0 => s4'[d] = s4[d]
  BY <1>2, ReleasedType
<1>18. ASSUME NEW q \in Runners PROVE RunHolds(q)' /\ ReportHolds(q)'
  <2>1. q # 0
    BY RunsAssumption
  <2>2. \A d \in Chats : s4[d] = q => s4'[d] = q /\ s3'[d].locked = s3[d].locked
    BY <1>2, <1>8, <1>17, <2>1
  <2>3. QED
    BY <1>2, <2>2, OtherKeeps
<1>19. QED
  BY <1>2, <1>8, <1>10, <1>15, <1>16, <1>17, <1>18 DEF RunsInv

\* Every step of a request, or of the owner's.
LEMMA RunsKeep == RunsInv /\ Runs!Next => RunsInv'
<1>. SUFFICES ASSUME RunsInv, Runs!Next PROVE RunsInv'
  OBVIOUS
<1>1. ASSUME NEW r \in Runners,
             \/ \E p \in DOMAIN s2 : Runs!RestructurePile(r, p)
             \/ Runs!RestructureAll(r) \/ Runs!RestructureDue(r)
      PROVE  RunsInv'
  <2>1. s5[r].state = "idle" /\ UNCHANGED <<s1, s3, s4, s6, s7, s8, s9>>
    BY <1>1 DEF Runs!RestructurePile, Runs!RestructureAll, Runs!RestructureDue, Runs!NoRun
  <2>2. \E p, row_, due : Runs!Begin(r, p, row_, due)
    BY <1>1 DEF Runs!RestructurePile, Runs!RestructureAll, Runs!RestructureDue
  <2>3. QED
    BY <2>1, <2>2, BeginKeeps DEF Going
<1>2. ASSUME NEW r \in Runners, Runs!NextDue(r) PROVE RunsInv'
  <2>1. s5[r].state = "list" /\ UNCHANGED <<s1, s3, s4, s6, s7, s8, s9>>
    BY <1>2 DEF Runs!NextDue
  <2>2. Runs!Begin(r, s5[r].pile, s5[r].row, s5[r].due)
    BY <1>2 DEF Runs!NextDue
  <2>3. QED
    BY <2>1, <2>2, BeginKeeps DEF Going
<1>3. ASSUME UNCHANGED <<s1, s3, s4, s5, s6, s7, s8, s9>> PROVE RunsInv'
  BY <1>3 DEF RunsInv, RunHolds, ReportHolds, ChatHolds, Going
<1>4. CASE \/ \E p \in UserPiles, config \in Configs : Runs!CreatePile(p, config)
           \/ \E p \in DOMAIN s2, config \in Configs \cup {None}, active \in BOOLEAN :
                Runs!UpdatePile(p, config, active)
           \/ \E p \in DOMAIN s2 : Runs!DeletePile(p)
  <2>1. UNCHANGED <<s1, s3, s4, s5, s6, s7, s8, s9>>
    BY <1>4 DEF Runs!CreatePile, Runs!UpdatePile, Runs!DeletePile
  <2>2. QED
    BY <1>3, <2>1
<1>5. QED
  BY <1>1, <1>2, <1>4, ClaimKeeps, SettleKeeps, CommitKeeps, AbortKeeps, OwnerClaimKeeps,
     OwnerCommitKeeps DEF Runs!Next

LEMMA RunsAreTrue == RunsInv => Runs!OwnerStands /\ Runs!RunsReportTruly
<1>. SUFFICES ASSUME RunsInv PROVE Runs!OwnerStands /\ Runs!RunsReportTruly
  OBVIOUS
<1>1. Runs!OwnerStands
  BY DEF RunsInv, ChatHolds, Runs!OwnerStands
<1>2. Runs!RunsReportTruly
  BY DEF RunsInv, ReportHolds, Runs!RunsReportTruly
<1>3. QED
  BY <1>1, <1>2

\* A restructuring run leaves a conversation where its owner put it while the run was under
\* way, however many runs there are, and reports what it has committed and nothing else.
\* (services/restructure.py: _reprocess_sessions, with the guarded claim of processing.py)
THEOREM RunsCorrect == PilesSpec => []RunsHold
<1>. DEFINE Inv == part = "runs" => RunsInv
<1>1. PilesInit => Inv
  BY RunsStart DEF PilesInit, NoRouting
<1>2. Inv /\ [\/ RoutingNext \/ SortingNext \/ RunsNext
              \/ GraphNext \/ ShelfNext \/ SearchNext \/ ListNext]_<<part, vars, state>> => Inv'
  <2>. SUFFICES ASSUME Inv,
                       [\/ RoutingNext \/ SortingNext \/ RunsNext
                        \/ GraphNext \/ ShelfNext \/ SearchNext \/ ListNext]_<<part, vars, state>>,
                       part' = "runs"
                PROVE  RunsInv'
    OBVIOUS
  <2>1. CASE RunsNext
    BY <2>1, RunsKeep DEF RunsNext
  <2>2. CASE UNCHANGED <<part, vars, state>>
    BY <2>2 DEF state, RunsInv, RunHolds, ReportHolds, ChatHolds, Going
  <2>3. CASE RoutingNext \/ SortingNext \/ GraphNext \/ ShelfNext \/ SearchNext \/ ListNext
    BY <2>3 DEF RoutingNext, SortingNext, GraphNext, ShelfNext, SearchNext, ListNext
  <2>4. QED
    BY <2>1, <2>2, <2>3
<1>3. Inv => RunsHold
  BY RunsAreTrue DEF RunsHold
<1>4. QED
  BY <1>1, <1>2, <1>3, PTL DEF PilesSpec

------------------------------------------------------------------------------
(* The pile pipeline: s1 is the database, s2 the way of processing, s3 the    *)
(* rows, s4 the to-do list, s5 the owner's copy of it, s6 the batch of the    *)
(* extension and s7 the requests.                                             *)

Shaped(w) ==
  w = [source |-> w.source, pending |-> w.pending, projection |-> w.projection,
       locked |-> w.locked, pile |-> w.pile, derived |-> w.derived]

\* Where no batch can overtake a capture.
Ordered == s1 = "postgres" \/ s2 = "immediate"

\* What a request will commit of a row is the row as it is now but for its sorting; and only
\* an owner's request sorts one that is locked elsewhere than where it is.
MadeOf(r, s) ==
  LET t == s7[r]
      w == t.new[s]
  IN
  /\ Shaped(w)
  /\ w.source = s3[s].source /\ w.projection = s3[s].projection
  /\ Ordered => w.derived = w.source
  /\ t.kind # "owner" =>
       \/ ~s3[s].locked
       \/ IF s1 = "postgres" THEN w.pile = s3[s].pile ELSE w.locked

\* A request for one conversation: what it has claimed, and on postgres whatever a capture
\* has read, it has locked; what it has exported is the row as it is.
OneHolds(r) ==
  LET t == s7[r]
      s == t.session
  IN t.kind # "complete" =>
  /\ s \in Sessions /\ t.pc \in {"captured", "loaded", "answering", "exported"}
  /\ DOMAIN t.new \subseteq {s}
  /\ t.pc = "captured" => t.kind = "capture" /\ t.held = {}
  /\ t.pc \in {"captured", "loaded"} => DOMAIN t.new = {}
  /\ t.pc = "loaded" =>
       /\ t = [pc |-> t.pc, kind |-> t.kind, session |-> t.session, plan |-> t.plan,
               manual |-> t.manual, target |-> t.target, source |-> t.source, marked |-> t.marked,
               held |-> t.held, new |-> t.new]
       /\ t.plan # "claimed"
       /\ t.kind = "owner" => t.plan # "mark"
       /\ t.kind = "capture" => t.plan # "recover"
       /\ t.kind = "capture" /\ s1 = "postgres" /\ t.manual =>
            \/ t.plan = "none"
            \/ t.plan = "discard" /\ s3[s].pile = "discarded"
            \/ t.plan = "reassign" /\ t.target = s3[s].pile
  /\ t.pc = "answering" => t.plan = "claimed" /\ DOMAIN t.new = {s}
  /\ t.pc = "exported" =>
       /\ t.kind = "owner" => t.plan \in {"none", "claimed"}
       /\ t.kind = "capture" \/ t.plan # "none" => t.shows = s3[s].source
  /\ t.pc \in {"answering", "exported"} /\ t.plan = "claimed" => s \in t.held
  /\ t.kind = "capture" /\ t.pc # "captured" /\ s1 = "postgres" => s \in t.held

\* A batch: on postgres its rows are locked, and are as they were fetched.
BatchHolds(r) ==
  LET t == s7[r] IN
  t.kind = "complete" =>
  /\ s2 = "browser"
  /\ t = [pc |-> t.pc, kind |-> t.kind, task |-> t.task, next |-> t.next, session |-> t.session,
          list |-> t.list, revision |-> t.revision, held |-> t.held, new |-> t.new]
  /\ t.pc \in {"item", "itemized", "exported"}
  /\ t.task.batch \in Seq(Sessions) /\ t.next \in Nat \ {0}
  /\ t.pc # "exported" => t.next <= Len(t.task.batch)
  /\ t.pc = "item" /\ t.next = 1 => t.list = t.revision
  /\ s1 = "postgres" =>
       \A i \in 1..Len(t.task.batch) :
         t.task.batch[i] \in t.held /\ s3[t.task.batch[i]].source = t.task.source[t.task.batch[i]]

RequestSound(r) ==
  Sorting!Busy(r) =>
    /\ s7[r].kind \in {"capture", "owner", "complete"}
    /\ s7[r].held \subseteq Sessions /\ DOMAIN s7[r].new \subseteq s7[r].held
    /\ \A s \in DOMAIN s7[r].new : MadeOf(r, s)
    /\ OneHolds(r) /\ BatchHolds(r)

\* Two requests have locked no row together, and on sqlite only one has locked any.
Apart(H, K) == H \cap K = {} /\ (s1 # "postgres" => H = {} \/ K = {})

\* The batch that the extension works on.
TaskHolds ==
  s6 # None =>
    /\ s2 = "browser"
    /\ s6 = [batch |-> s6.batch, source |-> s6.source, pile |-> s6.pile, list |-> s6.list]
    /\ s6.batch \in Seq(Sessions) /\ s6.batch # <<>>

SortInv ==
  /\ s1 \in {"postgres", "sqlite"}
  /\ DOMAIN s3 = Sessions /\ DOMAIN s7 = Requests
  /\ \A s \in Sessions : Shaped(s3[s]) /\ (Ordered /\ ~s3[s].pending => s3[s].derived = s3[s].source)
  /\ TaskHolds
  /\ \A p, q \in Requests :
       p # q /\ Sorting!Busy(p) /\ Sorting!Busy(q) => Apart(s7[p].held, s7[q].held)
  /\ \A r \in Requests : RequestSound(r)

LEMMA SortStart == Sorting!Init => SortInv
<1>. SUFFICES ASSUME Sorting!Init PROVE SortInv
  OBVIOUS
<1>1. /\ s1 \in {"postgres", "sqlite"} /\ s6 = None
      /\ s3 = [s \in Sessions |-> [source |-> 0, pending |-> FALSE, projection |-> FALSE,
                                   locked |-> FALSE, pile |-> None, derived |-> 0]]
      /\ DOMAIN s7 = Requests /\ \A r \in Requests : ~Sorting!Busy(r)
  BY SortingAssumption DEF Sorting!Init, Sorting!Busy
<1>2. \A s \in Sessions : Shaped(s3[s]) /\ s3[s].derived = s3[s].source
  BY <1>1 DEF Shaped
<1>3. QED
  BY <1>1, <1>2 DEF SortInv, TaskHolds, RequestSound

\* A request of which nothing changed, nor any row that it has locked or serves.
LEMMA OthersSound ==
  ASSUME SortInv, NEW q \in Requests, s7'[q] = s7[q], UNCHANGED <<s1, s2>>,
         \A s \in Sessions : Sorting!Busy(q) /\ s \in s7[q].held => s3'[s] = s3[s],
         Sorting!Busy(q) /\ s7[q].kind = "capture" /\ s1 # "postgres" =>
           s3'[s7[q].session].source = s3[s7[q].session].source
  PROVE  RequestSound(q)'
<1>1. Sorting!Busy(q)' <=> Sorting!Busy(q)
  BY DEF Sorting!Busy, Sorting!Idle
<1>. SUFFICES ASSUME Sorting!Busy(q) PROVE RequestSound(q)'
  BY <1>1 DEF RequestSound
<1>2. PICK t : t = s7[q]
  OBVIOUS
<1>3. /\ s7'[q] = t /\ RequestSound(q) /\ t.held \subseteq Sessions /\ DOMAIN t.new \subseteq t.held
      /\ \A s \in t.held : s3'[s] = s3[s]
  BY <1>2 DEF SortInv, RequestSound
<1>4. Ordered' <=> Ordered
  BY DEF Ordered
<1>5. \A s \in DOMAIN t.new : MadeOf(q, s)'
  BY <1>2, <1>3, <1>4 DEF RequestSound, MadeOf
<1>6. OneHolds(q)'
  BY <1>2, <1>3 DEF RequestSound, OneHolds
<1>7. BatchHolds(q)'
  BY <1>2, <1>3 DEF RequestSound, BatchHolds
<1>8. QED
  BY <1>2, <1>3, <1>5, <1>6, <1>7 DEF RequestSound

\* A step of one request that writes no row.
LEMMA RequestKeeps ==
  ASSUME SortInv, NEW r \in Requests, NEW t, s7' = [s7 EXCEPT ![r] = t],
         UNCHANGED <<s1, s2, s3, s6>>, RequestSound(r)',
         \A q \in Requests : q # r /\ Sorting!Busy(q) =>
           t = Sorting!Idle \/ Apart(t.held, s7[q].held)
  PROVE  SortInv'
<1>1. DOMAIN s7' = Requests /\ s7'[r] = t /\ \A q \in Requests : q # r => s7'[q] = s7[q]
  BY DEF SortInv
<1>2. \A q \in Requests : RequestSound(q)'
  BY <1>1, OthersSound
<1>3. ASSUME NEW p \in Requests, NEW q \in Requests, p # q, Sorting!Busy(p)', Sorting!Busy(q)'
      PROVE  Apart(s7'[p].held, s7'[q].held)
  <2>1. CASE p = r
    BY <1>1, <1>3, <2>1 DEF Sorting!Busy, Sorting!Idle
  <2>2. CASE q = r
    BY <1>1, <1>3, <2>2 DEF Sorting!Busy, Sorting!Idle, Apart
  <2>3. CASE p # r /\ q # r
    BY <1>1, <1>3, <2>3 DEF Sorting!Busy, Sorting!Idle, SortInv
  <2>4. QED
    BY <2>1, <2>2, <2>3
<1>4. \A H, K : Apart(H, K)' <=> Apart(H, K)
  BY DEF Apart
<1>5. Ordered' <=> Ordered
  BY DEF Ordered
<1>6. TaskHolds'
  BY DEF SortInv, TaskHolds
<1>7. \A s \in Sessions : Shaped(s3'[s]) /\ (Ordered' /\ ~s3'[s].pending => s3'[s].derived = s3'[s].source)
  BY <1>5 DEF SortInv, Shaped
<1>8. QED
  BY <1>1, <1>2, <1>3, <1>4, <1>6, <1>7 DEF SortInv, Shaped, Apart

\* A request that ends without a commit.
LEMMA RollbackKeeps ==
  ASSUME SortInv, NEW r \in Requests, s7' = [s7 EXCEPT ![r] = Sorting!Idle],
         UNCHANGED <<s1, s2, s3, s6>>
  PROVE  SortInv'
<1>1. s7'[r] = Sorting!Idle
  BY DEF SortInv
<1>2. RequestSound(r)'
  BY <1>1 DEF RequestSound, Sorting!Busy, Sorting!Idle
<1>3. QED
  BY <1>2, RequestKeeps

\* A row that is free is locked by nobody else.
LEMMA FreeRow ==
  ASSUME NEW r \in Requests, NEW s, Sorting!Free(r, s), NEW q \in Requests, q # r, Sorting!Busy(q)
  PROVE  s \notin s7[q].held /\ (s1 # "postgres" => s7[q].held = {})
BY DEF Sorting!Free, Sorting!Holders, Sorting!Writers

LEMMA FreeRows ==
  ASSUME NEW r \in Requests, NEW S, Sorting!ForUpdate(r, S), NEW q \in Requests, q # r, Sorting!Busy(q)
  PROVE  Apart(Sorting!HeldForUpdate(S), s7[q].held)
BY DEF Sorting!ForUpdate, Sorting!Holders, Sorting!HeldForUpdate, Apart

------------------------------------------------------------------------------
\* A capture waits for those that have locked its row, and on sqlite for other captures.
LEMMA CaptureKeeps ==
  ASSUME SortInv, NEW r \in Requests, NEW s \in Sessions, NEW new \in BOOLEAN, NEW discard \in BOOLEAN,
         Sorting!Capture(r, s, new, discard)
  PROVE  /\ SortInv'
         /\ \A c \in Sessions : /\ s3[c].projection => s3'[c].projection
                               /\ s3'[c].pile = s3[c].pile
<1>1. PICK w : w = [s3[s] EXCEPT !.source = IF new THEN @ + 1 ELSE @, !.pending = @ \/ new,
                      !.projection = @ \/ new \/ (discard /\ (s3[s].pending \/ ~Sorting!Discarded(s3[s])))]
  OBVIOUS
<1>2. PICK t : t = [pc |-> "captured", kind |-> "capture", session |-> s, discard |-> discard,
                    held |-> {}, new |-> <<>>]
  OBVIOUS
<1>3. /\ s3' = [s3 EXCEPT ![s].source = IF new THEN @ + 1 ELSE @, ![s].pending = @ \/ new,
                   ![s].projection = @ \/ new \/ (discard /\ (s3[s].pending \/ ~Sorting!Discarded(s3[s])))]
      /\ s7' = [s7 EXCEPT ![r] = t] /\ UNCHANGED <<s1, s2, s6>>
      /\ s7[r] = Sorting!Idle /\ Sorting!Unserved(s) /\ Sorting!Free(r, s)
  BY <1>2 DEF Sorting!Capture
<1>4. DOMAIN s3' = Sessions /\ s3'[s] = w /\ \A c \in Sessions : c # s => s3'[c] = s3[c]
  BY <1>1, <1>3 DEF SortInv
<1>5. DOMAIN s7' = Requests /\ s7'[r] = t /\ \A q \in Requests : q # r => s7'[q] = s7[q]
  BY <1>3 DEF SortInv
<1>6. Shaped(s3[s])
  BY DEF SortInv
<1>7. /\ Shaped(w) /\ w.pile = s3[s].pile /\ w.derived = s3[s].derived
      /\ w.source = (IF new THEN s3[s].source + 1 ELSE s3[s].source)
  BY <1>1, <1>6 DEF Shaped
<1>8. w.pending = (s3[s].pending \/ new)
  BY <1>1, <1>6 DEF Shaped
<1>9. s3[s].projection => w.projection
  BY <1>1, <1>6 DEF Shaped
<1>10. ~w.pending => ~new /\ ~s3[s].pending
  BY <1>8
<1>11. Ordered /\ ~w.pending => w.derived = w.source
  BY <1>7, <1>10 DEF SortInv
<1>12. Ordered' <=> Ordered
  BY <1>3 DEF Ordered
<1>13. \A c \in Sessions : Shaped(s3'[c]) /\ (Ordered' /\ ~s3'[c].pending => s3'[c].derived = s3'[c].source)
  BY <1>4, <1>7, <1>11, <1>12 DEF SortInv
<1>14. /\ t.pc = "captured" /\ t.kind = "capture" /\ t.session = s /\ t.held = {} /\ DOMAIN t.new = {}
  BY <1>2
<1>15. RequestSound(r)'
  BY <1>5, <1>14 DEF RequestSound, OneHolds, BatchHolds
<1>16. ASSUME NEW q \in Requests, q # r, Sorting!Busy(q)
       PROVE  s \notin s7[q].held /\ (s7[q].kind = "capture" /\ s1 # "postgres" => s7[q].session # s)
  <2>1. s \notin s7[q].held
    BY <1>3, <1>16, FreeRow
  <2>2. s1 # "postgres" => s1 = "sqlite"
    BY DEF SortInv
  <2>3. QED
    BY <1>3, <1>16, <2>1, <2>2 DEF Sorting!Unserved, Sorting!Serving
<1>17. ASSUME NEW q \in Requests, q # r PROVE RequestSound(q)'
  <2>1. s7'[q] = s7[q]
    BY <1>5, <1>17
  <2>2. \A c \in Sessions : Sorting!Busy(q) /\ c \in s7[q].held => s3'[c] = s3[c]
    BY <1>4, <1>16, <1>17
  <2>3. ASSUME Sorting!Busy(q), s7[q].kind = "capture", s1 # "postgres"
        PROVE  s3'[s7[q].session].source = s3[s7[q].session].source
    <3>1. s7[q].session \in Sessions
      BY <2>3 DEF SortInv, RequestSound, OneHolds
    <3>2. QED
      BY <1>4, <1>16, <1>17, <2>3, <3>1
  <2>4. QED
    BY <1>3, <2>1, <2>2, <2>3, OthersSound
<1>18. ASSUME NEW p \in Requests, NEW q \in Requests, p # q, Sorting!Busy(p)', Sorting!Busy(q)'
       PROVE  Apart(s7'[p].held, s7'[q].held)
  <2>1. CASE p = r \/ q = r
    BY <1>5, <1>14, <1>18, <2>1 DEF Apart
  <2>2. CASE p # r /\ q # r
    BY <1>5, <1>18, <2>2 DEF Sorting!Busy, Sorting!Idle, SortInv
  <2>3. QED
    BY <2>1, <2>2
<1>19. TaskHolds'
  BY <1>3 DEF SortInv, TaskHolds
<1>20. SortInv'
  BY <1>3, <1>4, <1>5, <1>13, <1>15, <1>17, <1>18, <1>19 DEF SortInv, Shaped, Apart
<1>21. QED
  BY <1>4, <1>7, <1>9, <1>20

\* The second phase reads the row, which postgres locks.
LEMMA LoadKeeps ==
  ASSUME SortInv, NEW r \in Requests, Sorting!Busy(r), Sorting!Load(r)
  PROVE  SortInv'
<1>1. PICK s : s = s7[r].session
  OBVIOUS
<1>2. PICK seen : seen = s3[s]
  OBVIOUS
<1>3. PICK t : t = [pc |-> "loaded", kind |-> "capture", session |-> s,
                    plan |-> Sorting!Plan(seen, s7[r].discard), manual |-> seen.locked, target |-> seen.pile,
                    source |-> seen.source, marked |-> seen.projection,
                    held |-> Sorting!HeldForUpdate({s}), new |-> <<>>]
  OBVIOUS
<1>4. /\ s7' = [s7 EXCEPT ![r] = t] /\ Sorting!ForUpdate(r, {s})
      /\ UNCHANGED <<s1, s2, s3, s6>> /\ s7[r].pc = "captured"
  BY <1>1, <1>2, <1>3 DEF Sorting!Load, Sorting!RequestStep
<1>5. s7'[r] = t /\ s \in Sessions
  BY <1>1, <1>4 DEF SortInv, RequestSound, OneHolds, BatchHolds
<1>6. /\ t.pc = "loaded" /\ t.kind = "capture" /\ t.session = s /\ DOMAIN t.new = {}
      /\ t.held = Sorting!HeldForUpdate({s}) /\ t.target = seen.pile
      /\ t.plan = Sorting!Plan(seen, s7[r].discard)
  BY <1>3
<1>7. t.manual = seen.locked
  BY <1>3
<1>8. t = [pc |-> t.pc, kind |-> t.kind, session |-> t.session, plan |-> t.plan,
           manual |-> t.manual, target |-> t.target, source |-> t.source, marked |-> t.marked,
           held |-> t.held, new |-> t.new]
  BY <1>3
<1>9. /\ t.plan \in {"none", "mark", "discard", "reassign", "process"}
      /\ seen.locked => \/ t.plan = "none"
                        \/ t.plan = "discard" /\ seen.pile = "discarded"
                        \/ t.plan = "reassign"
  BY <1>6 DEF Sorting!Plan, Sorting!ToDiscard, Sorting!Discarded
<1>10. t.held \subseteq Sessions /\ (s1 = "postgres" => s \in t.held)
  BY <1>5, <1>6 DEF Sorting!HeldForUpdate
<1>11. OneHolds(r)'
  BY <1>2, <1>4, <1>5, <1>6, <1>7, <1>8, <1>9, <1>10 DEF OneHolds
<1>12. RequestSound(r)'
  BY <1>5, <1>6, <1>10, <1>11 DEF RequestSound, BatchHolds
<1>13. \A q \in Requests : q # r /\ Sorting!Busy(q) => Apart(t.held, s7[q].held)
  BY <1>4, <1>6, FreeRows
<1>14. QED
  BY <1>4, <1>12, <1>13, RequestKeeps

\* An owner's request reads the row and locks nothing yet.
LEMMA BeginOwnerKeeps ==
  ASSUME SortInv, NEW r \in Requests, NEW s \in Sessions, NEW target,
         NEW plan \in {"reassign", "discard", "recover", "none"}, Sorting!Begin(r, s, plan, target)
  PROVE  SortInv'
<1>1. PICK t : t = [pc |-> "loaded", kind |-> "owner", session |-> s,
                    plan |-> plan, manual |-> plan # "recover", target |-> target,
                    source |-> s3[s].source, marked |-> s3[s].projection, held |-> {}, new |-> <<>>]
  OBVIOUS
<1>2. s7' = [s7 EXCEPT ![r] = t] /\ UNCHANGED <<s1, s2, s3, s6>>
  BY <1>1 DEF Sorting!Begin, Sorting!RequestStep
<1>3. s7'[r] = t
  BY <1>2 DEF SortInv
<1>4. /\ t.pc = "loaded" /\ t.kind = "owner" /\ t.session = s /\ DOMAIN t.new = {}
      /\ t.held = {} /\ t.plan = plan
      /\ t = [pc |-> t.pc, kind |-> t.kind, session |-> t.session, plan |-> t.plan,
              manual |-> t.manual, target |-> t.target, source |-> t.source, marked |-> t.marked,
              held |-> t.held, new |-> t.new]
  BY <1>1
<1>5. RequestSound(r)'
  BY <1>3, <1>4 DEF RequestSound, OneHolds, BatchHolds
<1>6. \A q \in Requests : q # r /\ Sorting!Busy(q) => Apart(t.held, s7[q].held)
  BY <1>4 DEF Apart
<1>7. QED
  BY <1>2, <1>5, <1>6, RequestKeeps

\* A claim locks the row and proves that nobody has assigned it.
LEMMA ClaimRowKeeps ==
  ASSUME SortInv, NEW r \in Requests, Sorting!Busy(r), NEW to, NEW lists, Sorting!Claim(r, to, lists)
  PROVE  SortInv'
<1>1. PICK old : old = s7[r]
  OBVIOUS
<1>2. PICK s : s = old.session
  OBVIOUS
<1>3. PICK w : w = [s3[s] EXCEPT !.pile = to, !.pending = FALSE, !.locked = old.manual,
                                 !.derived = s3[s].source]
  OBVIOUS
<1>4. PICK t : t = [pc |-> "answering", kind |-> old.kind, session |-> s, plan |-> "claimed",
                    source |-> old.source, held |-> {s}, new |-> [d \in {s} |-> w],
                    lists |-> lists, list |-> IF lists THEN s4 ELSE {}]
  OBVIOUS
<1>5. /\ s7' = [s7 EXCEPT ![r] = t] /\ UNCHANGED <<s1, s2, s3, s6>>
      /\ Sorting!Free(r, s) /\ Sorting!Claims(r, s) /\ old.pc = "loaded"
      /\ \/ Sorting!Sorted(r, to, lists) \/ Sorting!RoutedToDiscard(r, to, lists)
         \/ Sorting!Reassigned(r, to, lists)
  BY <1>1, <1>2, <1>3, <1>4 DEF Sorting!Claim, Sorting!RequestStep
<1>6. RequestSound(r) /\ old.kind # "complete" /\ old.kind \in {"capture", "owner", "complete"} /\ OneHolds(r)
  BY <1>1, <1>5 DEF SortInv, RequestSound, BatchHolds
<1>7. s \in Sessions /\ s7'[r] = t /\ Shaped(s3[s])
  BY <1>1, <1>2, <1>5, <1>6 DEF SortInv, OneHolds
<1>8. /\ Shaped(w) /\ w.source = s3[s].source /\ w.derived = s3[s].source /\ w.pile = to
  BY <1>3, <1>7 DEF Shaped
<1>9. w.projection = s3[s].projection
  BY <1>3, <1>7 DEF Shaped
<1>10. w.locked = old.manual
  BY <1>3, <1>7 DEF Shaped
<1>11. /\ t.pc = "answering" /\ t.kind = old.kind /\ t.session = s /\ t.plan = "claimed"
       /\ t.held = {s} /\ DOMAIN t.new = {s} /\ t.new[s] = w
  BY <1>4
<1>12. old.kind # "owner" => ~s3[s].locked \/ (IF s1 = "postgres" THEN w.pile = s3[s].pile ELSE w.locked)
  <2>. SUFFICES ASSUME old.kind = "capture"
                PROVE  ~s3[s].locked \/ (IF s1 = "postgres" THEN w.pile = s3[s].pile ELSE w.locked)
    BY <1>6
  <2>1. CASE ~old.manual
    <3>1. old.plan # "recover"
      BY <1>1, <1>5, <1>6 DEF OneHolds
    <3>2. Sorting!Claimable(s)
      BY <1>1, <1>5, <2>1, <3>1 DEF Sorting!Claims
    <3>3. QED
      BY <3>2 DEF Sorting!Claimable
  <2>2. CASE old.manual /\ s1 = "postgres"
    <3>1. \/ old.plan = "none"
          \/ old.plan = "discard" /\ s3[s].pile = "discarded"
          \/ old.plan = "reassign" /\ old.target = s3[s].pile
      BY <1>1, <1>2, <1>5, <1>6, <2>2 DEF OneHolds
    <3>2. \/ old.plan \in {"process", "recover"}
          \/ old.plan = "discard" /\ to = "discarded"
          \/ old.plan = "reassign" /\ to = old.target
      BY <1>1, <1>5 DEF Sorting!Sorted, Sorting!RoutedToDiscard, Sorting!Reassigned
    <3>3. QED
      BY <1>8, <2>2, <3>1, <3>2
  <2>3. CASE old.manual /\ s1 # "postgres"
    BY <1>10, <2>3
  <2>4. QED
    BY <2>1, <2>2, <2>3
<1>13. MadeOf(r, s)'
  BY <1>5, <1>7, <1>8, <1>9, <1>11, <1>12 DEF MadeOf
<1>14. OneHolds(r)'
  BY <1>6, <1>7, <1>11 DEF OneHolds
<1>15. RequestSound(r)'
  BY <1>6, <1>7, <1>11, <1>13, <1>14 DEF RequestSound, BatchHolds
<1>16. \A q \in Requests : q # r /\ Sorting!Busy(q) => Apart(t.held, s7[q].held)
  BY <1>5, <1>11, FreeRow DEF Apart
<1>17. QED
  BY <1>5, <1>15, <1>16, RequestKeeps

LEMMA LoseClaimKeeps ==
  ASSUME SortInv, NEW r \in Requests, Sorting!Busy(r), Sorting!LoseClaim(r)
  PROVE  SortInv'
<1>1. CASE s7[r].plan # "recover"
  BY <1>1, RollbackKeeps DEF Sorting!LoseClaim, Sorting!Rollback, Sorting!RequestStep
<1>2. CASE s7[r].plan = "recover"
  <2>1. PICK old : old = s7[r]
    OBVIOUS
  <2>2. PICK t : t = [old EXCEPT !.plan = "none", !.source = s3[old.session].source,
                                 !.marked = s3[old.session].projection]
    OBVIOUS
  <2>3. /\ s7' = [s7 EXCEPT ![r] = t] /\ UNCHANGED <<s1, s2, s3, s6>> /\ old.pc = "loaded"
    BY <1>2, <2>1, <2>2 DEF Sorting!LoseClaim, Sorting!RequestStep, SortInv
  <2>4. s7'[r] = t
    BY <2>3 DEF SortInv
  <2>5. RequestSound(r) /\ old.kind # "complete" /\ old.kind \in {"capture", "owner", "complete"} /\ OneHolds(r)
    BY <2>1, <2>3 DEF SortInv, RequestSound, BatchHolds
  <2>6. /\ old.kind = "owner" /\ DOMAIN old.new = {} /\ old.session \in Sessions /\ old.held \subseteq Sessions
        /\ old = [pc |-> old.pc, kind |-> old.kind, session |-> old.session, plan |-> old.plan,
                  manual |-> old.manual, target |-> old.target, source |-> old.source, marked |-> old.marked,
                  held |-> old.held, new |-> old.new]
    BY <1>2, <2>1, <2>3, <2>5 DEF OneHolds, RequestSound
  <2>7. /\ t.pc = "loaded" /\ t.kind = "owner" /\ t.session = old.session /\ t.plan = "none"
        /\ t.held = old.held /\ t.new = old.new
        /\ t = [pc |-> t.pc, kind |-> t.kind, session |-> t.session, plan |-> t.plan,
                manual |-> t.manual, target |-> t.target, source |-> t.source, marked |-> t.marked,
                held |-> t.held, new |-> t.new]
    BY <2>2, <2>3, <2>6
  <2>8. RequestSound(r)'
    BY <2>4, <2>6, <2>7 DEF RequestSound, OneHolds, BatchHolds
  <2>9. \A q \in Requests : q # r /\ Sorting!Busy(q) => Apart(t.held, s7[q].held)
    BY <2>1, <2>7 DEF SortInv
  <2>10. QED
    BY <2>3, <2>8, <2>9, RequestKeeps
<1>3. QED
  BY <1>1, <1>2

\* What a request has exported is the row as it is; if it is not, all is undone.
LEMMA ExportedKeeps ==
  ASSUME SortInv, NEW r \in Requests, Sorting!Busy(r), Sorting!ExportOrRollback(r),
         UNCHANGED <<s1, s2, s3, s6>>,
         \/ s7[r].pc = "answering"
         \/ s7[r].pc = "loaded" /\ s7[r].plan \in {"none", "mark"}
  PROVE  SortInv'
<1>1. CASE Sorting!SourceChanged(r)
  BY <1>1, RollbackKeeps DEF Sorting!ExportOrRollback
<1>2. CASE ~Sorting!SourceChanged(r)
  <2>1. PICK old : old = s7[r]
    OBVIOUS
  <2>2. PICK t : t = [pc |-> "exported", kind |-> old.kind, session |-> old.session, plan |-> old.plan,
                      held |-> old.held, new |-> old.new,
                      clears |-> Sorting!ShouldExport(r) /\ Sorting!Marked(r), shows |-> Sorting!Shown(r)]
    OBVIOUS
  <2>3. s7' = [s7 EXCEPT ![r] = t]
    BY <1>2, <2>1, <2>2 DEF Sorting!ExportOrRollback, Sorting!Exported
  <2>4. s7'[r] = t
    BY <2>3 DEF SortInv
  <2>5. /\ RequestSound(r) /\ OneHolds(r) /\ old.kind \in {"capture", "owner"}
        /\ old.held \subseteq Sessions /\ DOMAIN old.new \subseteq old.held
        /\ \A s \in DOMAIN old.new : MadeOf(r, s)
    BY <2>1 DEF SortInv, RequestSound, BatchHolds
  <2>6. /\ t.pc = "exported" /\ t.kind = old.kind /\ t.session = old.session /\ t.plan = old.plan
        /\ t.held = old.held /\ t.new = old.new /\ t.shows = Sorting!Shown(r)
    BY <2>2
  <2>7. old.kind = "capture" \/ old.plan # "none" => t.shows = s3[old.session].source
    <3>1. CASE old.pc = "answering"
      <4>1. old.session \in DOMAIN old.new
        BY <2>1, <2>5, <3>1 DEF OneHolds
      <4>2. old.new[old.session].source = s3[old.session].source
        BY <2>1, <2>5, <4>1 DEF MadeOf
      <4>3. QED
        BY <2>1, <2>6, <3>1, <4>2 DEF Sorting!Shown
    <3>2. CASE old.pc = "loaded"
      <4>1. old.kind = "owner" => old.plan = "none"
        BY <2>1, <2>5, <3>2 DEF OneHolds
      <4>2. QED
        BY <2>1, <2>5, <2>6, <3>2, <4>1 DEF Sorting!Shown
    <3>3. QED
      BY <2>1, <3>1, <3>2
  <2>8. OneHolds(r)'
    BY <2>1, <2>4, <2>5, <2>6, <2>7 DEF OneHolds
  <2>9. \A s \in DOMAIN t.new : MadeOf(r, s)'
    BY <2>1, <2>4, <2>5, <2>6 DEF MadeOf, Ordered
  <2>10. RequestSound(r)'
    BY <2>4, <2>5, <2>6, <2>8, <2>9 DEF RequestSound, BatchHolds
  <2>11. \A q \in Requests : q # r /\ Sorting!Busy(q) => Apart(t.held, s7[q].held)
    BY <2>1, <2>6 DEF SortInv
  <2>12. QED
    BY <2>3, <2>10, <2>11, RequestKeeps
<1>3. QED
  BY <1>1, <1>2

\* The step is over with the request.
LEMMA RowsWritten ==
  ASSUME SortInv, NEW r \in Requests, Sorting!Busy(r), s7' = [s7 EXCEPT ![r] = Sorting!Idle],
         UNCHANGED <<s1, s2, s6>>, DOMAIN s3' = Sessions,
         \A s \in Sessions : Shaped(s3'[s]) /\ s3'[s].source = s3[s].source,
         \A s \in Sessions : Ordered /\ ~s3'[s].pending => s3'[s].derived = s3'[s].source,
         \A s \in Sessions, q \in Requests :
           q # r /\ Sorting!Busy(q) /\ s \in s7[q].held => s3'[s] = s3[s]
  PROVE  SortInv' /\ ~Sorting!Busy(r)'
<1>1. DOMAIN s7' = Requests /\ s7'[r] = Sorting!Idle /\ \A q \in Requests : q # r => s7'[q] = s7[q]
  BY DEF SortInv
<1>2. ~Sorting!Busy(r)'
  BY <1>1 DEF Sorting!Busy, Sorting!Idle
<1>3. ASSUME NEW q \in Requests, q # r PROVE RequestSound(q)'
  <2>1. Sorting!Busy(q) /\ s7[q].kind = "capture" => s7[q].session \in Sessions
    BY DEF SortInv, RequestSound, OneHolds
  <2>2. QED
    BY <1>1, <1>3, <2>1, OthersSound
<1>4. RequestSound(r)'
  BY <1>2 DEF RequestSound
<1>5. ASSUME NEW p \in Requests, NEW q \in Requests, p # q, Sorting!Busy(p)', Sorting!Busy(q)'
      PROVE  Apart(s7'[p].held, s7'[q].held)
  BY <1>1, <1>2, <1>5 DEF Sorting!Busy, Sorting!Idle, SortInv
<1>6. TaskHolds'
  BY DEF SortInv, TaskHolds
<1>7. Ordered' <=> Ordered
  BY DEF Ordered
<1>8. QED
  BY <1>1, <1>2, <1>3, <1>4, <1>5, <1>6, <1>7 DEF SortInv, Shaped, Apart

\* A commit writes what the request has claimed, and takes the mark for export.
LEMMA CommitRowKeeps ==
  ASSUME SortInv, NEW r \in Requests, Sorting!Busy(r), Sorting!Commit(r)
  PROVE  SortInv' /\ Sorting!ExportsLatest /\ Sorting!KeepsPile
<1>1. PICK old : old = s7[r]
  OBVIOUS
<1>2. PICK s : s = old.session
  OBVIOUS
<1>3. PICK written : written = IF s \in DOMAIN old.new THEN old.new[s] ELSE s3[s]
  OBVIOUS
<1>4. PICK w : w = IF old.clears THEN [written EXCEPT !.projection = FALSE] ELSE written
  OBVIOUS
<1>5. /\ s3' = [s3 EXCEPT ![s] = w] /\ s7' = [s7 EXCEPT ![r] = Sorting!Idle]
      /\ old.clears => Sorting!Free(r, s)
      /\ old.pc = "exported" /\ old.kind # "complete" /\ UNCHANGED <<s1, s2, s6>>
  BY <1>1, <1>2, <1>3, <1>4 DEF Sorting!Commit
<1>6. /\ OneHolds(r) /\ old.kind \in {"capture", "owner"}
      /\ DOMAIN old.new \subseteq old.held /\ \A c \in DOMAIN old.new : MadeOf(r, c)
  BY <1>1, <1>5 DEF SortInv, RequestSound
<1>7. s \in Sessions /\ Shaped(s3[s])
  BY <1>1, <1>2, <1>5, <1>6 DEF SortInv, OneHolds
<1>8. DOMAIN s3' = Sessions /\ s3'[s] = w /\ \A c \in Sessions : c # s => s3'[c] = s3[c]
  BY <1>5, <1>7 DEF SortInv
<1>9. /\ Shaped(written) /\ written.source = s3[s].source
      /\ written.projection = s3[s].projection
      /\ s \notin DOMAIN old.new => written = s3[s]
  BY <1>1, <1>3, <1>6, <1>7 DEF MadeOf
<1>10. Ordered /\ ~written.pending => written.derived = written.source
  BY <1>1, <1>3, <1>6, <1>7 DEF MadeOf, SortInv
<1>11. /\ Shaped(w) /\ w.source = written.source /\ w.derived = written.derived /\ w.pile = written.pile
  BY <1>4, <1>9 DEF Shaped
<1>12. w.pending = written.pending /\ w.locked = written.locked
  BY <1>4, <1>9 DEF Shaped
<1>13. ~old.clears => w = written
  BY <1>4
<1>14. ASSUME NEW q \in Requests, q # r, Sorting!Busy(q), s \in s7[q].held PROVE w = s3[s]
  <2>1. ~old.clears
    BY <1>5, <1>14, FreeRow
  <2>2. s \notin DOMAIN old.new
    BY <1>1, <1>6, <1>14 DEF SortInv, Apart
  <2>3. QED
    BY <1>9, <1>13, <2>1, <2>2
<1>15. SortInv' /\ ~Sorting!Busy(r)'
  <2>1. \A c \in Sessions : Shaped(s3'[c]) /\ s3'[c].source = s3[c].source
    BY <1>8, <1>9, <1>11 DEF SortInv
  <2>2. \A c \in Sessions : Ordered /\ ~s3'[c].pending => s3'[c].derived = s3'[c].source
    BY <1>8, <1>10, <1>11, <1>12 DEF SortInv
  <2>3. \A c \in Sessions, q \in Requests :
           q # r /\ Sorting!Busy(q) /\ c \in s7[q].held => s3'[c] = s3[c]
    BY <1>8, <1>14
  <2>4. QED
    BY <1>5, <1>8, <2>1, <2>2, <2>3, RowsWritten
<1>16. Sorting!ExportsLatest
  <2>. SUFFICES ASSUME NEW c \in Sessions, s3[c].projection, ~s3'[c].projection
                PROVE  \E q \in Requests :
                         /\ Sorting!Busy(q) /\ ~Sorting!Busy(q)' /\ s7[q].session = c
                         /\ s7[q].shows = s3'[c].source \/ (s7[q].kind = "owner" /\ s7[q].plan = "none")
    BY DEF Sorting!ExportsLatest
  <2>1. c = s
    BY <1>8
  <2>2. old.kind = "capture" \/ old.plan # "none" => old.shows = s3'[s].source
    BY <1>1, <1>2, <1>5, <1>6, <1>8, <1>9, <1>11 DEF OneHolds
  <2>3. QED
    BY <1>1, <1>2, <1>6, <1>15, <2>1, <2>2
<1>17. Sorting!KeepsPile
  <2>. SUFFICES ASSUME NEW c \in Sessions, s3[c].locked, s3'[c].pile # s3[c].pile
                PROVE  \/ \E q \in Requests : Sorting!Busy(q) /\ ~Sorting!Busy(q)' /\ s7[q].kind = "owner"
                       \/ s1 = "sqlite" /\ s3'[c].locked
    BY DEF Sorting!KeepsPile
  <2>1. c = s /\ w.pile # s3[s].pile /\ s \in DOMAIN old.new /\ written = old.new[s]
    BY <1>3, <1>8, <1>9, <1>11
  <2>2. CASE old.kind = "owner"
    BY <1>1, <1>15, <2>2
  <2>3. CASE old.kind = "capture"
    <3>1. IF s1 = "postgres" THEN written.pile = s3[s].pile ELSE written.locked
      BY <1>1, <1>6, <2>1, <2>3 DEF MadeOf
    <3>2. s1 = "sqlite" /\ written.locked
      BY <1>11, <2>1, <3>1 DEF SortInv
    <3>3. QED
      BY <1>8, <1>12, <2>1, <3>2
  <2>4. QED
    BY <1>6, <2>2, <2>3
<1>18. QED
  BY <1>15, <1>16, <1>17

------------------------------------------------------------------------------
\* The rows of a batch are as they were fetched, and postgres locks them.
LEMMA CompleteKeeps ==
  ASSUME SortInv, NEW r \in Requests, Sorting!Complete(r)
  PROVE  SortInv'
<1>1. PICK S : S = Sorting!Range(s6.batch)
  OBVIOUS
<1>2. PICK kept : kept = [s6 EXCEPT !.list = {}]
  OBVIOUS
<1>3. PICK lists : lists = IF Sorting!WritesList(s6) THEN s6.list ELSE {}
  OBVIOUS
<1>4. PICK t : t = [pc |-> "item", kind |-> "complete", task |-> kept, next |-> 1, session |-> None,
                    list |-> lists, revision |-> lists, held |-> Sorting!HeldForUpdate(S), new |-> <<>>]
  OBVIOUS
<1>5. /\ s7' = [s7 EXCEPT ![r] = t] /\ UNCHANGED <<s1, s2, s3, s6>> /\ s6 # None
      /\ Sorting!ForUpdate(r, S) /\ Sorting!SameSource(s6)
  BY <1>1, <1>2, <1>3, <1>4 DEF Sorting!Complete, Sorting!RequestStep
<1>6. s7'[r] = t
  BY <1>5 DEF SortInv
<1>7. /\ s2 = "browser" /\ s6.batch \in Seq(Sessions) /\ s6.batch # <<>>
      /\ s6 = [batch |-> s6.batch, source |-> s6.source, pile |-> s6.pile, list |-> s6.list]
  BY <1>5 DEF SortInv, TaskHolds
<1>8. kept.batch = s6.batch /\ kept.source = s6.source
  BY <1>2, <1>7
<1>9. /\ t.pc = "item" /\ t.kind = "complete" /\ t.task = kept /\ t.next = 1 /\ t.list = t.revision
      /\ t.held = Sorting!HeldForUpdate(S) /\ DOMAIN t.new = {}
      /\ t = [pc |-> t.pc, kind |-> t.kind, task |-> t.task, next |-> t.next, session |-> t.session,
              list |-> t.list, revision |-> t.revision, held |-> t.held, new |-> t.new]
  BY <1>4
<1>10. \A i \in 1..Len(s6.batch) : s6.batch[i] \in S
  BY <1>1, <1>7 DEF Sorting!Range
<1>11. S \subseteq Sessions /\ 1 <= Len(s6.batch)
  BY <1>1, <1>7 DEF Sorting!Range
<1>12. \A c \in S : s3[c].source = s6.source[c]
  BY <1>1, <1>5 DEF Sorting!SameSource
<1>13. t.held \subseteq Sessions /\ (s1 = "postgres" => t.held = S)
  BY <1>9, <1>11 DEF Sorting!HeldForUpdate
<1>14. BatchHolds(r)'
  BY <1>5, <1>6, <1>7, <1>8, <1>9, <1>10, <1>11, <1>12, <1>13 DEF BatchHolds
<1>15. RequestSound(r)'
  BY <1>6, <1>9, <1>13, <1>14 DEF RequestSound, OneHolds
<1>16. \A q \in Requests : q # r /\ Sorting!Busy(q) => Apart(t.held, s7[q].held)
  BY <1>5, <1>9, FreeRows
<1>17. QED
  BY <1>5, <1>15, <1>16, RequestKeeps

\* An item of a batch sorts a row that nobody has assigned; the first one writes the to-do
\* list only as it was shown to the model.
LEMMA ApplyItemKeeps ==
  ASSUME SortInv, NEW r \in Requests, Sorting!Busy(r), Sorting!ApplyItem(r)
  PROVE  SortInv' /\ (s7[r].kind = "complete" /\ (s7[r].next = 1 => s4 \subseteq s4'))
<1>1. PICK old : old = s7[r]
  OBVIOUS
<1>2. PICK s : s = old.task.batch[old.next]
  OBVIOUS
<1>3. PICK list : list = IF old.task.pile[s] = "todo" THEN old.list \cup {s} ELSE old.list
  OBVIOUS
<1>4. /\ old.pc = "item" /\ old.kind = "complete" /\ BatchHolds(r)
      /\ old.held \subseteq Sessions /\ DOMAIN old.new \subseteq old.held
      /\ \A c \in DOMAIN old.new : MadeOf(r, c)
  BY <1>1 DEF Sorting!ApplyItem, SortInv, RequestSound, OneHolds
<1>5. /\ old.task.batch \in Seq(Sessions) /\ old.next \in 1..Len(old.task.batch) /\ s2 = "browser"
      /\ old.next = 1 => old.list = old.revision
      /\ old = [pc |-> old.pc, kind |-> old.kind, task |-> old.task, next |-> old.next,
                session |-> old.session, list |-> old.list, revision |-> old.revision,
                held |-> old.held, new |-> old.new]
      /\ s1 = "postgres" => \A i \in 1..Len(old.task.batch) :
           old.task.batch[i] \in old.held /\ s3[old.task.batch[i]].source = old.task.source[old.task.batch[i]]
  BY <1>1, <1>4 DEF BatchHolds
<1>6. s \in Sessions /\ Shaped(s3[s]) /\ Sorting!Free(r, s)
  <2>1. s \in Sessions
    BY <1>2, <1>5
  <2>2. Sorting!Free(r, s)
    BY <1>1, <1>2 DEF Sorting!ApplyItem
  <2>3. QED
    BY <2>1, <2>2 DEF SortInv
<1>7. CASE ~Sorting!Claimable(s) \/ (old.task.pile[s] = "todo" /\ ~Sorting!Unchanged(old.revision))
  <2>1. s7' = [s7 EXCEPT ![r] = Sorting!Idle] /\ UNCHANGED <<s1, s2, s3, s4, s6>>
    BY <1>1, <1>2, <1>7 DEF Sorting!ApplyItem, Sorting!Rollback, Sorting!RequestStep
  <2>2. QED
    BY <1>1, <1>4, <2>1, RollbackKeeps
<1>8. CASE Sorting!Claimable(s) /\ (old.task.pile[s] = "todo" => Sorting!Unchanged(old.revision))
  <2>1. PICK w : w = [s3[s] EXCEPT !.pile = old.task.pile[s], !.pending = FALSE, !.locked = FALSE,
                                   !.derived = old.task.source[s]]
    OBVIOUS
  <2>2. PICK new : new = [d \in DOMAIN old.new \cup {s} |-> IF d = s THEN w ELSE old.new[d]]
    OBVIOUS
  <2>3. PICK t : t = [old EXCEPT !.pc = "itemized", !.list = list, !.held = @ \cup {s}, !.new = new]
    OBVIOUS
  <2>4. /\ s7' = [s7 EXCEPT ![r] = t] /\ UNCHANGED <<s1, s2, s3, s6>>
        /\ s4' = (IF old.task.pile[s] = "todo" THEN list ELSE s4)
    <3>1. s4' = (IF old.task.pile[s] = "todo" THEN list ELSE s4) /\ UNCHANGED <<s1, s2, s3, s6>>
      BY <1>1, <1>2, <1>3, <1>8 DEF Sorting!ApplyItem, Sorting!RequestStep
    <3>2. s7' = [s7 EXCEPT ![r] = Sorting!Itemized(r, s, list)]
      BY <1>1, <1>2, <1>3, <1>8 DEF Sorting!ApplyItem
    <3>3. Sorting!Itemized(r, s, list)
            = [old EXCEPT !.pc = "itemized", !.list = list, !.held = @ \cup {s},
                 !.new = [d \in DOMAIN @ \cup {s} |-> IF d = s THEN Sorting!ResultRow(r, s) ELSE @[d]]]
      BY <1>1 DEF Sorting!Itemized
    <3>4. Sorting!ResultRow(r, s) = w
      BY <1>1, <2>1 DEF Sorting!ResultRow
    <3>5. Sorting!Itemized(r, s, list) = t
      BY <1>5, <2>2, <2>3, <3>3, <3>4
    <3>6. QED
      BY <3>1, <3>2, <3>5
  <2>5. s7'[r] = t
    BY <2>4 DEF SortInv
  <2>6. /\ t.pc = "itemized" /\ t.kind = "complete" /\ t.task = old.task /\ t.next = old.next
        /\ t.held = old.held \cup {s} /\ t.new = new
        /\ t = [pc |-> t.pc, kind |-> t.kind, task |-> t.task, next |-> t.next, session |-> t.session,
                list |-> t.list, revision |-> t.revision, held |-> t.held, new |-> t.new]
    BY <1>4, <1>5, <2>3
  <2>7. /\ Shaped(w) /\ w.source = s3[s].source /\ w.derived = old.task.source[s]
    BY <1>6, <2>1 DEF Shaped
  <2>8. w.projection = s3[s].projection
    BY <1>6, <2>1 DEF Shaped
  <2>9. Ordered => w.derived = w.source
    BY <1>2, <1>5, <2>7 DEF Ordered
  <2>10. ~s3[s].locked
    BY <1>8 DEF Sorting!Claimable
  <2>11. /\ DOMAIN new = DOMAIN old.new \cup {s} /\ new[s] = w
         /\ \A d \in DOMAIN old.new : d # s => new[d] = old.new[d]
    BY <2>2
  <2>12. MadeOf(r, s)'
    BY <2>4, <2>5, <2>6, <2>7, <2>8, <2>9, <2>10, <2>11 DEF MadeOf, Ordered
  <2>13. \A d \in DOMAIN old.new : d # s => MadeOf(r, d)'
    BY <1>1, <1>4, <2>4, <2>5, <2>6, <2>11 DEF MadeOf, Ordered
  <2>14. BatchHolds(r)'
    BY <1>5, <2>4, <2>5, <2>6 DEF BatchHolds
  <2>15. RequestSound(r)'
    BY <1>4, <1>6, <2>5, <2>6, <2>11, <2>12, <2>13, <2>14 DEF RequestSound, OneHolds
  <2>16. ASSUME NEW q \in Requests, q # r, Sorting!Busy(q) PROVE Apart(t.held, s7[q].held)
    <3>1. Apart(old.held, s7[q].held)
      BY <1>1, <2>16 DEF SortInv
    <3>2. s \notin s7[q].held /\ (s1 # "postgres" => s7[q].held = {})
      BY <1>6, <2>16, FreeRow
    <3>3. QED
      BY <2>6, <3>1, <3>2 DEF Apart
  <2>17. SortInv'
    BY <2>4, <2>15, <2>16, RequestKeeps
  <2>18. old.next = 1 => s4 \subseteq s4'
    BY <1>3, <1>5, <1>8, <2>4 DEF Sorting!Unchanged
  <2>19. QED
    BY <1>1, <1>4, <2>17, <2>18
<1>9. QED
  BY <1>7, <1>8

LEMMA ExportItemKeeps ==
  ASSUME SortInv, NEW r \in Requests, Sorting!Busy(r), Sorting!ExportItem(r)
  PROVE  SortInv'
<1>1. PICK old : old = s7[r]
  OBVIOUS
<1>2. /\ old.pc = "itemized" /\ old.kind = "complete" /\ BatchHolds(r)
      /\ old.held \subseteq Sessions /\ DOMAIN old.new \subseteq old.held
      /\ \A c \in DOMAIN old.new : MadeOf(r, c)
  BY <1>1 DEF Sorting!ExportItem, SortInv, RequestSound, OneHolds
<1>3. PICK list : list = IF old.task.pile[old.task.batch[old.next]] = "todo" THEN s4 ELSE old.revision
  OBVIOUS
<1>4. PICK t : t = [old EXCEPT !.revision = list, !.next = @ + 1,
                               !.pc = IF old.next < Len(old.task.batch) THEN "item" ELSE "exported"]
  OBVIOUS
<1>5. /\ old = [pc |-> old.pc, kind |-> old.kind, task |-> old.task, next |-> old.next,
                session |-> old.session, list |-> old.list, revision |-> old.revision,
                held |-> old.held, new |-> old.new]
      /\ old.task.batch \in Seq(Sessions) /\ old.next \in Nat \ {0} /\ old.next <= Len(old.task.batch)
  BY <1>1, <1>2 DEF BatchHolds
<1>6. s7' = [s7 EXCEPT ![r] = t] /\ UNCHANGED <<s1, s2, s3, s6>>
  BY <1>1, <1>3, <1>4, <1>5 DEF Sorting!ExportItem, Sorting!RequestStep, SortInv
<1>7. s7'[r] = t
  BY <1>6 DEF SortInv
<1>8. /\ t.kind = "complete" /\ t.task = old.task /\ t.next = old.next + 1
      /\ t.held = old.held /\ t.new = old.new
      /\ t.pc = (IF old.next < Len(old.task.batch) THEN "item" ELSE "exported")
      /\ t = [pc |-> t.pc, kind |-> t.kind, task |-> t.task, next |-> t.next, session |-> t.session,
              list |-> t.list, revision |-> t.revision, held |-> t.held, new |-> t.new]
  BY <1>2, <1>4, <1>5
<1>9. /\ t.next \in Nat \ {0} /\ t.next # 1 /\ t.pc \in {"item", "exported"}
      /\ t.pc # "exported" => t.next <= Len(t.task.batch)
  BY <1>5, <1>8
<1>10. BatchHolds(r)'
  BY <1>1, <1>2, <1>5, <1>6, <1>7, <1>8, <1>9 DEF BatchHolds
<1>11. \A d \in DOMAIN t.new : MadeOf(r, d)'
  BY <1>1, <1>2, <1>6, <1>7, <1>8 DEF MadeOf, Ordered
<1>12. RequestSound(r)'
  BY <1>2, <1>7, <1>8, <1>10, <1>11 DEF RequestSound, OneHolds
<1>13. \A q \in Requests : q # r /\ Sorting!Busy(q) => Apart(t.held, s7[q].held)
  BY <1>1, <1>8 DEF SortInv
<1>14. QED
  BY <1>6, <1>12, <1>13, RequestKeeps

LEMMA CommitBatchKeeps ==
  ASSUME SortInv, NEW r \in Requests, Sorting!Busy(r), Sorting!CommitBatch(r)
  PROVE  SortInv' /\ Sorting!ExportsLatest /\ Sorting!KeepsPile
<1>1. PICK old : old = s7[r]
  OBVIOUS
<1>2. /\ s3' = [s \in Sessions |-> IF s \in DOMAIN old.new THEN old.new[s] ELSE s3[s]]
      /\ s7' = [s7 EXCEPT ![r] = Sorting!Idle] /\ UNCHANGED <<s1, s2, s6>> /\ old.kind = "complete"
  BY <1>1 DEF Sorting!CommitBatch
<1>3. /\ DOMAIN old.new \subseteq old.held /\ \A s \in DOMAIN old.new : MadeOf(r, s)
  BY <1>1 DEF SortInv, RequestSound
<1>4. DOMAIN s3' = Sessions
  BY <1>2
<1>5. ASSUME NEW s \in Sessions
      PROVE  /\ Shaped(s3'[s]) /\ s3'[s].source = s3[s].source /\ s3'[s].projection = s3[s].projection
             /\ Ordered /\ ~s3'[s].pending => s3'[s].derived = s3'[s].source
             /\ s3[s].locked => s3'[s].pile = s3[s].pile \/ (s1 # "postgres" /\ s3'[s].locked)
  <2>1. CASE s \in DOMAIN old.new
    BY <1>1, <1>2, <1>3, <2>1 DEF MadeOf
  <2>2. CASE s \notin DOMAIN old.new
    BY <1>2, <2>2 DEF SortInv
  <2>3. QED
    BY <2>1, <2>2
<1>6. ASSUME NEW s \in Sessions, NEW q \in Requests, q # r, Sorting!Busy(q), s \in s7[q].held
      PROVE  s3'[s] = s3[s]
  <2>1. s \notin DOMAIN old.new
    BY <1>1, <1>3, <1>6 DEF SortInv, Apart
  <2>2. QED
    BY <1>2, <2>1
<1>7. SortInv'
  BY <1>2, <1>4, <1>5, <1>6, RowsWritten
<1>8. Sorting!ExportsLatest
  BY <1>5 DEF Sorting!ExportsLatest
<1>9. Sorting!KeepsPile
  BY <1>5 DEF Sorting!KeepsPile, SortInv
<1>10. QED
  BY <1>7, <1>8, <1>9

------------------------------------------------------------------------------
(* Every step. *)

\* The list that the model was shown is what an answer builds on.
LEMMA AnswerKeeps ==
  ASSUME SortInv, NEW r \in Requests, Sorting!Busy(r), Sorting!Answer(r)
  PROVE  SortInv' /\ s4 \subseteq s4' /\ s3' = s3
<1>1. CASE s7[r].lists /\ ~Sorting!Unchanged(s7[r].list)
  BY <1>1, RollbackKeeps DEF Sorting!Answer, Sorting!Rollback, Sorting!RequestStep
<1>2. CASE ~(s7[r].lists /\ ~Sorting!Unchanged(s7[r].list))
  <2>1. /\ s7[r].pc = "answering" /\ Sorting!ExportOrRollback(r) /\ UNCHANGED <<s1, s2, s3, s6>>
        /\ s4' = (IF s7[r].lists THEN s7[r].list \cup {s7[r].session} ELSE s4)
    BY <1>2 DEF Sorting!Answer, Sorting!RequestStep
  <2>2. s4 \subseteq s4'
    BY <1>2, <2>1 DEF Sorting!Unchanged
  <2>3. QED
    BY <2>1, <2>2, ExportedKeeps
<1>3. QED
  BY <1>1, <1>2

LEMMA ExportKeeps ==
  ASSUME SortInv, NEW r \in Requests, Sorting!Busy(r), Sorting!Export(r)
  PROVE  SortInv'
BY ExportedKeeps DEF Sorting!Export, Sorting!RequestStep

\* A step that no request takes.
LEMMA NoRequestKeeps ==
  ASSUME SortInv, UNCHANGED <<s1, s2, s3, s7>>, TaskHolds'
  PROVE  SortInv'
<1>1. ASSUME NEW r \in Requests PROVE RequestSound(r)'
  BY <1>1, OthersSound DEF SortInv
<1>2. \A r \in Requests : Sorting!Busy(r)' <=> Sorting!Busy(r)
  BY DEF Sorting!Busy, Sorting!Idle
<1>3. QED
  BY <1>1, <1>2 DEF SortInv, Shaped, Ordered, Apart

LEMMA FetchKeeps ==
  ASSUME SortInv, NEW batch \in Sorting!Batches, NEW to, Sorting!Fetch(batch, to)
  PROVE  SortInv'
<1>1. PICK t : t = [batch |-> batch, source |-> [s \in Sessions |-> s3[s].source],
                    pile |-> to, list |-> s4]
  OBVIOUS
<1>2. s6' = t /\ s2 = "browser" /\ UNCHANGED <<s1, s2, s3, s7>>
  BY <1>1 DEF Sorting!Fetch, Sorting!tables
<1>3. batch \in Seq(Sessions) /\ batch # <<>>
  BY SortingAssumption DEF Sorting!Batches, Sorting!SeqOf
<1>4. t = [batch |-> t.batch, source |-> t.source, pile |-> t.pile, list |-> t.list] /\ t.batch = batch
  BY <1>1
<1>5. TaskHolds'
  BY <1>2, <1>3, <1>4 DEF TaskHolds
<1>6. QED
  BY <1>2, <1>5, NoRequestKeeps

\* What one step may do: the invariant is kept, and a mark for export, a pile and an item of
\* the to-do list are lost only as they may be.
LEMMA SortStep ==
  ASSUME SortInv, Sorting!Next
  PROVE  SortInv' /\ Sorting!ExportsLatest /\ Sorting!KeepsPile /\ Sorting!KeepsList
<1>1. ASSUME s3' = s3 PROVE Sorting!ExportsLatest /\ Sorting!KeepsPile
  BY <1>1 DEF Sorting!ExportsLatest, Sorting!KeepsPile
<1>2. ASSUME s4 \subseteq s4' PROVE Sorting!KeepsList
  BY <1>2 DEF Sorting!KeepsList
<1>3. ASSUME NEW r \in Requests, NEW s \in Sessions, NEW new \in BOOLEAN, NEW discard \in BOOLEAN,
             Sorting!Capture(r, s, new, discard)
      PROVE  SortInv' /\ Sorting!ExportsLatest /\ Sorting!KeepsPile /\ Sorting!KeepsList
  <2>1. s4' = s4
    BY <1>3 DEF Sorting!Capture
  <2>2. QED
    BY <1>2, <1>3, <2>1, CaptureKeeps DEF Sorting!ExportsLatest, Sorting!KeepsPile
<1>4. ASSUME NEW r \in Requests, Sorting!Busy(r), Sorting!Process(r) \/ Sorting!Fail(r)
      PROVE  SortInv' /\ Sorting!ExportsLatest /\ Sorting!KeepsPile /\ Sorting!KeepsList
  <2>1. CASE Sorting!Load(r)
    BY <1>1, <1>2, <1>4, <2>1, LoadKeeps DEF Sorting!Load, Sorting!RequestStep
  <2>2. ASSUME NEW to \in Piles, NEW lists \in BOOLEAN, Sorting!Claim(r, to, lists)
        PROVE  SortInv' /\ Sorting!ExportsLatest /\ Sorting!KeepsPile /\ Sorting!KeepsList
    <3>1. s3' = s3 /\ s4' = s4
      BY <2>2 DEF Sorting!Claim, Sorting!RequestStep
    <3>2. QED
      BY <1>1, <1>2, <1>4, <2>2, <3>1, ClaimRowKeeps
  <2>3. CASE Sorting!LoseClaim(r)
    <3>1. s3' = s3 /\ s4' = s4
      BY <2>3 DEF Sorting!LoseClaim, Sorting!Rollback, Sorting!RequestStep
    <3>2. QED
      BY <1>1, <1>2, <1>4, <2>3, <3>1, LoseClaimKeeps
  <2>4. CASE Sorting!Answer(r)
    BY <1>1, <1>2, <1>4, <2>4, AnswerKeeps
  <2>5. CASE Sorting!Export(r)
    BY <1>1, <1>2, <1>4, <2>5, ExportKeeps DEF Sorting!Export, Sorting!RequestStep
  <2>6. CASE Sorting!Commit(r)
    <3>1. s4' = s4
      BY <2>6 DEF Sorting!Commit
    <3>2. QED
      BY <1>2, <1>4, <2>6, <3>1, CommitRowKeeps
  <2>7. CASE Sorting!ApplyItem(r)
    <3>1. s3' = s3
      BY <2>7 DEF Sorting!ApplyItem, Sorting!Rollback, Sorting!RequestStep
    <3>2. s7[r].pc = "item"
      BY <2>7 DEF Sorting!ApplyItem
    <3>3. SortInv' /\ s7[r].kind = "complete" /\ (s7[r].next = 1 => s4 \subseteq s4')
      BY <1>4, <2>7, ApplyItemKeeps
    <3>4. Sorting!KeepsList
      BY <1>4, <3>2, <3>3 DEF Sorting!KeepsList
    <3>5. QED
      BY <1>1, <3>1, <3>3, <3>4
  <2>8. CASE Sorting!ExportItem(r)
    BY <1>1, <1>2, <1>4, <2>8, ExportItemKeeps DEF Sorting!ExportItem, Sorting!RequestStep
  <2>9. CASE Sorting!CommitBatch(r)
    <3>1. s4' = s4
      BY <2>9 DEF Sorting!CommitBatch
    <3>2. QED
      BY <1>2, <1>4, <2>9, <3>1, CommitBatchKeeps
  <2>10. CASE Sorting!Fail(r)
    BY <1>1, <1>2, <1>4, <2>10, RollbackKeeps DEF Sorting!Fail, Sorting!Rollback, Sorting!RequestStep
  <2>11. QED
    BY <1>4, <2>1, <2>2, <2>3, <2>4, <2>5, <2>6, <2>7, <2>8, <2>9, <2>10 DEF Sorting!Process
<1>5. CASE Sorting!OwnerNext
  <2>1. ASSUME NEW r \in Requests, NEW s \in Sessions,
               \/ \E to \in Piles : Sorting!Assign(r, s, to)
               \/ Sorting!DiscardSession(r, s) \/ Sorting!Recover(r, s)
        PROVE  SortInv' /\ s3' = s3 /\ s4' = s4
    <3>1. ASSUME NEW plan \in {"reassign", "discard", "recover", "none"}, NEW target,
                 Sorting!Begin(r, s, plan, target)
          PROVE  SortInv' /\ s3' = s3 /\ s4' = s4
      <4>1. s3' = s3 /\ s4' = s4
        BY <3>1 DEF Sorting!Begin, Sorting!RequestStep
      <4>2. QED
        BY <3>1, <4>1, BeginOwnerKeeps
    <3>2. QED
      BY <2>1, <3>1 DEF Sorting!Assign, Sorting!DiscardSession, Sorting!Recover
  <2>2. CASE Sorting!OpenList
    <3>1. UNCHANGED <<s1, s2, s3, s4, s6, s7>>
      BY <2>2 DEF Sorting!OpenList, Sorting!tables
    <3>2. QED
      BY <1>1, <1>2, <3>1, NoRequestKeeps DEF SortInv, TaskHolds
  <2>3. ASSUME NEW added, Sorting!SaveList(added)
        PROVE  SortInv' /\ Sorting!ExportsLatest /\ Sorting!KeepsPile /\ Sorting!KeepsList
    <3>1. UNCHANGED <<s1, s2, s3, s6, s7>> /\ s4 \subseteq s4'
      BY <2>3 DEF Sorting!SaveList, Sorting!Unchanged
    <3>2. QED
      BY <1>1, <1>2, <3>1, NoRequestKeeps DEF SortInv, TaskHolds
  <2>4. QED
    BY <1>1, <1>2, <1>5, <2>1, <2>2, <2>3 DEF Sorting!OwnerNext
<1>6. CASE Sorting!ExtensionNext
  <2>1. ASSUME NEW batch \in Sorting!Batches, NEW to, Sorting!Fetch(batch, to)
        PROVE  SortInv' /\ Sorting!ExportsLatest /\ Sorting!KeepsPile /\ Sorting!KeepsList
    <3>1. s3' = s3 /\ s4' = s4
      BY <2>1 DEF Sorting!Fetch, Sorting!tables
    <3>2. QED
      BY <1>1, <1>2, <2>1, <3>1, FetchKeeps
  <2>2. CASE Sorting!DropTask
    <3>1. UNCHANGED <<s1, s2, s3, s4, s7>> /\ s6' = None
      BY <2>2 DEF Sorting!DropTask, Sorting!tables
    <3>2. QED
      BY <1>1, <1>2, <3>1, NoRequestKeeps DEF TaskHolds
  <2>3. ASSUME NEW r \in Requests, Sorting!Complete(r)
        PROVE  SortInv' /\ Sorting!ExportsLatest /\ Sorting!KeepsPile /\ Sorting!KeepsList
    <3>1. s3' = s3 /\ s4' = s4
      BY <2>3 DEF Sorting!Complete, Sorting!RequestStep
    <3>2. QED
      BY <1>1, <1>2, <2>3, <3>1, CompleteKeeps
  <2>4. QED
    BY <1>6, <2>1, <2>2, <2>3 DEF Sorting!ExtensionNext
<1>7. QED
  BY <1>3, <1>4, <1>5, <1>6 DEF Sorting!Next

LEMMA SortIsHonest == SortInv => Sorting!PendingHonest
BY DEF SortInv, Ordered, Sorting!PendingHonest

SortKept == part = "sorting" => SortInv

LEMMA SortingStarts == PilesInit => SortKept
BY SortStart DEF PilesInit, SortKept

LEMMA SortingKeeps ==
  ASSUME SortKept, PilesStep
  PROVE  /\ SortKept'
         /\ part = "sorting" =>
              \/ Sorting!ExportsLatest /\ Sorting!KeepsPile /\ Sorting!KeepsList
              \/ UNCHANGED <<state, part>>
<1>1. CASE SortingNext
  BY <1>1, SortStep DEF SortingNext, SortKept
<1>2. CASE UNCHANGED <<part, vars, state>>
  <2>1. part' = part /\ UNCHANGED <<s1, s2, s3, s6, s7>>
    BY <1>2 DEF state
  <2>2. part = "sorting" => SortInv'
    BY <2>1, NoRequestKeeps DEF SortKept, SortInv, TaskHolds
  <2>3. QED
    BY <1>2, <2>1, <2>2 DEF SortKept
<1>3. CASE RoutingNext \/ RunsNext \/ GraphNext \/ ShelfNext \/ SearchNext \/ ListNext
  BY <1>3 DEF RoutingNext, RunsNext, GraphNext, ShelfNext, SearchNext, ListNext, SortKept
<1>4. QED
  BY <1>1, <1>2, <1>3 DEF PilesStep

\* A conversation that is not pending is sorted as its latest revision asks, whatever
\* requests, batches, owners and failures come between its capture and its sorting; only
\* not on sqlite with browser processing.
\* (services/ingest.py: ingest; processing_tasks.py: complete_task, _lock_completion_sessions;
\* processing.py: _claim_automatic_assignment)
THEOREM PendingIsHonest == PilesSpec => []FlagHonest
<1>1. SortKept /\ PilesStep => SortKept'
  BY SortingKeeps
<1>2. SortKept => FlagHonest
  BY SortIsHonest DEF SortKept, FlagHonest
<1>3. QED
  BY SortingStarts, <1>1, <1>2, PTL DEF PilesSpec, PilesStep

\* A conversation loses its mark for export only to a note that shows its latest revision,
\* however many captures and requests are under way.
\* (services/processing.py: the export and its source revision)
THEOREM ExportsAreLatest == PilesSpec => NotesLatest
<1>1. SortKept /\ PilesStep => SortKept'
  BY SortingKeeps
<1>2. SortKept /\ PilesStep => [part = "sorting" => Sorting!ExportsLatest]_<<state, part>>
  BY SortingKeeps
<1>3. QED
  BY SortingStarts, <1>1, <1>2, PTL DEF PilesSpec, PilesStep, NotesLatest

\* Automatic sorting never moves what the owner has assigned, and no writer of the to-do
\* list drops what another has put there meanwhile, the later items of a batch aside.
\* (services/processing.py: _claim_automatic_assignment; todo.py: write_markdown with
\* expected_revision)
THEOREM OwnerAlwaysWins == PilesSpec => OwnerWins
<1>1. SortKept /\ PilesStep => SortKept'
  BY SortingKeeps
<1>2. SortKept /\ PilesStep =>
        [part = "sorting" => Sorting!KeepsPile /\ Sorting!KeepsList]_<<state, part>>
  BY SortingKeeps
<1>3. QED
  BY SortingStarts, <1>1, <1>2, PTL DEF PilesSpec, PilesStep, OwnerWins

------------------------------------------------------------------------------
(* Types of restructuring: s2 are the piles and s10 counts the rewrites.      *)

\* Piles are rows that are only added, and what a run will commit are piles and times.
RunsTyped ==
  /\ Runs!TypeOK /\ s10 \in 0..MaxTicks
  /\ \A p \in DOMAIN s2 : s2[p] = [active |-> s2[p].active, config |-> s2[p].config, last |-> s2[p].last]
  /\ \A r \in Runners : Going(r) =>
       \A c \in DOMAIN s5[r].new : s5[r].new[c][1] \in DOMAIN s2 /\ s5[r].new[c][2] \in 0..MaxTicks
  /\ s6 # None => s6.recover \in BOOLEAN

LEMMA RunTypesStart == Runs!Init => RunsTyped
<1>. SUFFICES ASSUME Runs!Init PROVE RunsTyped
  OBVIOUS
<1>1. /\ s2 = [p \in BuiltIns |-> Runs!Seed] /\ s10 = 0 /\ s6 = None
      /\ s3 = [c \in Chats |-> [pile |-> "ideas", locked |-> FALSE, stamp |-> 0]]
      /\ s4 = [c \in Chats |-> None] /\ s5 = [r \in Runners |-> [state |-> "idle"]]
  BY DEF Runs!Init, Runs!NoRun
<1>2. \A r \in Runners : ~Going(r)
  BY <1>1 DEF Going
<1>3. DOMAIN s2 = BuiltIns /\ \A p \in BuiltIns : s2[p] = Runs!Seed
  BY <1>1
<1>4. "ideas" \in BuiltIns /\ MaxTicks \in Nat
  BY RunsAssumption
<1>5. s3 \in [Chats -> [pile : DOMAIN s2, locked : BOOLEAN, stamp : 0..MaxTicks]]
  BY <1>1, <1>3, <1>4
<1>6. \A p \in BuiltIns :
        s2[p].active /\ s2[p] = [active |-> s2[p].active, config |-> s2[p].config, last |-> s2[p].last]
  BY <1>3 DEF Runs!Seed
<1>7. s4 \in [Chats -> Runners \cup {0, None}]
  BY <1>1
<1>8. Runs!TypeOK
  BY <1>3, <1>5, <1>6, <1>7 DEF Runs!TypeOK
<1>9. QED
  BY <1>1, <1>2, <1>3, <1>4, <1>6, <1>8 DEF RunsTyped

\* Piles grow, and so do the types of what is in them.
LEMMA RunTypesGrow ==
  ASSUME RunsInv, RunsTyped, DOMAIN s2 \subseteq DOMAIN s2', UNCHANGED <<s3, s4, s6, s10>>,
         DOMAIN s2' \subseteq BuiltIns \cup UserPiles,
         \A p \in DOMAIN s2' : s2'[p] = [active |-> s2'[p].active, config |-> s2'[p].config, last |-> s2'[p].last],
         \A p \in BuiltIns : s2'[p].active,
         \A r \in Runners : Going(r)' => (Going(r) /\ s5'[r].new = s5[r].new) \/ DOMAIN s5'[r].new = {}
  PROVE  RunsTyped'
<1>1. s3' \in [Chats -> [pile : DOMAIN s2', locked : BOOLEAN, stamp : 0..MaxTicks]]
  BY DEF RunsTyped, Runs!TypeOK
<1>2. \A r \in Runners : Going(r)' =>
       \A c \in DOMAIN s5'[r].new : s5'[r].new[c][1] \in DOMAIN s2' /\ s5'[r].new[c][2] \in 0..MaxTicks
  BY DEF RunsTyped
<1>3. QED
  BY <1>1, <1>2 DEF RunsTyped, Runs!TypeOK

LEMMA NoNew == ASSUME NEW r \in Runners, NEW p, NEW row, NEW due, DOMAIN s5 = Runners, Runs!Begin(r, p, row, due)
               PROVE  DOMAIN s5'[r].new = {} /\ \A q \in Runners : q # r => s5'[q] = s5[q]
<1>1. PICK l : s5' = [s5 EXCEPT ![r] = [state |-> "next", pile |-> p, row |-> row, queue |-> l,
                                     done |-> {}, skipped |-> {}, new |-> [c \in {} |-> None], due |-> due]]
  BY DEF Runs!Begin
<1>2. QED
  BY <1>1

\* Where no run has sorted anything new, and no pile, row or request of the owner's changed.
LEMMA RunTypesStay ==
  ASSUME RunsInv, RunsTyped, UNCHANGED <<s2, s3, s4, s6, s10>>,
         \A r \in Runners : Going(r)' => (Going(r) /\ s5'[r].new = s5[r].new) \/ DOMAIN s5'[r].new = {}
  PROVE  RunsTyped'
<1>1. QED
  BY RunTypesGrow DEF RunsTyped, Runs!TypeOK

LEMMA BeginTypes ==
  ASSUME RunsInv, RunsTyped, NEW r \in Runners, NEW p, NEW row, NEW due, Runs!Begin(r, p, row, due),
         UNCHANGED <<s2, s3, s4, s6, s10>>
  PROVE  RunsTyped'
<1>1. DOMAIN s5'[r].new = {} /\ \A q \in Runners : q # r => s5'[q] = s5[q]
  BY NoNew DEF RunsInv
<1>2. QED
  BY <1>1, RunTypesStay DEF Going

LEMMA ClaimTypes ==
  ASSUME RunsInv, RunsTyped, NEW r \in Runners, Runs!Claim(r)
  PROVE  RunsTyped'
<1>1. /\ UNCHANGED <<s2, s3, s6, s10>> /\ Going(r) /\ DOMAIN s4 = Chats /\ DOMAIN s5 = Runners
      /\ s4 \in [Chats -> Runners \cup {0, None}]
  BY DEF Runs!Claim, Going, RunsInv, RunsTyped, Runs!TypeOK
<1>2. \A q \in Runners : Going(q)' => Going(q) /\ s5'[q].new = s5[q].new
  <2>1. \A q \in Runners : q # r => s5'[q] = s5[q]
    BY <1>1 DEF Runs!Claim
  <2>2. s5'[r].new = s5[r].new
    <3>1. "new" \in DOMAIN s5[r]
      BY <1>1 DEF RunsInv, RunHolds
    <3>2. CASE s5' = [s5 EXCEPT ![r].state = "claimed"]
      BY <1>1, <3>1, <3>2
    <3>3. CASE s5' = [s5 EXCEPT ![r].queue = Tail(@), ![r].skipped = @ \cup {Head(s5[r].queue)},
                                ![r].new = Runs!Kept(r)]
      BY <1>1, <3>1, <3>3 DEF Runs!Kept
    <3>4. QED
      BY <3>2, <3>3 DEF Runs!Claim
  <2>3. QED
    BY <1>1, <2>1, <2>2 DEF Going
<1>3. s4' \in [Chats -> Runners \cup {0, None}]
  BY <1>1 DEF Runs!Claim
<1>4. QED
  BY <1>1, <1>2, <1>3 DEF RunsTyped, Runs!TypeOK

\* A row is released to nobody.
LEMMA ReleasedTypes ==
  ASSUME RunsTyped, NEW who PROVE Runs!Released(who) \in [Chats -> Runners \cup {0, None}]
BY DEF RunsTyped, Runs!TypeOK, Runs!Released

LEMMA SortedTypes ==
  ASSUME RunsInv, RunsTyped, NEW c \in Chats, NEW p \in DOMAIN s2, NEW locked \in BOOLEAN, s10 < MaxTicks
  PROVE  /\ Runs!Sorted(c, p, s10 + 1) \in [Chats -> [pile : DOMAIN s2, locked : BOOLEAN, stamp : 0..MaxTicks]]
         /\ [Runs!Sorted(c, p, s10 + 1) EXCEPT ![c].locked = locked]
              \in [Chats -> [pile : DOMAIN s2, locked : BOOLEAN, stamp : 0..MaxTicks]]
<1>1. s10 + 1 \in 0..MaxTicks
  BY RunsAssumption DEF RunsTyped
<1>2. s3 \in [Chats -> [pile : DOMAIN s2, locked : BOOLEAN, stamp : 0..MaxTicks]]
  BY DEF RunsTyped, Runs!TypeOK
<1>3. QED
  BY <1>1, <1>2 DEF Runs!Sorted

LEMMA SettleTypes ==
  ASSUME RunsInv, RunsTyped, NEW r \in Runners, NEW p \in DOMAIN s2, Runs!Settle(r, p)
  PROVE  RunsTyped'
<1> DEFINE c == Head(s5[r].queue)
<1>1. /\ UNCHANGED <<s2, s6>> /\ Going(r) /\ DOMAIN s5 = Runners /\ s10 < MaxTicks /\ s10' = s10 + 1
      /\ s5[r].queue \in Seq(Chats) /\ s5[r].queue # <<>>
  BY DEF Runs!Settle, Going, RunsInv, RunHolds
<1>2. s10' \in 0..MaxTicks /\ s10 + 1 \in 0..MaxTicks
  BY <1>1, RunsAssumption DEF RunsTyped
<1>3. c \in Chats
  BY <1>1
<1>4. s3' \in [Chats -> [pile : DOMAIN s2, locked : BOOLEAN, stamp : 0..MaxTicks]]
  <2>1. CASE s3' = s3
    BY <2>1 DEF RunsTyped, Runs!TypeOK
  <2>2. CASE s3' = Runs!Sorted(c, p, s10 + 1)
    BY <1>1, <1>3, <2>2, SortedTypes
  <2>3. QED
    BY <2>1, <2>2 DEF Runs!Settle
<1>5. s4' \in [Chats -> Runners \cup {0, None}]
  BY ReleasedTypes DEF Runs!Settle, RunsTyped, Runs!TypeOK
<1>6. \A q \in Runners : q # r => s5'[q] = s5[q]
  BY <1>1 DEF Runs!Settle
<1>7. \A d \in DOMAIN s5'[r].new : s5'[r].new[d][1] \in DOMAIN s2 /\ s5'[r].new[d][2] \in 0..MaxTicks
  <2>1. \/ s5'[r].new = s5[r].new
        \/ s5'[r].new = [d \in DOMAIN s5[r].new \cup {c} |-> IF d = c THEN <<p, s10 + 1>> ELSE s5[r].new[d]]
    <3>1. "new" \in DOMAIN s5[r]
      BY <1>1 DEF RunsInv, RunHolds
    <3>2. QED
      BY <1>1, <3>1 DEF Runs!Settle
  <2>2. CASE s5'[r].new = s5[r].new
    BY <1>1, <2>2 DEF RunsTyped
  <2>3. CASE s5'[r].new = [d \in DOMAIN s5[r].new \cup {c} |-> IF d = c THEN <<p, s10 + 1>> ELSE s5[r].new[d]]
    BY <1>1, <1>2, <2>3 DEF RunsTyped
  <2>4. QED
    BY <2>1, <2>2, <2>3
<1>8. \A q \in Runners : Going(q)' =>
        \A d \in DOMAIN s5'[q].new : s5'[q].new[d][1] \in DOMAIN s2 /\ s5'[q].new[d][2] \in 0..MaxTicks
  BY <1>6, <1>7 DEF RunsTyped, Going
<1>9. QED
  BY <1>1, <1>2, <1>4, <1>5, <1>8 DEF RunsTyped, Runs!TypeOK

LEMMA CommitTypes ==
  ASSUME RunsInv, RunsTyped, NEW r \in Runners, Runs!Commit(r)
  PROVE  RunsTyped'
<1> DEFINE own == s5[r]
<1>1. /\ UNCHANGED <<s6, s10>> /\ Going(r) /\ DOMAIN s5 = Runners
      /\ s3' = [c \in Chats |-> IF c \in DOMAIN own.new
                                  THEN [s3[c] EXCEPT !.pile = own.new[c][1], !.stamp = own.new[c][2]] ELSE s3[c]]
      /\ s4' = Runs!Released(r)
  BY DEF Runs!Commit, Going, RunsInv
<1>2. s3 \in [Chats -> [pile : DOMAIN s2, locked : BOOLEAN, stamp : 0..MaxTicks]]
  BY DEF RunsTyped, Runs!TypeOK
<1>3. s3' \in [Chats -> [pile : DOMAIN s2, locked : BOOLEAN, stamp : 0..MaxTicks]]
  <2>1. ASSUME NEW c \in DOMAIN own.new PROVE own.new[c][1] \in DOMAIN s2 /\ own.new[c][2] \in 0..MaxTicks
    BY <1>1 DEF RunsTyped
  <2>2. QED
    BY <1>1, <1>2, <2>1
<1>4. s4' \in [Chats -> Runners \cup {0, None}]
  BY <1>1, ReleasedTypes
<1>5. /\ DOMAIN s2' = DOMAIN s2
      /\ \A p \in DOMAIN s2 : s2'[p] = [active |-> s2'[p].active, config |-> s2'[p].config, last |-> s2'[p].last]
      /\ \A p \in DOMAIN s2 : s2'[p].active = s2[p].active
  <2>1. CASE s2' = s2
    BY <2>1 DEF RunsTyped
  <2>2. CASE s2' = [s2 EXCEPT ![own.pile].config = own.row.config, ![own.pile].last = s10]
    BY <2>2, SMTT(30) DEF RunsTyped
  <2>3. QED
    BY <2>1, <2>2 DEF Runs!Commit
<1>6. \A q \in Runners : Going(q)' => Going(q) /\ s5'[q] = s5[q]
  <2>1. \A q \in Runners : q # r => s5'[q] = s5[q]
    BY <1>1 DEF Runs!Commit
  <2>2. s5'[r].state \in {"over", "list"}
    <3>1. CASE s5' = [s5 EXCEPT ![r] = [state |-> "over"]]
      BY <1>1, <3>1
    <3>2. ASSUME NEW d, s5' = [s5 EXCEPT ![r] =
                   [state |-> "list", pile |-> d[1], row |-> d[2], due |-> own.due \ {d}]]
          PROVE  s5'[r].state \in {"over", "list"}
      BY <1>1, <3>2
    <3>3. QED
      BY <3>1, <3>2 DEF Runs!Commit
  <2>3. QED
    BY <2>1, <2>2 DEF Going
<1>7. QED
  BY <1>1, <1>3, <1>4, <1>5, <1>6 DEF RunsTyped, Runs!TypeOK

LEMMA AbortTypes ==
  ASSUME RunsInv, RunsTyped, NEW r \in Runners, Runs!Abort(r)
  PROVE  RunsTyped'
<1>1. UNCHANGED <<s2, s3, s6, s10>> /\ s4' = Runs!Released(r) /\ s5' = [s5 EXCEPT ![r] = [state |-> "over"]]
  BY DEF Runs!Abort
<1>2. s4' \in [Chats -> Runners \cup {0, None}]
  BY <1>1, ReleasedTypes
<1>3. \A q \in Runners : Going(q)' => Going(q) /\ s5'[q] = s5[q]
  BY <1>1 DEF Going, RunsInv
<1>4. QED
  BY <1>1, <1>2, <1>3 DEF RunsTyped, Runs!TypeOK

LEMMA OwnerTypes ==
  ASSUME RunsInv, RunsTyped,
         \/ \E c \in Chats, recover \in BOOLEAN : Runs!OwnerClaim(c, recover)
         \/ \E p \in DOMAIN s2 : Runs!OwnerCommit(p)
  PROVE  RunsTyped'
<1>1. ASSUME NEW c \in Chats, NEW recover \in BOOLEAN, Runs!OwnerClaim(c, recover) PROVE RunsTyped'
  <2>1. /\ UNCHANGED <<s2, s3, s5, s10>> /\ s4' = [s4 EXCEPT ![c] = 0]
        /\ s6' = [chat |-> c, recover |-> recover]
    BY <1>1 DEF Runs!OwnerClaim
  <2>2. s4' \in [Chats -> Runners \cup {0, None}] /\ s6'.recover \in BOOLEAN
    BY <2>1 DEF RunsTyped, Runs!TypeOK
  <2>3. QED
    BY <2>1, <2>2 DEF RunsTyped, Runs!TypeOK, Going
<1>2. ASSUME NEW p \in DOMAIN s2, Runs!OwnerCommit(p) PROVE RunsTyped'
  <2>1. /\ UNCHANGED <<s2, s5>> /\ s6' = None /\ s4' = Runs!Released(0) /\ s10' = s10 + 1 /\ s10 < MaxTicks
        /\ s6.chat \in Chats /\ s6.recover \in BOOLEAN
        /\ s3' = [Runs!Sorted(s6.chat, p, s10 + 1) EXCEPT ![s6.chat].locked = ~s6.recover]
    BY <1>2 DEF Runs!OwnerCommit, RunsInv, RunsTyped
  <2>2. s10' \in 0..MaxTicks
    BY <2>1, RunsAssumption DEF RunsTyped
  <2>3. s3' \in [Chats -> [pile : DOMAIN s2, locked : BOOLEAN, stamp : 0..MaxTicks]]
    <3>1. PICK locked : locked = ~s6.recover
      OBVIOUS
    <3>2. locked \in BOOLEAN
      BY <3>1
    <3>3. QED
      BY <2>1, <3>1, <3>2, SortedTypes
  <2>4. s4' \in [Chats -> Runners \cup {0, None}]
    BY <2>1, ReleasedTypes
  <2>5. QED
    BY <2>1, <2>2, <2>3, <2>4 DEF RunsTyped, Runs!TypeOK, Going
<1>3. QED
  BY <1>1, <1>2

LEMMA EditTypes ==
  ASSUME RunsInv, RunsTyped,
         \/ \E p \in UserPiles, config \in Configs : Runs!CreatePile(p, config)
         \/ \E p \in DOMAIN s2, config \in Configs \cup {None}, active \in BOOLEAN :
              Runs!UpdatePile(p, config, active)
         \/ \E p \in DOMAIN s2 : Runs!DeletePile(p)
  PROVE  RunsTyped'
<1>1. /\ BuiltIns \subseteq DOMAIN s2 /\ DOMAIN s2 \subseteq BuiltIns \cup UserPiles
      /\ \A p \in BuiltIns : s2[p].active
      /\ \A p \in DOMAIN s2 : s2[p] = [active |-> s2[p].active, config |-> s2[p].config, last |-> s2[p].last]
  BY DEF RunsTyped, Runs!TypeOK
<1>2. UNCHANGED <<s3, s4, s5, s6, s10>>
  BY DEF Runs!CreatePile, Runs!UpdatePile, Runs!DeletePile
<1>3. /\ DOMAIN s2 \subseteq DOMAIN s2' /\ DOMAIN s2' \subseteq BuiltIns \cup UserPiles
      /\ \A p \in DOMAIN s2' : s2'[p] = [active |-> s2'[p].active, config |-> s2'[p].config, last |-> s2'[p].last]
      /\ \A p \in BuiltIns : s2'[p].active
  <2>1. ASSUME NEW p \in UserPiles, NEW config \in Configs, Runs!CreatePile(p, config)
        PROVE  <1>3!:
    <3>1. PICK seed : seed = Runs!Seed
      OBVIOUS
    <3>2. PICK new : new = [seed EXCEPT !.config = config]
      OBVIOUS
    <3>3. /\ p \notin DOMAIN s2
          /\ s2' = [q \in DOMAIN s2 \cup {p} |-> IF q = p THEN new ELSE s2[q]]
      BY <2>1, <3>1, <3>2 DEF Runs!CreatePile
    <3>4. new = [active |-> new.active, config |-> new.config, last |-> new.last] /\ new.active
      <4>1. DOMAIN seed = {"active", "config", "last"} /\ seed.active
        BY <3>1 DEF Runs!Seed
      <4>2. DOMAIN new = {"active", "config", "last"} /\ new.active
            /\ new = [i \in DOMAIN seed |-> new[i]]
        BY <3>2, <4>1
      <4>3. QED
        BY <4>1, <4>2
    <3>5. QED
      BY <1>1, <3>3, <3>4
  <2>2. ASSUME NEW p \in DOMAIN s2, NEW config, NEW active \in BOOLEAN, Runs!UpdatePile(p, config, active)
        PROVE  <1>3!:
    <3>1. PICK kept, given, last :
            /\ kept = active
            /\ s2' = [s2 EXCEPT ![p].active = kept, ![p].config = given, ![p].last = last]
      BY <2>2 DEF Runs!UpdatePile
    <3>2. p \in BuiltIns => active
      BY <2>2 DEF Runs!UpdatePile
    <3>3. DOMAIN s2' = DOMAIN s2 /\ \A q \in DOMAIN s2 : q # p => s2'[q] = s2[q]
      BY <3>1
    <3>4. s2'[p] = [active |-> s2'[p].active, config |-> s2'[p].config, last |-> s2'[p].last]
      BY <1>1, <3>1
    <3>5. s2'[p].active = kept
      <4>1. s2[p] = [active |-> s2[p].active, config |-> s2[p].config, last |-> s2[p].last]
        BY <1>1
      <4>2. QED
        BY <3>1, <4>1
    <3>6. p \in BuiltIns => s2'[p].active
      BY <3>1, <3>2, <3>5, Zenon
    <3>7. QED
      BY <1>1, <3>3, <3>4, <3>6
  <2>3. ASSUME NEW p \in DOMAIN s2, Runs!DeletePile(p) PROVE <1>3!:
    <3>1. s2' = [s2 EXCEPT ![p].active = FALSE] /\ p \notin BuiltIns
      BY <2>3 DEF Runs!DeletePile
    <3>2. DOMAIN s2' = DOMAIN s2 /\ \A q \in DOMAIN s2 : q # p => s2'[q] = s2[q]
      BY <3>1
    <3>3. s2'[p] = [active |-> s2'[p].active, config |-> s2'[p].config, last |-> s2'[p].last]
      BY <1>1, <3>1
    <3>4. QED
      BY <1>1, <3>1, <3>2, <3>3
  <2>4. QED
    BY <2>1, <2>2, <2>3
<1>4. QED
  BY <1>2, <1>3, RunTypesGrow DEF Going

LEMMA RunTypesKeep == RunsInv /\ RunsTyped /\ Runs!Next => RunsTyped'
<1>. SUFFICES ASSUME RunsInv, RunsTyped, Runs!Next PROVE RunsTyped'
  OBVIOUS
<1>1. ASSUME NEW r \in Runners,
             \/ \E p \in DOMAIN s2 : Runs!RestructurePile(r, p)
             \/ Runs!RestructureAll(r) \/ Runs!RestructureDue(r) \/ Runs!NextDue(r)
      PROVE  RunsTyped'
  <2>1. PICK p, row, due : Runs!Begin(r, p, row, due)
    BY <1>1 DEF Runs!RestructurePile, Runs!RestructureAll, Runs!RestructureDue, Runs!NextDue
  <2>2. UNCHANGED <<s2, s3, s4, s6, s10>>
    BY <1>1 DEF Runs!RestructurePile, Runs!RestructureAll, Runs!RestructureDue, Runs!NextDue
  <2>3. QED
    BY <2>1, <2>2, BeginTypes
<1>2. ASSUME NEW r \in Runners,
             \/ Runs!Claim(r) \/ \E p \in DOMAIN s2 : Runs!Settle(r, p)
             \/ Runs!Commit(r) \/ Runs!Abort(r)
      PROVE  RunsTyped'
  BY <1>2, ClaimTypes, SettleTypes, CommitTypes, AbortTypes
<1>3. QED
  BY <1>1, <1>2, OwnerTypes, EditTypes DEF Runs!Next

------------------------------------------------------------------------------
(* Types of the pile pipeline.                                                *)

\* What a request knows and will commit.
RequestTyped(t) ==
  /\ t.pc \in Sorting!PCs /\ t.new \in [DOMAIN t.new -> Sorting!Rows]
  /\ t.pc = "loaded" => t.manual \in BOOLEAN
  /\ t.pc = "answering" => t.list \in Sorting!Todos
  /\ t.kind = "complete" =>
       /\ t.task.batch \in Sorting!Batches /\ t.list \in Sorting!Todos
       /\ t.task.source \in [Sessions -> 0..MaxSource] /\ t.task.pile \in [Sessions -> Piles]

SortTyped ==
  /\ s1 \in Engines /\ s2 \in Modes /\ s3 \in [Sessions -> Sorting!Rows]
  /\ s4 \in Sorting!Todos /\ s5 \in Sorting!Todos \cup {None} /\ s6 \in Sorting!Tasks \cup {None}
  /\ \A r \in Requests : Sorting!Busy(r) => RequestTyped(s7[r])

LEMMA SortTypesStart == Sorting!Init => SortTyped
<1>. SUFFICES ASSUME Sorting!Init PROVE SortTyped
  OBVIOUS
<1>1. /\ s1 \in Engines /\ s2 \in Modes /\ s4 = {} /\ s5 = None /\ s6 = None
      /\ s3 = [s \in Sessions |-> [source |-> 0, pending |-> FALSE, projection |-> FALSE,
                                   locked |-> FALSE, pile |-> None, derived |-> 0]]
      /\ \A r \in Requests : ~Sorting!Busy(r)
  BY DEF Sorting!Init, Sorting!Busy
<1>2. s3 \in [Sessions -> Sorting!Rows]
  BY <1>1, SortingAssumption DEF Sorting!Rows
<1>3. QED
  BY <1>1, <1>2 DEF SortTyped, Sorting!Todos

\* A step of one request, into a typed state.
LEMMA RequestTypes ==
  ASSUME SortInv, SortTyped, NEW r \in Requests, NEW t, s7' = [s7 EXCEPT ![r] = t],
         t = Sorting!Idle \/ RequestTyped(t),
         UNCHANGED <<s1, s2>>, s3' \in [Sessions -> Sorting!Rows], s4' \in Sorting!Todos,
         s5' \in Sorting!Todos \cup {None}, s6' \in Sorting!Tasks \cup {None}
  PROVE  SortTyped'
<1>1. s7'[r] = t /\ \A q \in Requests : q # r => s7'[q] = s7[q]
  BY DEF SortInv
<1>2. \A u : RequestTyped(u)' <=> RequestTyped(u)
  BY DEF RequestTyped, Sorting!PCs, Sorting!Rows, Sorting!Todos, Sorting!Batches
<1>3. \A q \in Requests : Sorting!Busy(q)' => RequestTyped(s7'[q])
  BY <1>1 DEF SortTyped, Sorting!Busy, Sorting!Idle
<1>4. \A q \in Requests : Sorting!Busy(q)' => RequestTyped(s7[q])'
  BY <1>3 DEF RequestTyped, Sorting!PCs, Sorting!Rows, Sorting!Todos, Sorting!Batches
<1>5. QED
  BY <1>4 DEF SortTyped, Sorting!Rows, Sorting!Todos, Sorting!Tasks, Sorting!Batches

\* Nothing is to be committed yet.
LEMMA NothingNew == <<>> \in [DOMAIN <<>> -> Sorting!Rows]
OBVIOUS

\* A row whose revision and flags are set.
LEMMA RowFlagged ==
  ASSUME NEW w \in Sorting!Rows, NEW source \in 0..MaxSource, NEW pending \in BOOLEAN, NEW projection \in BOOLEAN
  PROVE  [w EXCEPT !.source = source, !.pending = pending, !.projection = projection] \in Sorting!Rows
BY DEF Sorting!Rows

LEMMA CaptureTypes ==
  ASSUME SortInv, SortTyped, NEW r \in Requests, NEW s \in Sessions, NEW new \in BOOLEAN, NEW discard \in BOOLEAN,
         Sorting!Capture(r, s, new, discard)
  PROVE  SortTyped'
<1>1. PICK t : t = [pc |-> "captured", kind |-> "capture", session |-> s, discard |-> discard,
                    held |-> {}, new |-> <<>>]
  OBVIOUS
<1>2. RequestTyped(t)
  BY <1>1, NothingNew DEF RequestTyped, Sorting!PCs
<1>3. s7' = [s7 EXCEPT ![r] = t] /\ UNCHANGED <<s1, s2, s4, s5, s6>>
  BY <1>1 DEF Sorting!Capture
<1>4. s3' \in [Sessions -> Sorting!Rows]
  <2> DEFINE flagged == s3[s].projection \/ new \/ (discard /\ (s3[s].pending \/ ~Sorting!Discarded(s3[s])))
  <2>1. PICK source, pending, projection, w :
          /\ w = [s3[s] EXCEPT !.source = source, !.pending = pending, !.projection = projection]
          /\ source = (IF new THEN s3[s].source + 1 ELSE s3[s].source)
          /\ pending = (s3[s].pending \/ new) /\ projection = flagged
    OBVIOUS
  <2>2. pending \in BOOLEAN /\ projection \in BOOLEAN
    BY <2>1
  <2>3. source \in 0..MaxSource
    <3>1. s3[s].source \in 0..MaxSource
      BY DEF SortTyped, Sorting!Rows
    <3>2. new => s3[s].source < MaxSource
      BY DEF Sorting!Capture
    <3>3. QED
      BY <2>1, <3>1, <3>2, SortingAssumption
  <2>4. w \in Sorting!Rows
    BY <2>1, <2>2, <2>3, RowFlagged DEF SortTyped
  <2>5. s3' = [s3 EXCEPT ![s].source = IF new THEN @ + 1 ELSE @, ![s].pending = @ \/ new,
                 ![s].projection = @ \/ new \/ (discard /\ (s3[s].pending \/ ~Sorting!Discarded(s3[s])))]
    BY DEF Sorting!Capture
  <2>6. DOMAIN s3' = Sessions /\ s3'[s] = w /\ \A c \in Sessions : c # s => s3'[c] = s3[c]
    BY <2>1, <2>5 DEF SortInv
  <2>7. s3' = [c \in Sessions |-> s3'[c]]
    BY <2>5, <2>6
  <2>8. QED
    BY <2>4, <2>6, <2>7 DEF SortTyped
<1>5. QED
  BY <1>2, <1>3, <1>4, RequestTypes DEF SortTyped

LEMMA LoadTypes ==
  ASSUME SortInv, SortTyped, NEW r \in Requests, Sorting!Busy(r), Sorting!Load(r)
  PROVE  SortTyped'
<1> DEFINE s == s7[r].session
<1>1. PICK plan, manual, marked, held, t :
        /\ t = [pc |-> "loaded", kind |-> "capture", session |-> s, plan |-> plan, manual |-> manual,
                target |-> s3[s].pile, source |-> s3[s].source, marked |-> marked,
                held |-> held, new |-> <<>>]
        /\ manual = s3[s].locked
        /\ s7' = [s7 EXCEPT ![r] = t]
  BY DEF Sorting!Load
<1>2. s \in Sessions
  BY DEF SortInv, RequestSound, OneHolds, Sorting!Load, BatchHolds
<1>3. manual \in BOOLEAN
  BY <1>1, <1>2 DEF SortTyped, Sorting!Rows
<1>4. RequestTyped(t)
  BY <1>1, <1>3, NothingNew DEF RequestTyped, Sorting!PCs
<1>5. UNCHANGED <<s1, s2, s3, s4, s5, s6>>
  BY DEF Sorting!Load, Sorting!RequestStep
<1>6. QED
  BY <1>1, <1>4, <1>5, RequestTypes DEF SortTyped

LEMMA BeginTyped ==
  ASSUME SortInv, SortTyped, NEW r \in Requests, NEW s \in Sessions, NEW plan, NEW target,
         Sorting!Begin(r, s, plan, target)
  PROVE  SortTyped'
<1>1. PICK manual, t :
        /\ t = [pc |-> "loaded", kind |-> "owner", session |-> s, plan |-> plan, manual |-> manual,
                target |-> target, source |-> s3[s].source, marked |-> s3[s].projection,
                held |-> {}, new |-> <<>>]
        /\ manual = (plan # "recover")
        /\ s7' = [s7 EXCEPT ![r] = t]
  BY DEF Sorting!Begin
<1>2. manual \in BOOLEAN
  BY <1>1
<1>3. RequestTyped(t)
  BY <1>1, <1>2, NothingNew DEF RequestTyped, Sorting!PCs
<1>4. UNCHANGED <<s1, s2, s3, s4, s5, s6>>
  BY DEF Sorting!Begin, Sorting!RequestStep
<1>5. QED
  BY <1>1, <1>3, <1>4, RequestTypes DEF SortTyped

LEMMA RollbackTypes ==
  ASSUME SortInv, SortTyped, NEW r \in Requests, Sorting!Rollback(r)
  PROVE  SortTyped'
<1>1. s7' = [s7 EXCEPT ![r] = Sorting!Idle] /\ UNCHANGED <<s1, s2, s3, s4, s5, s6>>
  BY DEF Sorting!Rollback, Sorting!RequestStep
<1>2. QED
  BY <1>1, RequestTypes DEF SortTyped

LEMMA ClaimRowTypes ==
  ASSUME SortInv, SortTyped, NEW r \in Requests, NEW to \in Piles, NEW lists \in BOOLEAN,
         Sorting!Busy(r), Sorting!Claim(r, to, lists)
  PROVE  SortTyped'
<1> DEFINE s == s7[r].session
<1>1. PICK w, list, t :
        /\ t = [pc |-> "answering", kind |-> s7[r].kind, session |-> s, plan |-> "claimed",
                source |-> s7[r].source, held |-> {s}, new |-> [d \in {s} |-> w],
                lists |-> lists, list |-> list]
        /\ w = [s3[s] EXCEPT !.pile = to, !.pending = FALSE, !.locked = s7[r].manual, !.derived = s3[s].source]
        /\ list = IF lists THEN s4 ELSE {}
        /\ s7' = [s7 EXCEPT ![r] = t]
  BY DEF Sorting!Claim
<1>2. s \in Sessions /\ s7[r].kind # "complete" /\ s7[r].manual \in BOOLEAN
  BY DEF SortInv, RequestSound, OneHolds, BatchHolds, Sorting!Claim, SortTyped, RequestTyped
<1>3. w \in Sorting!Rows
  <2>1. PICK manual : manual = s7[r].manual
    OBVIOUS
  <2>2. s3[s] \in Sorting!Rows /\ manual \in BOOLEAN
    BY <1>2, <2>1 DEF SortTyped
  <2>3. QED
    BY <1>1, <2>1, <2>2 DEF Sorting!Rows
<1>4. list \in Sorting!Todos
  BY <1>1 DEF SortTyped, Sorting!Todos
<1>5. RequestTyped(t)
  BY <1>1, <1>2, <1>3, <1>4 DEF RequestTyped, Sorting!PCs
<1>6. UNCHANGED <<s1, s2, s3, s4, s5, s6>>
  BY DEF Sorting!Claim, Sorting!RequestStep
<1>7. QED
  BY <1>1, <1>5, <1>6, RequestTypes DEF SortTyped

\* What a request has sorted stays with it when it exports.
LEMMA ExportedTypes ==
  ASSUME SortInv, SortTyped, NEW r \in Requests, Sorting!Busy(r), s7[r].kind # "complete",
         Sorting!ExportOrRollback(r), UNCHANGED <<s1, s2, s3, s5, s6>>, s4' \in Sorting!Todos
  PROVE  SortTyped'
<1>1. PICK t : /\ t = Sorting!Idle \/ t = Sorting!Exported(r)
               /\ s7' = [s7 EXCEPT ![r] = t]
  <2>1. CASE Sorting!SourceChanged(r)
    BY <2>1 DEF Sorting!ExportOrRollback
  <2>2. CASE ~Sorting!SourceChanged(r)
    BY <2>2 DEF Sorting!ExportOrRollback
  <2>3. QED
    BY <2>1, <2>2
<1>2. CASE t = Sorting!Idle
  BY <1>1, <1>2, RequestTypes DEF SortTyped
<1>3. CASE t = Sorting!Exported(r)
  <2>1. t.pc = "exported" /\ t.kind = s7[r].kind /\ t.new = s7[r].new
    BY <1>3 DEF Sorting!Exported
  <2>2. RequestTyped(t)
    BY <2>1 DEF RequestTyped, SortTyped, Sorting!PCs
  <2>3. QED
    BY <1>1, <2>2, RequestTypes DEF SortTyped
<1>4. QED
  BY <1>1, <1>2, <1>3

LEMMA AnswerTypes ==
  ASSUME SortInv, SortTyped, NEW r \in Requests, Sorting!Busy(r), Sorting!Answer(r)
  PROVE  SortTyped'
<1>1. s7[r].pc = "answering"
  BY DEF Sorting!Answer
<1>2. s7[r].kind # "complete" /\ s7[r].session \in Sessions /\ s7[r].list \in Sorting!Todos
  BY <1>1 DEF SortInv, SortTyped, RequestSound, OneHolds, BatchHolds, RequestTyped
<1>3. CASE Sorting!Rollback(r)
  BY <1>3, RollbackTypes
<1>4. CASE ~Sorting!Rollback(r)
  <2>1. /\ s4' = IF s7[r].lists THEN s7[r].list \cup {s7[r].session} ELSE s4
        /\ Sorting!ExportOrRollback(r) /\ Sorting!RequestStep
    BY <1>4 DEF Sorting!Answer
  <2>2. s4' \in Sorting!Todos
    BY <1>2, <2>1 DEF SortTyped, Sorting!Todos
  <2>3. QED
    BY <1>2, <2>1, <2>2, ExportedTypes DEF Sorting!RequestStep
<1>5. QED
  BY <1>3, <1>4

LEMMA ExportTypes ==
  ASSUME SortInv, SortTyped, NEW r \in Requests, Sorting!Busy(r), Sorting!Export(r)
  PROVE  SortTyped'
<1>1. s7[r].kind # "complete"
  BY DEF Sorting!Export, SortInv, RequestSound, BatchHolds
<1>2. QED
  BY <1>1, ExportedTypes DEF Sorting!Export, Sorting!RequestStep, SortTyped

LEMMA LoseClaimTypes ==
  ASSUME SortInv, SortTyped, NEW r \in Requests, Sorting!Busy(r), Sorting!LoseClaim(r)
  PROVE  SortTyped'
<1>1. CASE Sorting!Rollback(r)
  BY <1>1, RollbackTypes
<1>2. CASE ~Sorting!Rollback(r)
  <2>1. PICK source, marked : s7' = [s7 EXCEPT ![r].plan = "none", ![r].source = source, ![r].marked = marked]
    <3>1. s7[r].plan = "recover"
      BY <1>2 DEF Sorting!LoseClaim
    <3>2. PICK s : s = s7[r].session
      OBVIOUS
    <3>3. s7' = [s7 EXCEPT ![r].plan = "none", ![r].source = s3[s].source, ![r].marked = s3[s].projection]
      BY <3>1, <3>2 DEF Sorting!LoseClaim
    <3>4. QED
      BY <3>3
  <2>2. PICK t : t = [s7[r] EXCEPT !.plan = "none", !.source = source, !.marked = marked]
    OBVIOUS
  <2>3. s7' = [s7 EXCEPT ![r] = t]
    BY <2>1, <2>2 DEF SortInv
  <2>4. RequestTyped(s7[r])
    BY DEF SortTyped
  <2>5. /\ t.pc = s7[r].pc /\ t.new = s7[r].new /\ t.manual = s7[r].manual /\ t.kind = s7[r].kind
        /\ t.pc = "loaded" /\ t.kind # "complete"
    <3>1. s7[r].pc = "loaded" /\ s7[r].kind # "complete" /\ OneHolds(r)
      BY DEF Sorting!LoseClaim, SortInv, RequestSound, BatchHolds
    <3>2. QED
      BY <2>2, <3>1 DEF OneHolds
  <2>6. RequestTyped(t)
    BY <2>4, <2>5 DEF RequestTyped
  <2>7. UNCHANGED <<s1, s2, s3, s4, s5, s6>>
    BY <1>2 DEF Sorting!LoseClaim, Sorting!RequestStep
  <2>8. QED
    BY <2>3, <2>6, <2>7, RequestTypes DEF SortTyped
<1>3. QED
  BY <1>1, <1>2

LEMMA CommitRowTypes ==
  ASSUME SortInv, SortTyped, NEW r \in Requests, Sorting!Busy(r), Sorting!Commit(r)
  PROVE  SortTyped'
<1> DEFINE s == s7[r].session
<1>1. PICK written : written = IF s \in DOMAIN s7[r].new THEN s7[r].new[s] ELSE s3[s]
  OBVIOUS
<1>2. PICK w : w = IF s7[r].clears THEN [written EXCEPT !.projection = FALSE] ELSE written
  OBVIOUS
<1>3. /\ s3' = [s3 EXCEPT ![s] = w] /\ s7' = [s7 EXCEPT ![r] = Sorting!Idle]
      /\ UNCHANGED <<s1, s2, s4, s5, s6>>
  BY <1>1, <1>2 DEF Sorting!Commit
<1>4. s \in Sessions
  BY DEF SortInv, RequestSound, OneHolds, Sorting!Commit
<1>5. written \in Sorting!Rows
  BY <1>1, <1>4 DEF SortTyped, RequestTyped
<1>6. w \in Sorting!Rows
  BY <1>2, <1>5 DEF Sorting!Rows
<1>7. s3' \in [Sessions -> Sorting!Rows]
  BY <1>3, <1>6 DEF SortTyped
<1>8. QED
  BY <1>3, <1>7, RequestTypes DEF SortTyped

LEMMA FetchTypes ==
  ASSUME SortInv, SortTyped, NEW batch \in Sorting!Batches, NEW to \in [Sessions -> Piles],
         Sorting!Fetch(batch, to)
  PROVE  SortTyped'
<1>1. PICK t : /\ t = [batch |-> batch, source |-> [s \in Sessions |-> s3[s].source], pile |-> to, list |-> s4]
               /\ s6' = t
  BY DEF Sorting!Fetch
<1>2. [s \in Sessions |-> s3[s].source] \in [Sessions -> 0..MaxSource]
  BY DEF SortTyped, Sorting!Rows
<1>3. t \in Sorting!Tasks
  BY <1>1, <1>2 DEF Sorting!Tasks, SortTyped
<1>4. UNCHANGED <<s1, s2, s3, s4, s5, s7>>
  BY DEF Sorting!Fetch, Sorting!tables
<1>5. QED
  BY <1>1, <1>3, <1>4 DEF SortTyped, Sorting!Busy, Sorting!Idle, RequestTyped, Sorting!PCs,
                          Sorting!Rows, Sorting!Todos, Sorting!Tasks, Sorting!Batches

LEMMA CompleteTypes ==
  ASSUME SortInv, SortTyped, NEW r \in Requests, Sorting!Complete(r)
  PROVE  SortTyped'
<1>1. s6 \in Sorting!Tasks
  BY DEF Sorting!Complete, SortTyped
<1>2. PICK list, own, held, t :
        /\ own = [s6 EXCEPT !.list = {}]
        /\ list = IF Sorting!WritesList(s6) THEN s6.list ELSE {}
        /\ t = [pc |-> "item", kind |-> "complete", task |-> own, next |-> 1, session |-> None,
                list |-> list, revision |-> list, held |-> held, new |-> <<>>]
        /\ s7' = [s7 EXCEPT ![r] = t]
  BY DEF Sorting!Complete
<1>3. list \in Sorting!Todos
  BY <1>1, <1>2 DEF Sorting!Tasks, Sorting!Todos
<1>4. own \in Sorting!Tasks
  BY <1>1, <1>2 DEF Sorting!Tasks, Sorting!Todos
<1>5. RequestTyped(t)
  <2>1. t.pc = "item" /\ t.kind = "complete" /\ t.task = own /\ t.list = list /\ t.new = <<>>
    BY <1>2
  <2>2. own.batch \in Sorting!Batches /\ own.source \in [Sessions -> 0..MaxSource]
        /\ own.pile \in [Sessions -> Piles]
    BY <1>4 DEF Sorting!Tasks
  <2>3. QED
    BY <1>3, <2>1, <2>2, NothingNew DEF RequestTyped, Sorting!PCs
<1>6. UNCHANGED <<s1, s2, s3, s4, s5, s6>>
  BY DEF Sorting!Complete, Sorting!RequestStep
<1>7. QED
  BY <1>2, <1>5, <1>6, RequestTypes DEF SortTyped

\* The row that an item of a batch will be.
LEMMA ItemRow ==
  ASSUME NEW w \in Sorting!Rows, NEW to \in Piles, NEW source \in 0..MaxSource
  PROVE  [w EXCEPT !.pile = to, !.pending = FALSE, !.locked = FALSE, !.derived = source] \in Sorting!Rows
BY DEF Sorting!Rows

LEMMA ApplyItemTypes ==
  ASSUME SortInv, SortTyped, NEW r \in Requests, Sorting!Busy(r), Sorting!ApplyItem(r)
  PROVE  SortTyped'
<1>1. PICK old : old = s7[r]
  OBVIOUS
<1>2. PICK s : s = old.task.batch[old.next]
  OBVIOUS
<1>3. PICK list : list = IF old.task.pile[s] = "todo" THEN old.list \cup {s} ELSE old.list
  OBVIOUS
<1>4. old.pc = "item" /\ old.kind = "complete" /\ BatchHolds(r) /\ RequestTyped(old)
  <2>1. s7[r].pc = "item"
    BY DEF Sorting!ApplyItem
  <2>2. RequestSound(r) /\ RequestTyped(s7[r])
    BY DEF SortInv, SortTyped
  <2>3. s7[r].kind = "complete"
    BY <2>1, <2>2 DEF RequestSound, OneHolds
  <2>4. QED
    BY <1>1, <2>1, <2>2, <2>3 DEF RequestSound
<1>5. s \in Sessions
  BY <1>1, <1>2, <1>4 DEF BatchHolds
<1>6. list \in Sorting!Todos
  BY <1>3, <1>4, <1>5 DEF RequestTyped, Sorting!Todos
<1>7. CASE Sorting!Rollback(r)
  BY <1>7, RollbackTypes
<1>8. CASE ~Sorting!Rollback(r)
  <2>1. /\ s4' = IF old.task.pile[s] = "todo" THEN list ELSE s4
        /\ s7' = [s7 EXCEPT ![r] = Sorting!Itemized(r, s, list)] /\ Sorting!RequestStep
    BY <1>1, <1>2, <1>3, <1>8 DEF Sorting!ApplyItem
  <2>2. s4' \in Sorting!Todos
    BY <1>6, <2>1 DEF SortTyped
  <2>3. PICK w : w = Sorting!ResultRow(r, s)
    OBVIOUS
  <2>4. w \in Sorting!Rows
    <3>1. old.task.pile[s] \in Piles /\ old.task.source[s] \in 0..MaxSource /\ s3[s] \in Sorting!Rows
      BY <1>4, <1>5 DEF RequestTyped, SortTyped
    <3>2. QED
      BY <1>1, <2>3, <3>1, ItemRow DEF Sorting!ResultRow
  <2>5. PICK new : new = [d \in DOMAIN old.new \cup {s} |-> IF d = s THEN w ELSE old.new[d]]
    OBVIOUS
  <2>6. new \in [DOMAIN new -> Sorting!Rows]
    BY <1>4, <2>4, <2>5 DEF RequestTyped
  <2>7. PICK t : t = Sorting!Itemized(r, s, list)
    OBVIOUS
  <2>8. /\ t.pc = "itemized" /\ t.kind = old.kind /\ t.list = list /\ t.task = old.task
        /\ t.new = new
    <3>1. old = [pc |-> old.pc, kind |-> old.kind, task |-> old.task, next |-> old.next,
                 session |-> old.session, list |-> old.list, revision |-> old.revision,
                 held |-> old.held, new |-> old.new]
      BY <1>1, <1>4 DEF BatchHolds
    <3>2. t = [old EXCEPT !.pc = "itemized", !.list = list, !.held = @ \cup {s},
                 !.new = [d \in DOMAIN @ \cup {s} |-> IF d = s THEN w ELSE @[d]]]
      BY <1>1, <2>3, <2>7 DEF Sorting!Itemized
    <3>3. QED
      BY <2>5, <3>1, <3>2
  <2>9. RequestTyped(t)
    BY <1>4, <1>6, <2>6, <2>8 DEF RequestTyped, Sorting!PCs
  <2>10. QED
    BY <2>1, <2>2, <2>7, <2>9, RequestTypes DEF SortTyped, Sorting!RequestStep
<1>9. QED
  BY <1>7, <1>8

LEMMA ExportItemTypes ==
  ASSUME SortInv, SortTyped, NEW r \in Requests, Sorting!Busy(r), Sorting!ExportItem(r)
  PROVE  SortTyped'
<1>1. PICK old : old = s7[r]
  OBVIOUS
<1>2. PICK revision, pc : /\ pc \in {"item", "exported"}
        /\ s7' = [s7 EXCEPT ![r].revision = revision, ![r].next = @ + 1, ![r].pc = pc]
  BY DEF Sorting!ExportItem
<1>3. PICK t : t = [old EXCEPT !.revision = revision, !.next = @ + 1, !.pc = pc]
  OBVIOUS
<1>4. s7' = [s7 EXCEPT ![r] = t]
  BY <1>1, <1>2, <1>3 DEF SortInv
<1>5. old.kind = "complete" /\ BatchHolds(r) /\ RequestTyped(old)
  <2>1. s7[r].pc = "itemized"
    BY DEF Sorting!ExportItem
  <2>2. RequestSound(r) /\ RequestTyped(s7[r])
    BY DEF SortInv, SortTyped
  <2>3. s7[r].kind = "complete"
    BY <2>1, <2>2 DEF RequestSound, OneHolds
  <2>4. QED
    BY <1>1, <2>2, <2>3 DEF RequestSound
<1>6. t.pc = pc /\ t.kind = old.kind /\ t.list = old.list /\ t.task = old.task /\ t.new = old.new
  BY <1>1, <1>3, <1>5 DEF BatchHolds
<1>7. RequestTyped(t)
  BY <1>2, <1>5, <1>6 DEF RequestTyped, Sorting!PCs
<1>8. UNCHANGED <<s1, s2, s3, s4, s5, s6>>
  BY DEF Sorting!ExportItem, Sorting!RequestStep
<1>9. QED
  BY <1>4, <1>7, <1>8, RequestTypes DEF SortTyped

LEMMA CommitBatchTypes ==
  ASSUME SortInv, SortTyped, NEW r \in Requests, Sorting!Busy(r), Sorting!CommitBatch(r)
  PROVE  SortTyped'
<1>1. /\ s3' = [s \in Sessions |-> IF s \in DOMAIN s7[r].new THEN s7[r].new[s] ELSE s3[s]]
      /\ s7' = [s7 EXCEPT ![r] = Sorting!Idle] /\ UNCHANGED <<s1, s2, s4, s5, s6>>
  BY DEF Sorting!CommitBatch
<1>2. RequestTyped(s7[r])
  BY DEF SortTyped
<1>3. s3' \in [Sessions -> Sorting!Rows]
  BY <1>1, <1>2 DEF SortTyped, RequestTyped
<1>4. QED
  BY <1>1, <1>3, RequestTypes DEF SortTyped

\* The requests as they were.
LEMMA NoRequestTypes ==
  ASSUME SortTyped, UNCHANGED <<s1, s2, s3, s7>>, s4' \in Sorting!Todos,
         s5' \in Sorting!Todos \cup {None}, s6' \in Sorting!Tasks \cup {None}
  PROVE  SortTyped'
BY DEF SortTyped, Sorting!Busy, Sorting!Idle, RequestTyped, Sorting!PCs,
       Sorting!Rows, Sorting!Todos, Sorting!Tasks, Sorting!Batches

LEMMA SortTypesKeep == ASSUME SortInv, SortTyped, Sorting!Next PROVE SortTyped'
<1>1. ASSUME NEW r \in Requests, Sorting!Busy(r), Sorting!Process(r) \/ Sorting!Fail(r)
      PROVE  SortTyped'
  BY <1>1, LoadTypes, ClaimRowTypes, LoseClaimTypes, AnswerTypes, ExportTypes, CommitRowTypes,
     ApplyItemTypes, ExportItemTypes, CommitBatchTypes, RollbackTypes DEF Sorting!Process, Sorting!Fail
<1>2. CASE Sorting!OwnerNext
  <2>1. ASSUME NEW r \in Requests, NEW s \in Sessions,
               \/ \E to \in Piles : Sorting!Assign(r, s, to)
               \/ Sorting!DiscardSession(r, s) \/ Sorting!Recover(r, s)
        PROVE  SortTyped'
    BY <2>1, BeginTyped DEF Sorting!Assign, Sorting!DiscardSession, Sorting!Recover
  <2>2. CASE Sorting!OpenList
    BY <2>2, NoRequestTypes DEF Sorting!OpenList, Sorting!tables, SortTyped
  <2>3. ASSUME NEW added \in SUBSET {Sorting!Owner}, Sorting!SaveList(added) PROVE SortTyped'
    <3>1. UNCHANGED <<s1, s2, s3, s6, s7>> /\ s5' = None /\ s5 # None
          /\ (s4' = s5 \cup added \/ s4' = s4)
      BY <2>3 DEF Sorting!SaveList
    <3>2. s4' \in Sorting!Todos
      BY <3>1 DEF SortTyped, Sorting!Todos
    <3>3. QED
      BY <3>1, <3>2, NoRequestTypes DEF SortTyped
  <2>4. QED
    BY <1>2, <2>1, <2>2, <2>3 DEF Sorting!OwnerNext
<1>3. CASE Sorting!ExtensionNext
  <2>1. CASE Sorting!DropTask
    BY <2>1, NoRequestTypes DEF Sorting!DropTask, Sorting!tables, SortTyped
  <2>2. QED
    BY <1>3, <2>1, FetchTypes, CompleteTypes DEF Sorting!ExtensionNext
<1>4. QED
  BY <1>1, <1>2, <1>3, CaptureTypes DEF Sorting!Next

\* The instance counts as the library does.
LEMMA SameSorting == \A S : Sorting!Cardinality(S) = Cardinality(S)
BY DEF Sorting!Cardinality, Cardinality

\* A set has one element at most if any two are the same.
LEMMA AtMostOne ==
  ASSUME NEW S, \A x, y \in S : x = y PROVE Cardinality(S) <= 1
<1>1. CASE S = {}
  BY <1>1, FS_EmptySet
<1>2. CASE S # {}
  <2>1. PICK x : x \in S
    BY <1>2
  <2>2. S = {x}
    BY <2>1
  <2>3. QED
    BY <2>2, FS_Singleton
<1>3. QED
  BY <1>1, <1>2

LEMMA SortTypesHold == SortInv /\ SortTyped => Sorting!TypeOK
<1>. SUFFICES ASSUME SortInv, SortTyped PROVE Sorting!TypeOK
  OBVIOUS
<1>1. ASSUME NEW r \in Requests, Sorting!Busy(r)
      PROVE  /\ s7[r].pc \in Sorting!PCs /\ s7[r].held \subseteq Sessions
             /\ DOMAIN s7[r].new \subseteq s7[r].held /\ s7[r].new \in [DOMAIN s7[r].new -> Sorting!Rows]
  BY <1>1 DEF SortInv, SortTyped, RequestSound, RequestTyped
<1>2. ASSUME NEW s \in Sessions PROVE Sorting!Cardinality(Sorting!Holders(s)) <= 1
  <2>1. \A p, q \in Sorting!Holders(s) : p = q
    BY DEF Sorting!Holders, SortInv, Apart
  <2>2. QED
    BY <2>1, AtMostOne, SameSorting
<1>3. s1 = "sqlite" => Sorting!Cardinality(Sorting!Writers) <= 1
  <2>1. s1 = "sqlite" => \A p, q \in Sorting!Writers : p = q
    BY DEF Sorting!Writers, SortInv, Apart
  <2>2. QED
    BY <2>1, AtMostOne, SameSorting
<1>4. QED
  BY <1>1, <1>2, <1>3 DEF Sorting!TypeOK, SortTyped

------------------------------------------------------------------------------
\* The types of the parts that change rows, with what they rest on.
RowsTyped ==
  /\ part = "sorting" => SortInv /\ SortTyped
  /\ part = "runs" => RunsInv /\ RunsTyped

LEMMA RowTypesStart == PilesInit => RowsTyped
BY SortStart, SortTypesStart, RunsStart, RunTypesStart DEF PilesInit, RowsTyped

LEMMA RowTypesKeep == ASSUME RowsTyped, PilesStep PROVE RowsTyped'
<1>1. CASE SortingNext
  BY <1>1, SortStep, SortTypesKeep DEF SortingNext, RowsTyped
<1>2. CASE RunsNext
  BY <1>2, RunsKeep, RunTypesKeep DEF RunsNext, RowsTyped
<1>3. CASE UNCHANGED <<part, vars, state>>
  <2>1. part' = part /\ UNCHANGED <<s1, s2, s3, s4, s5, s6, s7, s8, s9, s10>>
    BY <1>3 DEF state
  <2>2. ASSUME SortInv, SortTyped PROVE (SortInv /\ SortTyped)'
    <3>1. SortInv'
      BY <2>1, <2>2, NoRequestKeeps DEF SortInv, TaskHolds
    <3>2. SortTyped'
      BY <2>1, <2>2, NoRequestTypes DEF SortTyped
    <3>3. QED
      BY <3>1, <3>2
  <2>3. ASSUME RunsInv, RunsTyped PROVE (RunsInv /\ RunsTyped)'
    <3>1. RunsInv'
      BY <2>1, <2>3 DEF RunsInv, RunHolds, ReportHolds, ChatHolds, Going
    <3>2. RunsTyped'
      BY <2>1, <2>3 DEF RunsTyped, Runs!TypeOK, Going
    <3>3. QED
      BY <3>1, <3>2
  <2>4. QED
    BY <2>1, <2>2, <2>3 DEF RowsTyped
<1>4. CASE RoutingNext \/ GraphNext \/ ShelfNext \/ SearchNext \/ ListNext
  BY <1>4 DEF RoutingNext, GraphNext, ShelfNext, SearchNext, ListNext, RowsTyped
<1>5. QED
  BY <1>1, <1>2, <1>3, <1>4 DEF PilesStep

LEMMA RowTypesAlways ==
  PilesSpec => [](TypeOK /\ (part = "sorting" => Sorting!TypeOK) /\ (part = "runs" => Runs!TypeOK))
<1>1. RowsTyped /\ PilesStep => RowsTyped'
  BY RowTypesKeep
<1>2. RowsTyped /\ RoutingInv
        => TypeOK /\ (part = "sorting" => Sorting!TypeOK) /\ (part = "runs" => Runs!TypeOK)
  BY SortTypesHold DEF RowsTyped, RunsTyped, RoutingInv
<1>3. QED
  BY RowTypesStart, RoutingAlways, <1>1, <1>2, PTL DEF PilesSpec, PilesStep
=============================================================================
