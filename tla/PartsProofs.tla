---------------------------- MODULE PartsProofs -----------------------------
(***************************************************************************)
(* Theorems about parts that share no state: ArtifactCards, for any        *)
(* documents and anchors; StateGc, for any artifacts; AssetServing, for    *)
(* any sizes, clocks and numbers of saves; AnchorResolution, for any files,*)
(* insertions and limits.                                                  *)
(***************************************************************************)
EXTENDS MCParts, FiniteSetTheorems, TLAPS

----------------------------------------------------------------------------
(***************************************************************************)
(* The cards of an artifact.                                               *)
(***************************************************************************)

(* What can be asked, and what has been answered.                          *)
Snapshot ==
  {ComputeElementSnapshot(e) : e \in Element}
    \cup UNION {{SnapshotFromDispatchElement(e, a) : a \in Cited[e]} : e \in Element}

Asking == [parent : Nat, card : Nat, snapshot : Snapshot]

AnsweredInv ==
  /\ asked \in Seq(Asking) /\ Len(asked) <= MaxDispatches
  /\ answers \in Seq(Dispatches)
  /\ home \in [Dispatches -> Nat]
  /\ IsInjective(answers) /\ ToSet(answers) \subseteq DOMAIN asked

(* A card is begun by a dispatch that follows up nothing and is answered;  *)
(* its snapshot has the anchor of the answer.                              *)
WellOrdered(anchor) == anchor.start = 0 \/ anchor.start <= anchor.stop

CardsBegin ==
  /\ \A d \in ToSet(answers) : home[d] \in ToSet(answers) /\ asked[home[d]].parent = Nobody
  /\ \A d \in DOMAIN asked :
       /\ asked[d].snapshot.path \in {e.path : e \in Element}
       /\ asked[d].parent = Nobody => WellOrdered(asked[d].snapshot.anchor)

(* A follow-up names an answer that is on the card it was asked from.      *)
FollowUpsNameTheirCard ==
  \A d \in DOMAIN asked :
    /\ asked[d].parent # Nobody => asked[d].parent \in ToSet(answers)
    /\ asked[d].card # Nobody => /\ asked[d].parent \in ToSet(answers)
                                 /\ home[asked[d].parent] = asked[d].card

(* What a matched card knows, and why a card is in the drawer although its *)
(* element is there: another has its path.                                 *)
MatchedInv ==
  \A c \in DOMAIN matched :
    /\ matched[c].latest \in ToSet(answers) /\ home[matched[c].latest] = c
    /\ matched[c].element \in Element /\ matched[c].element \in synced[c]
    /\ Unchanged(c) # {} => matched[c].element \in Unchanged(c)

SharesItsPath(e, D) == \E f \in CollectCandidateElements(D) \ {e} : f.path = e.path

DrawerInv == \A c \in drawer : \A e \in Unchanged(c) : SharesItsPath(e, synced[c])

OverlayInv ==
  /\ doc \in Documents /\ synced \in [Dispatches -> Documents]
  /\ documents \in 1 .. MaxDocuments
  /\ presentation \in {"inline", "rail"}
  /\ shown \subseteq {home[d] : d \in ToSet(answers)}
  /\ drawer \cap DOMAIN matched = {}
  /\ drawer \cup DOMAIN matched = shown
  /\ DOMAIN floats = IF presentation = "rail" THEN {} ELSE DOMAIN matched
  /\ waiting \subseteq DOMAIN asked
  /\ \A c \in DOMAIN floats : floats[c] \cap waiting = {}

CardsInv ==
  AnsweredInv /\ CardsBegin /\ FollowUpsNameTheirCard /\ FollowUpStaysOnItsCard /\ MatchedInv
  /\ DrawerInv /\ OverlayInv

----------------------------------------------------------------------------
(* A set of positions has a last one: of the sets of those that come after *)
(* each, one has none below it.                                            *)
LEMMA HasLast ==
  ASSUME NEW k \in Nat, NEW S \in SUBSET (1 .. k), S # {}
  PROVE  Max(S) \in S /\ \A i \in S : Max(S) >= i
<1> DEFINE After(j) == {i \in S : i > j}
           T == {After(j) : j \in S}
<1>1. IsFiniteSet(S)
  <2>1. IsFiniteSet(1 .. k) BY FS_Interval
  <2> QED BY <2>1, FS_Subset
<1>2. PICK m \in T : \A n \in T : ~ <<n, m>> \in StrictSubsetOrdering(S)
  <2>1. T # {} OBVIOUS
  <2>2. T \subseteq FiniteSubsetsOf(S)
    BY <1>1, FS_Subset DEF FiniteSubsetsOf
  <2>3. IsWellFoundedOn(StrictSubsetOrdering(S), FiniteSubsetsOf(S))
    BY FS_StrictSubsetOrderingWellFounded
  <2> HIDE DEF T
  <2> QED BY <2>1, <2>2, <2>3, WFMin, Zenon
<1>3. PICK j \in S : m = After(j) OBVIOUS
<1>4. ASSUME NEW i \in S, i > j PROVE FALSE
  <2>1. After(i) \subseteq After(j) /\ i \in After(j) /\ i \notin After(i)
    <3>1. i \in Int /\ j \in Int /\ \A h \in S : h \in Int OBVIOUS
    <3>2. \A h \in Int : h > i => h > j BY <1>4, <3>1
    <3>3. ~ i > i BY <3>1
    <3> HIDE DEF T
    <3> QED BY <1>4, <3>1, <3>2, <3>3
  <2>2. <<After(i), m>> \in StrictSubsetOrdering(S) BY <1>3, <2>1 DEF StrictSubsetOrdering
  <2> QED BY <1>2, <2>2
<1>5. \A i \in S : j >= i BY <1>4
<1> QED BY <1>5 DEF Max

(* One more at the end.                                                    *)
LEMMA OneMore ==
  ASSUME NEW S, NEW s \in Seq(S), NEW e \in S
  PROVE  /\ Append(s, e) \in Seq(S) /\ Len(Append(s, e)) = Len(s) + 1
         /\ DOMAIN Append(s, e) = DOMAIN s \cup {Len(s) + 1}
         /\ Len(s) + 1 \notin DOMAIN s
         /\ \A i \in DOMAIN s : Append(s, e)[i] = s[i]
         /\ Append(s, e)[Len(s) + 1] = e
         /\ ToSet(Append(s, e)) = ToSet(s) \cup {e}
<1>1. /\ Append(s, e) \in Seq(S) /\ Len(Append(s, e)) = Len(s) + 1
      /\ DOMAIN s = 1 .. Len(s) /\ Len(s) \in Nat
      /\ DOMAIN Append(s, e) = 1 .. Len(s) + 1
      /\ \A i \in 1 .. Len(s) : Append(s, e)[i] = s[i]
      /\ Append(s, e)[Len(s) + 1] = e
  OBVIOUS
<1>2. DOMAIN Append(s, e) = DOMAIN s \cup {Len(s) + 1} /\ Len(s) + 1 \notin DOMAIN s BY <1>1
<1>3. ToSet(Append(s, e)) = ToSet(s) \cup {e} BY <1>1, <1>2 DEF ToSet
<1> QED BY <1>1, <1>2, <1>3

(* The cards of a store there has been are cards of the one there is.      *)
LEMMA StoresThereHaveBeen ==
  ASSUME answers \in Seq(Dispatches), NEW k \in 0 .. Len(answers)
  PROVE  /\ CardsAt(k) \subseteq {home[d] : d \in ToSet(answers)}
         /\ ToSet(SubSeq(answers, 1, k)) \subseteq ToSet(answers)
         /\ \A c \in CardsAt(k) : /\ Thread(c, k) \subseteq ToSet(SubSeq(answers, 1, k))
                                  /\ Newest(c, k) \in ToSet(answers) /\ home[Newest(c, k)] = c
<1>1. /\ k \in Nat /\ 1 .. k \subseteq DOMAIN answers /\ DOMAIN SubSeq(answers, 1, k) = 1 .. k
      /\ \A i \in 1 .. k : SubSeq(answers, 1, k)[i] = answers[i]
  OBVIOUS
<1>2. CardsAt(k) \subseteq {home[d] : d \in ToSet(answers)} BY <1>1 DEF CardsAt, ToSet
<1>3. ToSet(SubSeq(answers, 1, k)) \subseteq ToSet(answers) BY <1>1 DEF ToSet
<1>4. ASSUME NEW c \in CardsAt(k)
      PROVE  /\ Thread(c, k) \subseteq ToSet(SubSeq(answers, 1, k))
             /\ Newest(c, k) \in ToSet(answers) /\ home[Newest(c, k)] = c
  <2>1. Thread(c, k) \subseteq ToSet(SubSeq(answers, 1, k)) BY <1>1 DEF Thread, ThreadAt, ToSet
  <2>2. ThreadAt(c, k) # {} /\ ThreadAt(c, k) \subseteq 1 .. k BY DEF CardsAt, ThreadAt
  <2>3. Max(ThreadAt(c, k)) \in ThreadAt(c, k) BY <1>1, <2>2, HasLast
  <2> QED BY <1>1, <2>1, <2>3 DEF Newest, ThreadAt, ToSet
<1> QED BY <1>2, <1>3, <1>4

LEMMA AllCards ==
  ASSUME answers \in Seq(Dispatches)
  PROVE  CardsAt(Len(answers)) = {home[d] : d \in ToSet(answers)}
BY DEF CardsAt, ToSet

(* The first tier with one candidate.                                      *)
LEMMA FirstSingle ==
  ASSUME NEW A, NEW B, NEW C
  PROVE  LET tiers == <<A, B, C>>
             tier == SelectInSeq(tiers, LAMBDA candidates : Cardinality(candidates) = 1)
         IN  IF tier = 0 THEN Cardinality(C) # 1
                         ELSE tier \in 1 .. 3 /\ Cardinality(tiers[tier]) = 1
<1> DEFINE tiers == <<A, B, C>>
           I == {i \in 1 .. Len(tiers) : Cardinality(tiers[i]) = 1}
<1>1. I \subseteq 1 .. 3 OBVIOUS
<1>2. I # {} => Min(I) \in I
  <2> SUFFICES ASSUME I # {} PROVE \E x \in I : \A y \in I : x =< y
    BY DEF Min
  <2>1. \A i \in I : i = 1 \/ i = 2 \/ i = 3 BY <1>1
  <2> HIDE DEF I
  <2>2. CASE 1 \in I BY <2>1, <2>2
  <2>3. CASE 1 \notin I /\ 2 \in I BY <2>1, <2>3
  <2>4. CASE 1 \notin I /\ 2 \notin I BY <2>1, <2>4
  <2> QED BY <2>2, <2>3, <2>4
<1>3. SelectInSeq(tiers, LAMBDA candidates : Cardinality(candidates) = 1)
        = IF I # {} THEN Min(I) ELSE 0
  BY DEF SelectInSeq
<1>4. Cardinality(C) = 1 => 3 \in I OBVIOUS
<1> QED BY <1>1, <1>2, <1>3, <1>4

(* An element that is what it was keeps its card, or another has its path. *)
LEMMA KeepsItsElement ==
  ASSUME NEW D \in Documents, NEW before, WellOrdered(before.anchor)
  PROVE  LET C == CollectCandidateElements(D)
             found == MatchElement(before, C)
         IN  /\ found \subseteq C
             /\ \A e \in C : ComputeElementSnapshot(e) = before =>
                  IF found = {} THEN SharesItsPath(e, D) ELSE found = {e}
<1> DEFINE C == CollectCandidateElements(D)
           near == {e \in C : /\ before.anchor # NoAnchor /\ e.anchor # NoAnchor
                              /\ AnchorsOverlap(before.anchor, e.anchor)}
           alike == TextQuoteMatch(before, C)
           placed == {e \in C : e.path = before.path}
           tiers == <<near, alike, placed>>
           tier == SelectInSeq(tiers, LAMBDA candidates : Cardinality(candidates) = 1)
<1>0. IsFiniteSet(C)
  <2>1. C \subseteq D BY DEF CollectCandidateElements
  <2> QED BY <2>1, CardsAssumption, FS_Subset
<1> SUFFICES /\ MatchElement(before, C) \subseteq C
             /\ \A e \in C : ComputeElementSnapshot(e) = before =>
                  IF MatchElement(before, C) = {} THEN SharesItsPath(e, D)
                                                  ELSE MatchElement(before, C) = {e}
  OBVIOUS
<1>a. \A e : SharesItsPath(e, D) <=> \E f \in C \ {e} : f.path = e.path BY DEF SharesItsPath
<1> HIDE DEF C
<1>1. MatchElement(before, C) = IF tier = 0 THEN {} ELSE tiers[tier] BY DEF MatchElement
<1>2. near \subseteq C /\ alike \subseteq C /\ placed \subseteq C BY DEF TextQuoteMatch
<1>3. IF tier = 0 THEN Cardinality(placed) # 1
                  ELSE tier \in 1 .. 3 /\ Cardinality(tiers[tier]) = 1
  <2> HIDE DEF near, alike, placed
  <2> QED BY FirstSingle
<1>4. ASSUME NEW e \in C, ComputeElementSnapshot(e) = before
      PROVE  /\ Cardinality(near) # 1 \/ e \in near
             /\ e \in alike /\ e \in placed /\ before.path = e.path
  <2>1. /\ before.path = e.path /\ before.anchor = e.anchor
        /\ before.text = e.text /\ before.context = e.context
    BY <1>4 DEF ComputeElementSnapshot, SnapshotFromDispatchElement
  <2>2. CASE before.anchor = NoAnchor
    <3>1. near = {} BY <2>2
    <3>2. Cardinality(near) = 0 BY <3>1, FS_EmptySet
    <3> QED BY <2>1, <3>2 DEF TextQuoteMatch
  <2>3. CASE before.anchor # NoAnchor
    <3>1. AnchorsOverlap(before.anchor, e.anchor)
      BY <2>1 DEF AnchorsOverlap, WellOrdered
    <3> QED BY <2>1, <2>3, <3>1 DEF TextQuoteMatch
  <2> QED BY <2>2, <2>3
<1> HIDE DEF near, alike, placed, tier
<1>5. MatchElement(before, C) \subseteq C BY <1>1, <1>2, <1>3
<1>6. ASSUME NEW e \in C, ComputeElementSnapshot(e) = before, MatchElement(before, C) # {}
      PROVE  MatchElement(before, C) = {e}
  <2>1. tier \in 1 .. 3 /\ MatchElement(before, C) = tiers[tier] /\ Cardinality(tiers[tier]) = 1
    BY <1>1, <1>3, <1>6
  <2>2. e \in tiers[tier] BY <2>1, <1>4, <1>6
  <2>3. IsFiniteSet(tiers[tier]) BY <2>1, <1>0, <1>5, FS_Subset
  <2>4. PICK f : tiers[tier] = {f} BY <2>1, <2>3, FS_Singleton
  <2> QED BY <2>1, <2>2, <2>4
<1>7. ASSUME NEW e \in C, ComputeElementSnapshot(e) = before, MatchElement(before, C) = {}
      PROVE  SharesItsPath(e, D)
  <2>1. Cardinality(placed) # 1
    <3>1. CASE tier = 0 BY <1>3, <3>1
    <3>2. CASE tier # 0
      <4>1. tiers[tier] = {} /\ Cardinality(tiers[tier]) = 1 BY <1>1, <1>3, <1>7, <3>2
      <4> QED BY <4>1, FS_EmptySet
    <3> QED BY <3>1, <3>2
  <2>2. placed # {e}
    <3>1. Cardinality({e}) = 1 BY FS_Singleton
    <3> QED BY <2>1, <3>1
  <2>3. PICK f \in placed : f # e BY <1>4, <1>7, <2>2
  <2>4. f \in C /\ f.path = e.path BY <1>2, <1>4, <1>7, <2>3 DEF placed
  <2> QED BY <1>a, <2>3, <2>4
<1> QED BY <1>5, <1>6, <1>7

----------------------------------------------------------------------------
LEMMA CardsInitInv == CardsInit => CardsInv
<1> SUFFICES ASSUME CardsInit PROVE CardsInv
  OBVIOUS
<1>1. AnsweredInv /\ ToSet(answers) = {} /\ DOMAIN asked = {}
  <2>1. asked = <<>> /\ answers = <<>> /\ home = [d \in Dispatches |-> Nobody] BY DEF CardsInit
  <2>2. asked \in Seq(Asking) /\ Len(asked) = 0 BY <2>1
  <2>3. answers \in Seq(Dispatches) /\ DOMAIN asked = {} /\ DOMAIN answers = {} BY <2>1
  <2>4. home \in [Dispatches -> Nat] BY <2>1 DEF Nobody
  <2> QED BY <2>2, <2>3, <2>4, CardsAssumption DEF AnsweredInv, IsInjective, ToSet
<1>2. DOMAIN matched = {} /\ DOMAIN floats = {} BY DEF CardsInit
<1>3. OverlayInv BY <1>1, <1>2, CardsAssumption DEF CardsInit, OverlayInv
<1> QED
  BY <1>1, <1>2, <1>3
  DEF CardsInv, CardsBegin, FollowUpsNameTheirCard, FollowUpStaysOnItsCard, MatchedInv, DrawerInv,
      CardsInit

(* A question changes nothing but the list of questions.                   *)
Asks(entry) ==
  /\ Len(asked) < MaxDispatches
  /\ asked' = Append(asked, entry)
  /\ UNCHANGED <<doc, documents, answers, home, overlay>>

LEMMA AskedStep ==
  ASSUME CardsInv, NEW entry \in Asking, Asks(entry),
         entry.snapshot.path \in {e.path : e \in Element},
         entry.parent = Nobody => WellOrdered(entry.snapshot.anchor),
         entry.parent # Nobody => entry.parent \in ToSet(answers),
         entry.card # Nobody => /\ entry.parent \in ToSet(answers)
                                /\ home[entry.parent] = entry.card
  PROVE  CardsInv'
<1>1. /\ asked' \in Seq(Asking) /\ Len(asked') = Len(asked) + 1 /\ Len(asked) \in Nat
      /\ DOMAIN asked' = DOMAIN asked \cup {Len(asked) + 1}
      /\ Len(asked) + 1 \notin DOMAIN asked
      /\ \A i \in DOMAIN asked : asked'[i] = asked[i]
      /\ asked'[Len(asked) + 1] = entry
  BY OneMore DEF Asks, CardsInv, AnsweredInv
<1>2. /\ answers' = answers /\ home' = home /\ ToSet(answers)' = ToSet(answers)
      /\ doc' = doc /\ documents' = documents /\ presentation' = presentation /\ floats' = floats
      /\ waiting' = waiting /\ drawer' = drawer /\ matched' = matched /\ shown' = shown
      /\ synced' = synced
  BY DEF Asks, overlay, ToSet
<1>3. /\ ToSet(answers) \subseteq DOMAIN asked
      /\ \A d \in ToSet(answers) : home[d] \in ToSet(answers)
  BY DEF CardsInv, AnsweredInv, CardsBegin
<1>4. AnsweredInv'
  <2>1. Len(asked') <= MaxDispatches BY <1>1, CardsAssumption DEF Asks
  <2> QED BY <1>1, <1>2, <2>1 DEF CardsInv, AnsweredInv
<1>5. CardsBegin' BY <1>1, <1>2, <1>3 DEF CardsInv, CardsBegin
<1>6. FollowUpsNameTheirCard' BY <1>1, <1>2, <1>3 DEF CardsInv, FollowUpsNameTheirCard
<1>7. FollowUpStaysOnItsCard'
  BY <1>1, <1>2, <1>3 DEF CardsInv, FollowUpStaysOnItsCard
<1>8. MatchedInv' /\ DrawerInv'
  <2>1. \A c \in DOMAIN matched \cup drawer : c \in DOMAIN asked
    BY <1>3 DEF CardsInv, OverlayInv
  <2>2. \A c \in DOMAIN matched \cup drawer : Unchanged(c)' = Unchanged(c)
    BY <1>1, <1>2, <2>1 DEF Unchanged
  <2> QED BY <1>1, <1>2, <2>2 DEF CardsInv, MatchedInv, DrawerInv
<1>9. OverlayInv' BY <1>1, <1>2 DEF CardsInv, OverlayInv
<1> QED BY <1>4, <1>5, <1>6, <1>7, <1>8, <1>9 DEF CardsInv

LEMMA AskStep ==
  ASSUME CardsInv, NEW e \in doc, NEW anchor \in Cited[e], Ask(e, anchor)
  PROVE  CardsInv'
<1> DEFINE entry == [parent |-> Nobody, card |-> Nobody,
                     snapshot |-> SnapshotFromDispatchElement(e, anchor)]
<1>1. doc \in Documents /\ e \in Element BY DEF CardsInv, OverlayInv, Element
<1>2. entry \in Asking BY <1>1 DEF Asking, Snapshot, Nobody
<1>3. entry.snapshot.path \in {f.path : f \in Element} BY <1>1 DEF SnapshotFromDispatchElement
<1>4. WellOrdered(entry.snapshot.anchor)
  BY <1>1, CardsAssumption DEF SnapshotFromDispatchElement, WellOrdered
<1>5. entry.parent = Nobody /\ entry.card = Nobody OBVIOUS
<1>6. Asks(entry) BY DEF Ask, Asks
<1> HIDE DEF entry
<1> QED BY <1>2, <1>3, <1>4, <1>5, <1>6, AskedStep

LEMMA AskFollowUpStep ==
  ASSUME CardsInv, NEW c \in Dispatches, AskFollowUp(c)
  PROVE  CardsInv'
<1> DEFINE entry == FollowUp(c)
<1>1. c \in DOMAIN matched BY DEF AskFollowUp
<1>2. /\ matched[c].latest \in ToSet(answers) /\ home[matched[c].latest] = c
      /\ matched[c].element \in Element
  BY <1>1 DEF CardsInv, MatchedInv
<1>3. matched[c].latest \in Dispatches /\ c \in Nat
  <2>1. answers \in Seq(Dispatches) BY DEF CardsInv, AnsweredInv
  <2>2. matched[c].latest \in Dispatches BY <1>2, <2>1 DEF ToSet
  <2> QED BY <2>2, CardsAssumption DEF Dispatches
<1>4. entry \in Asking /\ entry.parent # Nobody
  BY <1>2, <1>3, CardsAssumption DEF FollowUp, Asking, Snapshot, Dispatches, Nobody
<1>5. /\ entry.parent = matched[c].latest /\ entry.card = c
      /\ entry.snapshot.path = matched[c].element.path
  BY DEF FollowUp, ComputeElementSnapshot, SnapshotFromDispatchElement
<1>6. Asks(entry) BY DEF AskFollowUp, Asks
<1> HIDE DEF entry
<1> QED BY <1>2, <1>4, <1>5, <1>6, AskedStep

(* An answer: its card is there, or begins with it.                        *)
LEMMA AnsweredStep ==
  ASSUME CardsInv, NEW d \in Dispatches, Answered(d)
  PROVE  CardsInv'
<1>1. d \in DOMAIN asked /\ d \notin ToSet(answers) BY DEF Answered
<1>2. /\ answers' \in Seq(Dispatches) /\ ToSet(answers)' = ToSet(answers) \cup {d}
      /\ DOMAIN answers' = DOMAIN answers \cup {Len(answers) + 1}
      /\ \A i \in DOMAIN answers : answers'[i] = answers[i]
      /\ answers'[Len(answers) + 1] = d
  BY OneMore DEF Answered, CardsInv, AnsweredInv
<1>3. /\ asked' = asked
      /\ doc' = doc /\ documents' = documents /\ presentation' = presentation /\ floats' = floats
      /\ waiting' = waiting /\ drawer' = drawer /\ matched' = matched /\ shown' = shown
      /\ synced' = synced
  BY DEF Answered, overlay
<1>4. /\ home' \in [Dispatches -> Nat] /\ home'[d] = CardOf(d)
      /\ \A a \in ToSet(answers) : home'[a] = home[a]
  <2>1. ToSet(answers) \subseteq Dispatches BY DEF CardsInv, AnsweredInv, ToSet
  <2>2. CardOf(d) \in Nat
    BY <2>1, CardsAssumption DEF CardOf, CardsInv, AnsweredInv, Dispatches
  <2> QED BY <1>1, <2>1, <2>2 DEF Answered, CardsInv, AnsweredInv
<1>5. \/ /\ asked[d].parent \in ToSet(answers) /\ CardOf(d) = home[asked[d].parent]
      \/ /\ asked[d].parent = Nobody /\ CardOf(d) = d
  BY <1>1 DEF CardOf, CardsInv, FollowUpsNameTheirCard
<1>6. /\ \A a \in ToSet(answers) : home[a] \in ToSet(answers) /\ asked[home[a]].parent = Nobody
      /\ ToSet(answers) \subseteq DOMAIN asked
  BY DEF CardsInv, CardsBegin, AnsweredInv
<1>7. AnsweredInv'
  <2>1. IsInjective(answers')
    BY <1>1, <1>2 DEF CardsInv, AnsweredInv, IsInjective, ToSet
  <2> QED BY <1>1, <1>2, <1>3, <1>4, <2>1 DEF CardsInv, AnsweredInv
<1>8. CardsBegin' BY <1>2, <1>3, <1>4, <1>5, <1>6 DEF CardsInv, CardsBegin
<1>9. FollowUpsNameTheirCard' BY <1>2, <1>3, <1>4 DEF CardsInv, FollowUpsNameTheirCard
<1>10. FollowUpStaysOnItsCard'
  <2>1. asked[d].card # Nobody => CardOf(d) = asked[d].card
    <3>1. 0 \notin ToSet(answers) BY DEF CardsInv, AnsweredInv, ToSet, Dispatches
    <3> QED BY <1>1, <1>5, <3>1 DEF CardsInv, FollowUpsNameTheirCard, Nobody
  <2> QED BY <1>2, <1>3, <1>4, <2>1 DEF CardsInv, FollowUpStaysOnItsCard
<1>11. MatchedInv' /\ DrawerInv'
  <2>1. \A c : Unchanged(c)' = Unchanged(c) BY <1>3 DEF Unchanged
  <2> QED BY <1>2, <1>3, <1>4, <2>1 DEF CardsInv, MatchedInv, DrawerInv
<1>12. OverlayInv' BY <1>2, <1>3, <1>4 DEF CardsInv, OverlayInv
<1> QED BY <1>7, <1>8, <1>9, <1>10, <1>11, <1>12 DEF CardsInv

(* What arrives in the artifact, and what the artifact becomes, leaves the *)
(* store as it is.                                                         *)
LEMMA StoreStays ==
  ASSUME CardsInv, UNCHANGED store, MatchedInv', DrawerInv', OverlayInv'
  PROVE  CardsInv'
BY DEF CardsInv, AnsweredInv, CardsBegin, FollowUpsNameTheirCard, FollowUpStaysOnItsCard, store,
       ToSet

(* A card that is looked for in the document of the moment.                *)
LEMMA LookedFor ==
  ASSUME CardsInv, NEW c \in ToSet(answers), asked[c].parent = Nobody,
         asked'[c] = asked[c], synced'[c] = doc
  PROVE  LET found == MatchElement(asked[c].snapshot, CollectCandidateElements(doc))
         IN  /\ found \subseteq doc
             /\ \A e \in Unchanged(c)' : IF found = {} THEN SharesItsPath(e, doc)
                                                       ELSE found = {e}
<1> DEFINE C == CollectCandidateElements(doc)
           found == MatchElement(asked[c].snapshot, C)
<1>1. doc \in Documents /\ WellOrdered(asked[c].snapshot.anchor)
  BY DEF CardsInv, OverlayInv, CardsBegin, AnsweredInv
<1>2. /\ found \subseteq C
      /\ \A e \in C : ComputeElementSnapshot(e) = asked[c].snapshot =>
           IF found = {} THEN SharesItsPath(e, doc) ELSE found = {e}
  BY <1>1, KeepsItsElement
<1>3. C \subseteq doc BY DEF CollectCandidateElements
<1>4. Unchanged(c)' = {e \in C : ComputeElementSnapshot(e) = asked[c].snapshot}
  BY DEF Unchanged, CollectCandidateElements, ComputeElementSnapshot, SnapshotFromDispatchElement,
         NoAnchor
<1> HIDE DEF C, found
<1>5. /\ found \subseteq doc
      /\ \A e \in Unchanged(c)' : IF found = {} THEN SharesItsPath(e, doc) ELSE found = {e}
  BY <1>2, <1>3, <1>4
<1> QED BY <1>5 DEF C, found

LEMMA SyncStep ==
  ASSUME CardsInv, NEW k \in 0 .. Len(answers), Sync(k)
  PROVE  CardsInv'
<1> DEFINE Match(c) == MatchElement(asked[c].snapshot, CollectCandidateElements(doc))
           at == [c \in CardsAt(k) |-> Match(c)]
           found == {c \in CardsAt(k) : at[c] # {}}
           lost == CardsAt(k) \ found
           anyOf(c) == CHOOSE e \in at[c] : TRUE
<1>1. /\ SyncWith(k, at) /\ RemovePending(k) /\ shown' = shown \cup CardsAt(k)
      /\ synced' = [c \in Dispatches |-> IF c \in CardsAt(k) THEN doc ELSE synced[c]]
      /\ doc' = doc /\ documents' = documents /\ presentation' = presentation
      /\ asked' = asked /\ answers' = answers /\ home' = home /\ UNCHANGED store
  BY DEF Sync, store
<1>2. /\ CardsAt(k) \subseteq {home[d] : d \in ToSet(answers)}
      /\ ToSet(SubSeq(answers, 1, k)) \subseteq ToSet(answers)
      /\ \A c \in CardsAt(k) : /\ Thread(c, k) \subseteq ToSet(SubSeq(answers, 1, k))
                               /\ Newest(c, k) \in ToSet(answers) /\ home[Newest(c, k)] = c
  BY StoresThereHaveBeen DEF CardsInv, AnsweredInv
<1>3. /\ DOMAIN matched' = (DOMAIN matched \ lost) \cup found
      /\ \A c \in found : matched'[c] = [element |-> anyOf(c), latest |-> Newest(c, k)]
      /\ \A c \in DOMAIN matched \ CardsAt(k) : matched'[c] = matched[c]
      /\ drawer' = (drawer \ found) \cup lost
      /\ floats' = Floats(found, lost, k)
  <2> HIDE DEF at
  <2> QED BY <1>1 DEF SyncWith, Drawer
<1>4. ToSet(answers)' = ToSet(answers) BY <1>1 DEF ToSet
<1>4a. ToSet(answers) \subseteq Dispatches /\ ToSet(answers) \subseteq DOMAIN asked
  BY DEF CardsInv, AnsweredInv, ToSet
<1>4b. ASSUME NEW c \in CardsAt(k)
       PROVE  /\ synced'[c] = doc /\ at[c] = Match(c) /\ at[c] \subseteq doc
              /\ \A e \in Unchanged(c)' : IF at[c] = {} THEN SharesItsPath(e, doc)
                                                        ELSE at[c] = {e}
  <2>1. c \in ToSet(answers) /\ asked[c].parent = Nobody
    BY <1>2 DEF CardsInv, CardsBegin
  <2>2. synced'[c] = doc BY <1>1, <1>4a, <2>1
  <2>3. at[c] = Match(c) OBVIOUS
  <2>4. asked'[c] = asked[c] BY <1>1
  <2>5. /\ Match(c) \subseteq doc
        /\ \A e \in Unchanged(c)' : IF Match(c) = {} THEN SharesItsPath(e, doc)
                                                     ELSE Match(c) = {e}
    BY <2>1, <2>2, <2>4, LookedFor
  <2> HIDE DEF Match, at
  <2> QED BY <2>2, <2>3, <2>5
<1>4c. ASSUME NEW c \in (DOMAIN matched \cup drawer) \ CardsAt(k)
       PROVE  synced'[c] = synced[c] /\ Unchanged(c)' = Unchanged(c)
  <2>1. c \in Dispatches BY <1>4a DEF CardsInv, OverlayInv, CardsBegin
  <2>2. synced'[c] = synced[c] BY <1>1, <2>1
  <2> QED BY <1>1, <2>2 DEF Unchanged
<1> HIDE DEF at
<1>5. MatchedInv'
  <2> SUFFICES ASSUME NEW c \in DOMAIN matched'
               PROVE  /\ matched'[c].latest \in ToSet(answers) /\ home[matched'[c].latest] = c
                      /\ matched'[c].element \in Element /\ matched'[c].element \in synced'[c]
                      /\ Unchanged(c)' # {} => matched'[c].element \in Unchanged(c)'
    BY <1>1, <1>4 DEF MatchedInv
  <2>1. CASE c \in found
    <3>1. c \in CardsAt(k) /\ at[c] # {} BY <2>1
    <3>2. matched'[c] = [element |-> anyOf(c), latest |-> Newest(c, k)] BY <1>3, <2>1
    <3>3. anyOf(c) \in at[c] BY <3>1
    <3> HIDE DEF anyOf
    <3>4. /\ matched'[c].element = anyOf(c)
          /\ matched'[c].latest \in ToSet(answers) /\ home[matched'[c].latest] = c
      BY <1>2, <3>1, <3>2
    <3>5. doc \subseteq Element BY DEF Element, CardsInv, OverlayInv
    <3>6. anyOf(c) \in Element /\ anyOf(c) \in synced'[c] BY <1>4b, <3>1, <3>3, <3>5
    <3>7. \A e \in Unchanged(c)' : anyOf(c) = e BY <1>4b, <3>1, <3>3
    <3> QED BY <3>4, <3>6, <3>7
  <2>2. CASE c \notin found
    <3>1. c \in DOMAIN matched \ CardsAt(k) BY <1>3, <2>2
    <3>2. matched'[c] = matched[c] BY <1>3, <3>1
    <3> QED BY <1>4c, <3>1, <3>2 DEF CardsInv, MatchedInv
  <2> QED BY <2>1, <2>2
<1>5a. DrawerInv'
  <2> SUFFICES ASSUME NEW c \in drawer', NEW e \in Unchanged(c)'
               PROVE  SharesItsPath(e, synced'[c])
    BY DEF DrawerInv, SharesItsPath, CollectCandidateElements, NoAnchor
  <2>1. CASE c \in CardsAt(k)
    <3>1. at[c] = {} BY <1>3, <2>1
    <3> QED BY <1>4b, <2>1, <3>1
  <2>2. CASE c \notin CardsAt(k)
    <3>1. c \in drawer BY <1>3, <2>2
    <3> QED BY <1>4c, <2>2, <3>1 DEF CardsInv, DrawerInv
  <2> QED BY <2>1, <2>2
<1>6. OverlayInv'
  <2>1. found \subseteq CardsAt(k) OBVIOUS
  <2>2. waiting' = waiting \ ToSet(SubSeq(answers, 1, k)) BY <1>1 DEF RemovePending
  <2>3. synced' \in [Dispatches -> Documents]
    BY <1>1 DEF CardsInv, OverlayInv
  <2>4. shown' \subseteq {home[d] : d \in ToSet(answers)} BY <1>1, <1>2 DEF CardsInv, OverlayInv
  <2>5. /\ drawer' \cap DOMAIN matched' = {}
        /\ drawer' \cup DOMAIN matched' = shown'
    <3> HIDE DEF found
    <3> QED BY <1>1, <1>3, <2>1 DEF CardsInv, OverlayInv
  <2>6. DOMAIN floats' = IF presentation' = "rail" THEN {} ELSE DOMAIN matched'
    <3> HIDE DEF found
    <3> QED BY <1>1, <1>3, <2>1 DEF CardsInv, OverlayInv, Floats
  <2>7. \A c \in DOMAIN floats' : floats'[c] \cap waiting' = {}
    <3> HIDE DEF found
    <3>1. ASSUME NEW d \in DOMAIN floats'
          PROVE  (d \in CardsAt(k) /\ floats'[d] = Thread(d, k))
                   \/ (d \in DOMAIN floats /\ floats'[d] = floats[d])
      <4> DEFINE drawn == IF presentation = "rail" THEN {} ELSE found
                 kept == DOMAIN floats \ (found \cup lost)
      <4>1. floats' = [x \in kept \cup drawn |->
                         IF x \in drawn THEN Thread(x, k) ELSE floats[x]]
        BY <1>3 DEF Floats
      <4>2. drawn \subseteq CardsAt(k) /\ kept \subseteq DOMAIN floats BY <2>1
      <4> HIDE DEF drawn, kept
      <4>3. DOMAIN floats' = kept \cup drawn BY <4>1
      <4>4. \A x \in drawn : floats'[x] = Thread(x, k) BY <4>1
      <4>5. \A x \in kept \ drawn : floats'[x] = floats[x] BY <4>1
      <4> QED BY <4>2, <4>3, <4>4, <4>5
    <3> QED BY <1>2, <2>2, <3>1 DEF CardsInv, OverlayInv
  <2> HIDE DEF found
  <2> QED BY <1>1, <1>4, <2>2, <2>3, <2>4, <2>5, <2>6, <2>7 DEF CardsInv, OverlayInv
<1> QED BY <1>1, <1>5, <1>5a, <1>6, StoreStays

LEMMA OverlayStep ==
  ASSUME CardsInv,
         \/ PresentationArrives
         \/ \E d \in Dispatches : CreatedArrives(d)
         \/ \E D \in Documents : DocumentChanges(D) \/ FrameReloads(D)
  PROVE  CardsInv'
<1>1. CASE PresentationArrives
  <2>1. UNCHANGED store /\ ToSet(answers)' = ToSet(answers)
    BY <1>1 DEF PresentationArrives, store, ToSet
  <2>2. MatchedInv' /\ DrawerInv'
    BY <1>1, <2>1 DEF PresentationArrives, MatchedInv, DrawerInv, Unchanged, CardsInv, store
  <2>3. OverlayInv' BY <1>1, <2>1 DEF PresentationArrives, OverlayInv, CardsInv, store
  <2> QED BY <2>1, <2>2, <2>3, StoreStays
<1>2. ASSUME NEW d \in Dispatches, CreatedArrives(d) PROVE CardsInv'
  <2>1. UNCHANGED store /\ ToSet(answers)' = ToSet(answers)
    BY <1>2 DEF CreatedArrives, store, ToSet
  <2>2. MatchedInv' /\ DrawerInv'
    BY <1>2, <2>1 DEF CreatedArrives, MatchedInv, DrawerInv, Unchanged, CardsInv, store
  <2>3. OverlayInv' BY <1>2, <2>1 DEF CreatedArrives, OverlayInv, CardsInv, store
  <2> QED BY <2>1, <2>2, <2>3, StoreStays
<1>3. ASSUME NEW D \in Documents, DocumentChanges(D) PROVE CardsInv'
  <2>1. UNCHANGED store /\ UNCHANGED overlay /\ ToSet(answers)' = ToSet(answers)
    BY <1>3 DEF DocumentChanges, store, ToSet
  <2>2. MatchedInv' /\ DrawerInv'
    BY <2>1 DEF MatchedInv, DrawerInv, Unchanged, CardsInv, store, overlay
  <2>3. documents' \in 1 .. MaxDocuments /\ doc' \in Documents
    BY <1>3, CardsAssumption DEF DocumentChanges, CardsInv, OverlayInv
  <2>4. OverlayInv' BY <2>1, <2>3 DEF OverlayInv, CardsInv, store, overlay
  <2> QED BY <2>1, <2>2, <2>4, StoreStays
<1>4. ASSUME NEW D \in Documents, FrameReloads(D) PROVE CardsInv'
  <2>1. UNCHANGED store /\ ToSet(answers)' = ToSet(answers)
    BY <1>4 DEF FrameReloads, store, ToSet
  <2>2. DOMAIN matched' = {} /\ DOMAIN floats' = {} BY <1>4 DEF FrameReloads
  <2>3. MatchedInv' /\ DrawerInv' BY <1>4, <2>2 DEF MatchedInv, DrawerInv, FrameReloads
  <2>4. documents' \in 1 .. MaxDocuments /\ doc' \in Documents
    BY <1>4, CardsAssumption DEF FrameReloads, CardsInv, OverlayInv
  <2>5. OverlayInv' BY <1>4, <2>2, <2>4 DEF FrameReloads, OverlayInv
  <2> QED BY <2>1, <2>3, <2>5, StoreStays
<1> QED BY <1>1, <1>2, <1>3, <1>4

LEMMA CardsStep == CardsInv /\ [CardsNext]_cardVars => CardsInv'
<1> SUFFICES ASSUME CardsInv, [CardsNext]_cardVars PROVE CardsInv'
  OBVIOUS
<1>1. ASSUME NEW e \in doc, NEW anchor \in Cited[e], Ask(e, anchor) PROVE CardsInv'
  BY <1>1, AskStep
<1>2. ASSUME NEW d \in Dispatches, AskFollowUp(d) PROVE CardsInv' BY <1>2, AskFollowUpStep
<1>3. ASSUME NEW d \in Dispatches, Answered(d) PROVE CardsInv' BY <1>3, AnsweredStep
<1>4. ASSUME NEW k \in 0 .. Len(answers), Sync(k) PROVE CardsInv' BY <1>4, SyncStep
<1>5. CASE UNCHANGED cardVars
  <2>1. UNCHANGED store /\ UNCHANGED <<doc, documents>> /\ UNCHANGED overlay
    BY <1>5 DEF cardVars
  <2>2. ToSet(answers)' = ToSet(answers) BY <2>1 DEF store, ToSet
  <2>3. MatchedInv' /\ DrawerInv'
    BY <2>1, <2>2 DEF MatchedInv, DrawerInv, Unchanged, CardsInv, store, overlay
  <2>4. OverlayInv' BY <2>1, <2>2 DEF OverlayInv, CardsInv, store, overlay
  <2> QED BY <2>1, <2>3, <2>4, StoreStays
<1> QED BY <1>1, <1>2, <1>3, <1>4, <1>5, OverlayStep DEF CardsNext

LEMMA CardsInvariance == CardsSpec => []CardsInv
  BY CardsInitInv, CardsStep, PTL DEF CardsSpec

(* An answered follow-up is in the thread of the card it was asked from    *)
(* (annotation-store.ts:168).                                              *)
THEOREM FollowUpsStay == CardsSpec => []FollowUpStaysOnItsCard
<1>1. CardsInv => FollowUpStaysOnItsCard BY DEF CardsInv
<1> QED BY <1>1, CardsInvariance, PTL

(* Every card the artifact has been told of is in the drawer or with its   *)
(* element, once.  While a candidate is what its element was, the card is  *)
(* with such a one, or in the drawer because another has the same path     *)
(* (cards.ts:353, reattach-cards.ts:35, identity.ts:92).                   *)
THEOREM EveryCardIsShown == CardsSpec => []CardsShownOnce
<1>1. CardsInv => CardsShownOnce
  <2> SUFFICES ASSUME CardsInv PROVE CardsShownOnce
    OBVIOUS
  <2>1. \A c \in shown : \A e \in Unchanged(c) :
          /\ c \in DOMAIN matched => matched[c].element \in Unchanged(c)
          /\ c \notin DOMAIN matched => SharesItsPath(e, synced[c])
    BY DEF CardsInv, MatchedInv, DrawerInv, OverlayInv
  <2> QED BY <2>1 DEF CardsInv, OverlayInv, CardsShownOnce, SharesItsPath
<1> QED BY <1>1, CardsInvariance, PTL

(* The state has its types, and no dispatch is answered twice.             *)
THEOREM CardsTypeCorrect == CardsSpec => []CardsTypeOK
<1>1. CardsInv => CardsTypeOK
  <2> SUFFICES ASSUME CardsInv PROVE CardsTypeOK
    OBVIOUS
  <2>1. CardsAt(Len(answers)) = {home[d] : d \in ToSet(answers)}
    BY AllCards DEF CardsInv, AnsweredInv
  <2>2. \A d \in DOMAIN asked : /\ asked[d].parent \in {Nobody} \cup ToSet(answers)
                                /\ asked[d].card \in {Nobody} \cup CardsAt(Len(answers))
                                /\ asked[d].snapshot.path \in {e.path : e \in Element}
    BY <2>1 DEF CardsInv, CardsBegin, FollowUpsNameTheirCard
  <2>3. DOMAIN floats \cup DOMAIN matched \cup drawer \subseteq shown
    BY DEF CardsInv, OverlayInv
  <2>4. \A c \in DOMAIN matched : matched[c].element \in synced[c]
    BY DEF CardsInv, MatchedInv
  <2> QED
    BY <2>1, <2>2, <2>3, <2>4
    DEF CardsInv, AnsweredInv, CardsBegin, OverlayInv, CardsTypeOK
<1> QED BY <1>1, CardsInvariance, PTL

----------------------------------------------------------------------------
(***************************************************************************)
(* The sweep of state that is no longer used.                              *)
(***************************************************************************)

(* While the sweep looks for artifacts, a session whose artifact is there  *)
(* is still to be looked at, or its artifact came too late.                *)
SurvivorsUnseen ==
  /\ sweep = "survive" /\ "state" \notin touched =>
       sessions \cap onDisk \subseteq unseen \cup appeared
  /\ sweep = "unlink state" /\ "state" \notin touched =>
       sessions \cap onDisk \subseteq appeared

(* After the proof a living lock is a new one: too young for the pair to   *)
(* be aged, or written after its age was asked for.                        *)
Proven == {"ages", "read", "survive", "unlink state", "unlink lock"}

LiveLockIsNew ==
  sweep \in Proven /\ "lock" \in listed /\ lock = "live" =>
    "lock" \in fresh /\ ("lock" \in statted => "lock" \in touched)

(* The unlinks come after every age was asked for. *)
AgesAsked ==
  /\ sweep \in Proven \ {"ages"} => statted = listed
  /\ sweep = "unlink lock" => "lock" \in listed
  /\ sweep \in {"list", "proof"} => statted = {}

GcInv == GcTypeOK /\ SurvivorsUnseen /\ LiveLockIsNew /\ AgesAsked

LEMMA GcInitInv == GcInit => GcInv
  BY DEF GcInit, GcInv, GcTypeOK, SurvivorsUnseen, LiveLockIsNew, AgesAsked, Proven, Exists,
         Pair

(* One step per action. *)
LEMMA GcStep == GcInv /\ [GcNext]_gcVars => GcInv'
<1> SUFFICES ASSUME GcInv, [GcNext]_gcVars PROVE GcInv'
  OBVIOUS
<1> USE DEF GcInv, GcTypeOK, SurvivorsUnseen, LiveLockIsNew, AgesAsked, Proven, disk, sweeper
<1>1. CASE CreatesLock
  BY <1>1 DEF CreatesLock, Writes, Pair
<1>2. CASE FillsLock
  BY <1>2 DEF FillsLock, Writes, Pair
<1>3. CASE Reclaims
  <2>1. GcTypeOK' /\ SurvivorsUnseen'
    BY <1>3 DEF Reclaims
  <2>2. LiveLockIsNew' /\ AgesAsked'
    BY <1>3 DEF Reclaims
  <2> QED BY <2>1, <2>2
<1>4. CASE DaemonStops
  <2>1. GcTypeOK' /\ SurvivorsUnseen'
    BY <1>4 DEF DaemonStops
  <2>2. LiveLockIsNew' /\ AgesAsked'
    BY <1>4 DEF DaemonStops
  <2> QED BY <2>1, <2>2
<1>5. ASSUME NEW S \in SUBSET Artifact, Saves(S) PROVE GcInv'
  BY <1>5 DEF Saves, Writes, Pair
<1>6. ASSUME NEW a \in Artifact, ArtifactGoes(a) PROVE GcInv'
  <2>1. GcTypeOK'
    BY <1>6 DEF ArtifactGoes
  <2>2. SurvivorsUnseen'
    BY <1>6 DEF ArtifactGoes
  <2>3. LiveLockIsNew' /\ AgesAsked'
    BY <1>6 DEF ArtifactGoes
  <2> QED
    BY <2>1, <2>2, <2>3
<1>7. ASSUME NEW a \in Artifact, ArtifactAppears(a) PROVE GcInv'
  <2>1. GcTypeOK'
    BY <1>7 DEF ArtifactAppears
  <2>2. SurvivorsUnseen'
    BY <1>7 DEF ArtifactAppears
  <2>3. LiveLockIsNew' /\ AgesAsked'
    BY <1>7 DEF ArtifactAppears
  <2> QED
    BY <2>1, <2>2, <2>3
<1>8. ASSUME NEW a \in Artifact, GcLooksFor(a) PROVE GcInv'
  BY <1>8 DEF GcLooksFor
<1>9. CASE GcList
  BY <1>9 DEF GcList, Exists, Pair
<1>10. CASE GcProvesDead
  BY <1>10 DEF GcProvesDead
<1>11. CASE GcCannotTell
  BY <1>11 DEF GcCannotTell
<1>12. CASE GcAges
  BY <1>12 DEF GcAges
<1>13. CASE GcReads
  BY <1>13 DEF GcReads
<1>14. ASSUME NEW f \in Pair, GcStats(f) PROVE GcInv'
  BY <1>14 DEF GcStats, Exists, Pair
<1>15. CASE GcFoundNone
  BY <1>15 DEF GcFoundNone
<1>16. CASE GcUnlinksState
  BY <1>16 DEF GcUnlinksState
<1>17. CASE GcUnlinksLock
  BY <1>17 DEF GcUnlinksLock
<1>18. CASE UNCHANGED gcVars
  <2>1. GcTypeOK'
    BY <1>18 DEF gcVars
  <2>2. SurvivorsUnseen'
    BY <1>18 DEF gcVars
  <2>3. LiveLockIsNew' /\ AgesAsked'
    BY <1>18 DEF gcVars
  <2> QED
    BY <2>1, <2>2, <2>3
<1> HIDE DEF GcInv
<1> QED
  BY <1>1, <1>2, <1>3, <1>4, <1>5, <1>6, <1>7, <1>8, <1>9, <1>10, <1>11,
     <1>12, <1>13, <1>14, <1>15, <1>16, <1>17, <1>18 DEF GcNext

LEMMA GcInvariance == GcSpec => []GcInv
  BY GcInitInv, GcStep, PTL DEF GcSpec

(* The files, the sweep's notes of them and the history keep their types. *)
THEOREM GcTypeCorrect == GcSpec => []GcTypeOK
<1>1. GcInv => GcTypeOK
  BY DEF GcInv
<1> QED
  BY GcInvariance, <1>1, PTL

(* However a daemon starts, saves, stops or dies beside the sweep, and     *)
(* whatever becomes of the artifacts: outside the two windows no session   *)
(* of an artifact that exists goes, and no lock of a running daemon.       *)
THEOREM SessionsAreSpared == GcSpec => []GcSparesSessions
<1>1. GcInv => GcSparesSessions
  BY DEF GcInv, GcTypeOK, SurvivorsUnseen, LiveLockIsNew, AgesAsked, Proven, GcSparesSessions
<1> QED
  BY GcInvariance, <1>1, PTL

----------------------------------------------------------------------------
(***************************************************************************)
(* Files served to several connections.                                    *)
(***************************************************************************)

AnswerTypeOK == answer \in [of : Nat, next : Nat, stop : Nat]

(* No tag and no answer is of a version that is still to come. *)
NothingAhead ==
  /\ asset \in FileVersion /\ opened \in FileVersion \cup {Closed}
  /\ copy.etag = <<>> \/ \E f \in FileVersion : copy.etag = StrongEtag(f) /\ f.mtime <= asset.mtime
  /\ answer.of <= asset.version

(* A stream was opened after the stat: as long as the tag is the file's,   *)
(* so is what it reads.                                                    *)
StreamIsOfTheTag ==
  /\ answer = NoAnswer => opened = Closed
  /\ opened # Closed /\ copy.etag = StrongEtag(asset) => opened = asset

CopyIsOfItsVersion ==
  copy.etag = StrongEtag(asset) /\ ~copy.dated =>
    \A p \in BytePosition : copy.bytes[p] # 0 => copy.bytes[p] = asset.version /\ p < asset.size

BodyIsThere ==
  answer # NoAnswer /\ asset.version = answer.of =>
    answer.next <= answer.stop /\ answer.stop <= asset.size

CopyTypeOK ==
  /\ copy = [etag |-> copy.etag, date |-> copy.date, bytes |-> copy.bytes, dated |-> copy.dated]
  /\ copy.bytes \in [BytePosition -> Nat]

AssetInv ==
  /\ AnswerTypeOK /\ CopyTypeOK /\ NothingAhead
  /\ StreamIsOfTheTag /\ CopyIsOfItsVersion /\ BodyIsThere

LEMMA AssetInitInv == AssetInit => AssetInv
  BY AssetAssumption
  DEF AssetInit, AssetInv, AnswerTypeOK, CopyTypeOK, NothingAhead, StreamIsOfTheTag,
      CopyIsOfItsVersion, BodyIsThere, FirstVersions, NoAnswer, NoCopy, NoBytes, FileVersion,
      VersionNumber, Closed

(* A range lies within the file, clamped or counted from its end. *)
LEMMA RangeIsThere ==
  ASSUME NEW r \in RangeHeader, NEW size \in Nat, ParseRange(r, size).kind = "range"
  PROVE  /\ ParseRange(r, size).start \in Nat
         /\ ParseRange(r, size).stop \in Nat
         /\ ParseRange(r, size).start <= ParseRange(r, size).stop
         /\ ParseRange(r, size).stop <= size
  BY AssetAssumption
  DEF ParseRange, RangeHeader, Larger, Smaller, WholeAsset, Unsatisfiable, Absent

(* What the head of an answer leaves in the copy. *)
HeadOf(f) ==
  /\ copy' = Labelled(f, copy'.bytes, copy'.dated)
  /\ \/ copy'.bytes = NoBytes
     \/ /\ copy'.bytes = copy.bytes
        /\ ~copy'.dated => ~copy.dated /\ copy.etag = StrongEtag(f)

LEMMA VouchedFor ==
  ASSUME NEW f, NEW byDate \in BOOLEAN, ~byDate => copy.etag = StrongEtag(f),
         copy' = Vouched(f, byDate)
  PROVE  HeadOf(f)
  BY DEF Vouched, Labelled, HeadOf

LEMMA StartedAnew ==
  ASSUME NEW f, copy' = Labelled(f, NoBytes, FALSE)
  PROVE  HeadOf(f)
<1>1. copy'.bytes = NoBytes /\ copy'.dated = FALSE
  BY DEF Labelled
<1>2. copy' = Labelled(f, copy'.bytes, copy'.dated)
  BY <1>1
<1> QED
  BY <1>1, <1>2 DEF HeadOf

LEMMA HeadIsFine ==
  ASSUME AssetInv, HeadOf(asset), asset' = asset
  PROVE  /\ CopyTypeOK' /\ CopyIsOfItsVersion'
         /\ \E f \in FileVersion : copy'.etag = StrongEtag(f) /\ f.mtime <= asset'.mtime
<1>1. asset \in FileVersion /\ asset.mtime \in Nat
  BY AssetAssumption DEF AssetInv, NothingAhead, FileVersion
<1>2. copy'.etag = StrongEtag(asset)
  BY DEF HeadOf, Labelled
<1>3. CASE copy'.bytes = NoBytes
  BY <1>1, <1>2, <1>3 DEF NoBytes, CopyTypeOK, CopyIsOfItsVersion, HeadOf, Labelled
<1>4. CASE copy'.bytes = copy.bytes /\ (~copy'.dated => ~copy.dated /\ copy.etag = StrongEtag(asset))
  BY <1>1, <1>2, <1>4 DEF AssetInv, CopyTypeOK, CopyIsOfItsVersion, HeadOf, Labelled
<1> QED
  BY <1>3, <1>4 DEF HeadOf

LEMMA ServeStep ==
  ASSUME AssetInv, NEW h \in Headers, ServeAsset(h)
  PROVE  AssetInv'
<1> DEFINE range == RangeOf(h, asset)
<1>1. /\ asset \in FileVersion /\ asset.size \in Nat /\ asset.version \in Nat \ {0}
      /\ asset' = asset /\ opened' = opened /\ answer = NoAnswer /\ opened = Closed
  BY AssetAssumption
  DEF AssetInv, NothingAhead, FileVersion, VersionNumber, ServeAsset, StreamIsOfTheTag
<1>2. StreamIsOfTheTag'
  BY <1>1 DEF StreamIsOfTheTag
<1>3. h.range \in RangeHeader /\ h.ifNoneMatch \in BOOLEAN
  BY DEF Headers
<1>4. CASE UNCHANGED <<copy, answer>>
  BY <1>1, <1>2, <1>4
  DEF AssetInv, AnswerTypeOK, CopyTypeOK, NothingAhead, CopyIsOfItsVersion, BodyIsThere
<1>5. CASE IsNotModified(h, asset) /\ copy' = Vouched(asset, ~h.ifNoneMatch) /\ UNCHANGED answer
  <2>1. HeadOf(asset)
    BY <1>3, <1>5, VouchedFor DEF IsNotModified
  <2> QED
    BY <1>1, <1>2, <1>5, <2>1, HeadIsFine
    DEF AssetInv, AnswerTypeOK, NothingAhead, BodyIsThere
<1>6. CASE /\ range.kind = "range" /\ copy' = Extended(h, asset)
           /\ Body(asset, range.start, range.stop)
  <2>1. HeadOf(asset)
    <3>1. CASE h.ifRange # "absent" \/ copy.etag = StrongEtag(asset)
      <4>1. h.ifRange # "date" => copy.etag = StrongEtag(asset)
        BY <1>6, <3>1 DEF RangeOf, IsRangeFresh, WholeAsset, Headers
      <4> QED
        BY <1>6, <3>1, <4>1, VouchedFor DEF Extended
    <3>2. CASE ~(h.ifRange # "absent" \/ copy.etag = StrongEtag(asset))
      BY <1>6, <3>2, StartedAnew DEF Extended
    <3> QED
      BY <3>1, <3>2
  <2>2. /\ range.start \in Nat /\ range.stop \in Nat
        /\ range.start <= range.stop /\ range.stop <= asset.size
    BY <1>1, <1>3, <1>6, RangeIsThere DEF RangeOf, WholeAsset
  <2> HIDE DEF range
  <2>3. AnswerTypeOK' /\ answer'.of = asset.version /\ BodyIsThere'
    BY <1>1, <1>6, <2>2 DEF Body, AnswerTypeOK, BodyIsThere
  <2> QED
    BY <1>1, <1>2, <2>1, <2>3, HeadIsFine DEF AssetInv, NothingAhead
<1>7. CASE copy' = Labelled(asset, NoBytes, FALSE) /\ Body(asset, 0, asset.size)
  <2>1. HeadOf(asset)
    BY <1>7, StartedAnew
  <2>2. AnswerTypeOK' /\ answer'.of = asset.version /\ BodyIsThere'
    BY <1>1, <1>7 DEF Body, AnswerTypeOK, BodyIsThere
  <2> QED
    BY <1>1, <1>2, <2>1, <2>2, HeadIsFine DEF AssetInv, NothingAhead
<1> QED
  BY <1>4, <1>5, <1>6, <1>7 DEF ServeAsset

LEMMA PipeStep ==
  ASSUME AssetInv, PipeByte
  PROVE  AssetInv'
<1>1. /\ answer \in [of : Nat, next : Nat, stop : Nat]
      /\ asset \in FileVersion /\ asset.version \in Nat /\ asset.size \in Nat
      /\ UNCHANGED <<asset, opened>> /\ opened # Closed /\ answer # NoAnswer
  BY AssetAssumption
  DEF AssetInv, AnswerTypeOK, NothingAhead, StreamIsOfTheTag, PipeByte, FileVersion,
      VersionNumber
<1>2. /\ answer' = [answer EXCEPT !.next = answer.next + 1]
      /\ answer.next < answer.stop /\ answer.next < opened.size
      /\ copy' = [copy EXCEPT !.bytes[answer.next] = opened.version]
  BY DEF PipeByte
<1>3. /\ answer' \in [of : Nat, next : Nat, stop : Nat] /\ answer'.of = answer.of
      /\ answer'.next = answer.next + 1 /\ answer'.stop = answer.stop
  BY <1>1, <1>2
<1>4. /\ copy'.etag = copy.etag /\ copy'.dated = copy.dated /\ copy'.date = copy.date
      /\ copy'.bytes = [copy.bytes EXCEPT ![answer.next] = opened.version]
      /\ copy' = [etag |-> copy.etag, date |-> copy.date, bytes |-> copy'.bytes,
                  dated |-> copy.dated]
  BY <1>2 DEF AssetInv, CopyTypeOK
<1>5. opened.version \in Nat
  BY AssetAssumption DEF AssetInv, NothingAhead, FileVersion, VersionNumber, Closed
<1>6. CopyTypeOK'
  BY <1>4, <1>5 DEF AssetInv, CopyTypeOK
<1>7. CopyIsOfItsVersion'
  BY <1>1, <1>2, <1>4
  DEF AssetInv, CopyTypeOK, StreamIsOfTheTag, CopyIsOfItsVersion
<1>8. AnswerTypeOK' /\ BodyIsThere'
  BY <1>1, <1>2, <1>3 DEF AssetInv, AnswerTypeOK, BodyIsThere
<1>9. NothingAhead'
  BY <1>1, <1>3, <1>4 DEF AssetInv, NothingAhead
<1>10. StreamIsOfTheTag'
  <2>1. answer' # NoAnswer
    BY <1>1, <1>3 DEF NoAnswer
  <2> QED
    BY <1>1, <1>4, <2>1 DEF AssetInv, StreamIsOfTheTag
<1> QED
  BY <1>6, <1>7, <1>8, <1>9, <1>10 DEF AssetInv

LEMMA SaveStep ==
  ASSUME AssetInv, NEW inPlace \in BOOLEAN, SaveAsset(inPlace)
  PROVE  AssetInv'
<1>1. PICK f \in FileVersion :
        /\ f.version = asset.version + 1 /\ f.mtime > asset.mtime /\ asset' = f
        /\ opened' = IF inPlace /\ opened # Closed THEN f ELSE opened
        /\ UNCHANGED <<copy, answer>>
  BY DEF SaveAsset
<1>2. /\ asset \in FileVersion /\ asset.mtime \in Nat /\ f.mtime \in Nat
      /\ asset.version \in Nat /\ asset.version + 1 # 0
  BY AssetAssumption DEF AssetInv, NothingAhead, FileVersion, VersionNumber
<1>3. copy'.etag # StrongEtag(asset')
  <2>1. CASE copy.etag = <<>>
    BY <1>1, <2>1 DEF StrongEtag
  <2>2. CASE \E g \in FileVersion : copy.etag = StrongEtag(g) /\ g.mtime <= asset.mtime
    <3>1. PICK g \in FileVersion : copy.etag = StrongEtag(g) /\ g.mtime <= asset.mtime
      BY <2>2
    <3>2. g.mtime # f.mtime
      BY <1>1, <1>2, <3>1 DEF FileVersion
    <3> QED
      BY <1>1, <3>1, <3>2 DEF StrongEtag
  <2> QED
    BY <2>1, <2>2 DEF AssetInv, NothingAhead
<1>4. NothingAhead'
  <2>1. \A g \in FileVersion : g.mtime <= asset.mtime => g.mtime <= f.mtime
    BY <1>1, <1>2, AssetAssumption DEF FileVersion
  <2>2. answer'.of <= asset'.version
    BY <1>1, <1>2 DEF AssetInv, NothingAhead, AnswerTypeOK
  <2> QED
    BY <1>1, <2>1, <2>2 DEF AssetInv, NothingAhead
<1>5. CopyTypeOK' /\ CopyIsOfItsVersion'
  BY <1>1, <1>3 DEF AssetInv, CopyTypeOK, CopyIsOfItsVersion
<1>6. AnswerTypeOK' /\ BodyIsThere'
  BY <1>1, <1>2 DEF AssetInv, AnswerTypeOK, BodyIsThere, NothingAhead
<1>7. StreamIsOfTheTag'
  BY <1>1, <1>3 DEF AssetInv, StreamIsOfTheTag
<1> QED
  BY <1>4, <1>5, <1>6, <1>7 DEF AssetInv

LEMMA AssetStep == AssetInv /\ [AssetNext]_assetVars => AssetInv'
<1> SUFFICES ASSUME AssetInv, [AssetNext]_assetVars PROVE AssetInv'
  OBVIOUS
<1>1. ASSUME NEW h \in Headers, ServeAsset(h) PROVE AssetInv'
  BY <1>1, ServeStep
<1>2. CASE OpenStream
  BY <1>2
  DEF OpenStream, AssetInv, AnswerTypeOK, CopyTypeOK, NothingAhead, StreamIsOfTheTag,
      CopyIsOfItsVersion, BodyIsThere
<1>3. CASE PipeByte
  BY <1>3, PipeStep
<1>4. CASE EndAnswer \/ DropAnswer
  <2>1. answer' = NoAnswer /\ opened' = Closed /\ UNCHANGED <<asset, copy>>
    BY <1>4 DEF EndAnswer, DropAnswer, AnswerOver
  <2>2. AnswerTypeOK' /\ answer'.of <= asset'.version
    BY <2>1, AssetAssumption
    DEF NoAnswer, AnswerTypeOK, AssetInv, NothingAhead, FileVersion, VersionNumber
  <2>3. StreamIsOfTheTag' /\ BodyIsThere'
    BY <2>1 DEF StreamIsOfTheTag, BodyIsThere
  <2> QED
    BY <2>1, <2>2, <2>3 DEF AssetInv, CopyTypeOK, NothingAhead, CopyIsOfItsVersion
<1>5. ASSUME NEW inPlace \in BOOLEAN, SaveAsset(inPlace) PROVE AssetInv'
  BY <1>5, SaveStep
<1>6. CASE UNCHANGED assetVars
  BY <1>6
  DEF assetVars, AssetInv, AnswerTypeOK, CopyTypeOK, NothingAhead, StreamIsOfTheTag,
      CopyIsOfItsVersion, BodyIsThere
<1> QED
  BY <1>1, <1>2, <1>3, <1>4, <1>5, <1>6 DEF AssetNext

-----------------------------------------------------------------------------
(* The theorem *)

(* However a file is saved, in place or anew, while it is stated, streamed, *)
(* dropped, resumed and revalidated: what the browser holds under the tag   *)
(* the file has is the file's, unless a date vouched for it.                *)
THEOREM TagsAreTrue == AssetSpec => []CopyIsOfItsTag
<1>1. AssetInv => CopyIsOfItsTag
  BY DEF AssetInv, CopyIsOfItsVersion, BodyIsThere, CopyIsOfItsTag
<1>2. AssetSpec => []AssetInv
  BY AssetInitInv, AssetStep, PTL DEF AssetSpec
<1> QED
  BY <1>1, <1>2, PTL

----------------------------------------------------------------------------
(***************************************************************************)
(* Verdicts on anchors.                                                    *)
(***************************************************************************)

(* And a first one.                                                        *)
LEMMA HasFirst ==
  ASSUME NEW k \in Nat, NEW S \in SUBSET (1 .. k), S # {}
  PROVE  \E f \in S : \A i \in S : f <= i
<1> DEFINE T == {k + 1 - i : i \in S}
<1>1. T \in SUBSET (1 .. k) /\ T # {}
  <2>1. ASSUME NEW i \in S PROVE k + 1 - i \in 1 .. k OBVIOUS
  <2> QED BY <2>1
<1>2. Max(T) \in T /\ \A i \in T : Max(T) >= i
  <2> HIDE DEF T
  <2> QED BY <1>1, HasLast
<1>3. PICK f \in S : Max(T) = k + 1 - f BY <1>2
<1>4. ASSUME NEW i \in S PROVE f <= i
  <2>1. k + 1 - f >= k + 1 - i BY <1>2, <1>3
  <2> QED BY <2>1
<1> QED BY <1>4

----------------------------------------------------------------------------
(* The lines there are; "z" is put in by the diff of OutOfOrder.           *)
Line == STRING \cup {"z"}

LEMMA FilesAreOfLines ==
  /\ \A f \in OldFiles : f \in Seq(Line) /\ Len(f) \in Nat \ {0}
  /\ Insertions \subseteq Seq(Line)
BY ResolutionAssumption DEF Line

(* A hunk of a file leaves a file. *)
InFile(h, file) ==
  h.del \in Nat /\ h.ins \in Seq(Line) /\ Kept(h) \in Nat /\ Kept(h) + h.del <= Len(file)

LEMMA HunkLeavesAFile ==
  ASSUME NEW file \in Seq(Line), NEW h, InFile(h, file)
  PROVE  ApplyHunk(file, h) \in Seq(Line)
<1> DEFINE k == Kept(h)
<1>1. k \in Nat /\ h.del \in Nat /\ k + h.del <= Len(file) BY DEF InFile
<1>2. SubSeq(file, 1, k) \in Seq(Line) BY <1>1
<1>3. SubSeq(file, k + h.del + 1, Len(file)) \in Seq(Line) BY <1>1
<1>4. h.ins \in Seq(Line) BY DEF InFile
<1> HIDE DEF k
<1>5. (SubSeq(file, 1, k) \o h.ins) \o SubSeq(file, k + h.del + 1, Len(file)) \in Seq(Line)
  BY <1>2, <1>3, <1>4
<1> QED BY <1>5 DEF ApplyHunk, k

(* Edit on the diffs there are. *)
LEMMA EditOfNone == \A file : Edit(file, <<>>) = file
<1> SUFFICES ASSUME NEW file PROVE Edit(file, <<>>) = file OBVIOUS
<1> DEFINE P(g) == g = [n \in 0 .. Len(<<>>) |-> IF n = 0 THEN file ELSE ApplyHunk(g[n - 1], <<>>[n])]
           after == CHOOSE g : P(g)
           f == [n \in 0 .. Len(<<>>) |-> file]
<1>1. P(f) OBVIOUS
<1>2. P(after) BY <1>1
<1>3. after[0] = file BY <1>2
<1>4. Edit(file, <<>>) = after[Len(<<>>)] BY DEF Edit
<1> QED BY <1>3, <1>4

LEMMA EditOfOne == \A file, h : Edit(file, <<h>>) = ApplyHunk(file, h)
<1> SUFFICES ASSUME NEW file, NEW h PROVE Edit(file, <<h>>) = ApplyHunk(file, h) OBVIOUS
<1> DEFINE P(g) == g = [n \in 0 .. Len(<<h>>) |-> IF n = 0 THEN file ELSE ApplyHunk(g[n - 1], <<h>>[n])]
           after == CHOOSE g : P(g)
           f == [n \in 0 .. Len(<<h>>) |-> IF n = 0 THEN file ELSE ApplyHunk(file, h)]
<1>1. P(f)  OBVIOUS
<1>2. P(after) BY <1>1
<1>3. after[0] = file /\ after[1] = ApplyHunk(file, h)
  <2>1. Len(<<h>>) = 1 /\ <<h>>[1] = h /\ 1 - 1 = 0 /\ 0 \in 0 .. 1 /\ 1 \in 0 .. 1 OBVIOUS
  <2> HIDE DEF after
  <2>2. after[0] = file BY <1>2, <2>1
  <2> QED BY <1>2, <2>1, <2>2
<1>5. Edit(file, <<h>>) = after[Len(<<h>>)] BY DEF Edit
<1> QED BY <1>3, <1>5

LEMMA EditOfTwo ==
  \A file, h, i : Edit(file, <<h, i>>) = ApplyHunk(ApplyHunk(file, h), i)
<1> SUFFICES ASSUME NEW file, NEW h, NEW i
             PROVE Edit(file, <<h, i>>) = ApplyHunk(ApplyHunk(file, h), i) OBVIOUS
<1> DEFINE P(g) == g = [n \in 0 .. Len(<<h, i>>) |->
                          IF n = 0 THEN file ELSE ApplyHunk(g[n - 1], <<h, i>>[n])]
           after == CHOOSE g : P(g)
           one == ApplyHunk(file, h)
           f == [n \in 0 .. Len(<<h, i>>) |->
                   IF n = 0 THEN file ELSE IF n = 1 THEN one ELSE ApplyHunk(one, i)]
<1>1. P(f)  OBVIOUS
<1>2. P(after) BY <1>1
<1>3. after[2] = ApplyHunk(one, i)
  <2>1. /\ Len(<<h, i>>) = 2 /\ <<h, i>>[1] = h /\ <<h, i>>[2] = i
        /\ 1 - 1 = 0 /\ 2 - 1 = 1 /\ 0 .. 2 = {0, 1, 2} OBVIOUS
  <2> HIDE DEF after
  <2>2. after[0] = file BY <1>2, <2>1
  <2>3. after[1] = one BY <1>2, <2>1, <2>2
  <2> HIDE DEF one
  <2> QED BY <1>2, <2>1, <2>3
<1>4. Edit(file, <<h, i>>) = after[Len(<<h, i>>)] BY DEF Edit
<1> QED BY <1>3, <1>4

----------------------------------------------------------------------------
LEMMA ExtremesOfTwo ==
  ASSUME NEW a \in Int, NEW b \in Int
  PROVE  /\ Max({a, b}) \in {a, b} /\ Max({a, b}) >= a /\ Max({a, b}) >= b
         /\ Min({a, b}) \in {a, b} /\ Min({a, b}) <= a /\ Min({a, b}) <= b
<1>1. \E x \in {a, b} : \A y \in {a, b} : x >= y OBVIOUS
<1>2. \E x \in {a, b} : \A y \in {a, b} : x <= y OBVIOUS
<1> QED BY <1>1, <1>2 DEF Max, Min

(* The search stays inside the file. *)
LEMMA BoundsWithin ==
  ASSUME NEW total \in Nat, NEW center \in Int
  PROVE  \E from, to \in Int : /\ SearchBounds(total, center) = <<from, to>>
                               /\ from >= 1 /\ to <= total
<1>1. CASE total <= SearchLimit BY <1>1 DEF SearchBounds
<1>2. CASE ~ total <= SearchLimit
  <2> DEFINE x == center - SearchLimit \div 2
             from == Max({1, x})
             to == Min({total, from + SearchLimit})
  <2>1. x \in Int BY ResolutionAssumption
  <2>2. from \in Int /\ from >= 1
    <3> HIDE DEF x
    <3> QED BY <2>1, ExtremesOfTwo
  <2>3. to \in Int /\ to <= total
    <3> HIDE DEF from
    <3>1. from + SearchLimit \in Int /\ total \in Int BY <2>2, ResolutionAssumption
    <3> DEFINE last == from + SearchLimit
    <3>2. last \in Int BY <3>1
    <3> HIDE DEF last
    <3>3. Min({total, last}) \in {total, last} /\ Min({total, last}) <= total
      BY <3>1, <3>2, ExtremesOfTwo
    <3>4. Min({total, last}) \in Int BY <3>1, <3>2, <3>3
    <3> QED BY <3>3, <3>4 DEF last
  <2>4. SearchBounds(total, center) = <<from, to>> BY <1>2 DEF SearchBounds
  <2> HIDE DEF from, to
  <2> QED BY <2>2, <2>3, <2>4
<1> QED BY <1>1, <1>2

LEMMA WindowsFit ==
  ASSUME NEW new, Len(new) \in Nat, NEW center \in Int, NEW size \in Nat \ {0},
         NEW w \in Windows(SearchBounds(Len(new), center), size)
  PROVE  /\ Fits(w, new) /\ w[1] \in 1 .. Len(new) /\ w[2] \in Int
         /\ w = <<w[1], w[1] + size - 1>>
<1>1. PICK from, to \in Int : /\ SearchBounds(Len(new), center) = <<from, to>>
                              /\ from >= 1 /\ to <= Len(new)
  BY BoundsWithin
<1>2. PICK s \in from .. to - size + 1 : w = <<s, s + size - 1>> BY <1>1 DEF Windows
<1>3. s >= 1 /\ s <= s + size - 1 /\ s + size - 1 <= Len(new) BY <1>1, <1>2
<1> QED BY <1>2, <1>3 DEF Fits

(* Of windows of one size there is a first one. *)
LEMMA FirstOfOneSize ==
  ASSUME NEW new, Len(new) \in Nat, NEW center \in Int, NEW size \in Nat \ {0},
         NEW W \in SUBSET Windows(SearchBounds(Len(new), center), size), W # {}
  PROVE  First(W) \in W
<1> DEFINE S == {w[1] : w \in W}
<1>1. \A w \in W : w[1] \in 1 .. Len(new) /\ w[2] \in Int /\ w = <<w[1], w[1] + size - 1>>
  BY WindowsFit
<1>2. S \in SUBSET (1 .. Len(new)) /\ S # {} BY <1>1
<1>3. PICK f \in S : \A i \in S : f <= i
  <2> HIDE DEF S
  <2> QED BY <1>2, HasFirst
<1>4. PICK w \in W : f = w[1] OBVIOUS
<1>5. ASSUME NEW v \in W PROVE w[2] - w[1] = v[2] - v[1] /\ w[1] <= v[1]
  <2>1. w[1] <= v[1] BY <1>3, <1>4
  <2>2. \A x \in W : x[1] \in Int /\ x[2] = x[1] + size - 1
    <3> TAKE x \in W
    <3>1. x = <<x[1], x[1] + size - 1>> /\ x[1] \in 1 .. Len(new) BY <1>1
    <3> QED BY <3>1
  <2>3. /\ w[1] \in Int /\ w[2] = w[1] + size - 1
        /\ v[1] \in Int /\ v[2] = v[1] + size - 1
    BY <2>2
  <2> QED BY <2>1, <2>3
<1> QED BY <1>5 DEF First

----------------------------------------------------------------------------
(* What is asked is about a region of a file. *)
IsRegion(range, old) ==
  range[1] \in 1 .. Len(old) /\ range[2] \in Int /\ range[1] <= range[2]

TrueOf(v, new, searched, hash) ==
  /\ v.state \in {"unchanged", "moved"} =>
       Fits(v.range, new) /\ v.content = Slice(new, v.range) /\ Normalized(v.content) = hash
  /\ v.state \in {"touched", "lost"} =>
       \A w \in searched : Normalized(Slice(new, w)) # hash

IsVerdict(v) == \E s, r, x : v = Verdict(s, r, x)

(* Looking for a text finds it where it is first met, or it is nowhere.    *)
LEMMA SearchIsTrue ==
  ASSUME NEW old \in Seq(Line), NEW new, Len(new) \in Nat, NEW range, IsRegion(range, old),
         NEW hash
  PROVE  LET original == SubSeq(old, range[1], Min({range[2], Len(old)}))
             searched == Windows(SearchBounds(Len(new), range[1]),
                                 Min({range[2], Len(old)}) - range[1] + 1)
             v == StageB(original, new, range, hash)
         IN  IsVerdict(v) /\ TrueOf(v, new, searched, hash)
<1> DEFINE last == Min({range[2], Len(old)})
           original == SubSeq(old, range[1], last)
           searched == Windows(SearchBounds(Len(new), range[1]), last - range[1] + 1)
           exact == ExactWindows(original, new, range, hash)
           fuzzy == FuzzyWindows(original, new, range)
           best == First(Best(Scores(original, new, fuzzy)))
           v == StageB(original, new, range, hash)
<1> SUFFICES IsVerdict(v) /\ TrueOf(v, new, searched, hash) OBVIOUS
<1>1. range[1] \in Int /\ range[1] >= 1 /\ last \in Int /\ last >= range[1] /\ last <= Len(old)
  <2>1. /\ range[1] \in Int /\ range[1] >= 1 /\ range[2] \in Int /\ range[1] <= range[2]
        /\ range[1] <= Len(old) /\ Len(old) \in Int
    BY DEF IsRegion
  <2> QED BY <2>1, ExtremesOfTwo
<1>2. Len(original) = last - range[1] + 1 /\ Len(original) \in Nat \ {0}
  <2> HIDE DEF last
  <2> QED BY <1>1
<1>3. exact = {w \in searched : Normalized(Slice(new, w)) = hash}
  BY <1>2 DEF ExactWindows
<1>4. v = SearchedFor(original, new, exact, fuzzy) BY DEF StageB
<1>5. \A w \in searched : Fits(w, new)
  <2> HIDE DEF original, last
  <2> QED BY <1>1, <1>2, WindowsFit
<1>6. CASE exact # {}
  <2>1. First(exact) \in exact
    <3>1. exact \in SUBSET searched BY <1>3
    <3> HIDE DEF original, last, exact
    <3> QED BY <1>1, <1>2, <1>6, <3>1, FirstOfOneSize
  <2>2. v = Verdict("moved", First(exact), ContentAt(new, First(exact)))
    <3> HIDE DEF exact, fuzzy, original, v
    <3> QED BY <1>4, <1>6 DEF SearchedFor, Found
  <2>3. Fits(First(exact), new) /\ Normalized(Slice(new, First(exact))) = hash
    <3> HIDE DEF searched
    <3> QED BY <1>3, <1>5, <2>1
  <2> HIDE DEF exact, v, searched
  <2> QED BY <2>2, <2>3 DEF IsVerdict, TrueOf, Verdict, ContentAt
<1>7. CASE exact = {}
  <2>1. \/ v = Verdict("lost", NoRange, NoContent)
        \/ v = Verdict("touched", best, ContentAt(new, best))
    <3> HIDE DEF exact, fuzzy, original, v
    <3> QED BY <1>4, <1>7, Zenon DEF SearchedFor, Found, Likeness
  <2>2. \A w \in searched : Normalized(Slice(new, w)) # hash BY <1>3, <1>7
  <2> HIDE DEF v, searched, best
  <2> QED BY <2>1, <2>2 DEF IsVerdict, TrueOf, Verdict
<1> QED BY <1>6, <1>7

(* A region that no hunk touches is where it has been shifted to.          *)
LEMMA StageAIsTrue ==
  ASSUME NEW hunks, NEW new, NEW range, NEW hash, TryStageA(hunks, new, range, hash) # NoRange
  PROVE  LET w == TryStageA(hunks, new, range, hash)
         IN  Fits(w, new) /\ Normalized(Slice(new, w)) = hash
BY Zenon DEF TryStageA

(* The verdict on a file that is still there, or has moved as a whole.     *)
Searched(old, new, range) ==
  Windows(SearchBounds(Len(new), range[1]), Min({range[2], Len(old)}) - range[1] + 1)

LEMMA RelocationIsTrue ==
  ASSUME NEW old \in Seq(Line), NEW new, Len(new) \in Nat, NEW range, IsRegion(range, old),
         NEW hash, NEW hunks
  PROVE  LET v == RelocateWithinFile(hunks, old, new, range, hash)
         IN  IsVerdict(v) /\ TrueOf(v, new, Searched(old, new, range), hash)
<1> DEFINE v == RelocateWithinFile(hunks, old, new, range, hash)
           w == TryStageA(hunks, new, range, hash)
<1> SUFFICES IsVerdict(v) /\ TrueOf(v, new, Searched(old, new, range), hash)
  OBVIOUS
<1>1. CASE w # NoRange
  <2>1. v = Verdict("moved", w, Slice(new, w))
    BY <1>1, StageAIsTrue, Zenon DEF RelocateWithinFile, Shifted, Found, ContentAt
  <2>2. Fits(w, new) /\ Normalized(Slice(new, w)) = hash BY <1>1, StageAIsTrue
  <2> HIDE DEF v, w
  <2> QED BY <2>1, <2>2 DEF IsVerdict, TrueOf, Verdict
<1>2. CASE w = NoRange
  <2>1. v = StageB(SubSeq(old, range[1], Min({range[2], Len(old)})), new, range, hash)
    BY <1>2, Zenon DEF RelocateWithinFile, Shifted
  <2> QED BY <2>1, SearchIsTrue, Zenon DEF Searched
<1> QED BY <1>1, <1>2

LEMMA DriftIsTrue ==
  ASSUME NEW c, c.old \in Seq(Line), NEW new, Len(new) \in Nat, NEW range,
         IsRegion(range, c.old)
  PROVE  LET v == Drift(c, range, new)
         IN  /\ IsVerdict(v)
             /\ v.state \in {"unchanged", "moved"} =>
                  Fits(v.range, new) /\ v.content = Slice(new, v.range)
                  /\ Normalized(v.content) = c.hash
             /\ v.state \in {"touched", "lost"} /\ c.gone = "no" =>
                  \A w \in Searched(c.old, new, range) : Normalized(Slice(new, w)) # c.hash
<1> DEFINE v == Drift(c, range, new)
           Says == /\ IsVerdict(v)
                   /\ v.state \in {"unchanged", "moved"} =>
                        Fits(v.range, new) /\ v.content = Slice(new, v.range)
                        /\ Normalized(v.content) = c.hash
                   /\ v.state \in {"touched", "lost"} /\ c.gone = "no" =>
                        \A w \in Searched(c.old, new, range) : Normalized(Slice(new, w)) # c.hash
<1> SUFFICES Says
  OBVIOUS
<1>1. CASE c.gone = "no" /\ ~(Fits(range, new) /\ Normalized(Slice(new, range)) = c.hash)
  <2>1. v = RelocateWithinFile(c.hunks, c.old, new, range, c.hash) BY <1>1, Zenon DEF Drift
  <2>2. IsVerdict(v) /\ TrueOf(v, new, Searched(c.old, new, range), c.hash)
    BY <2>1, RelocationIsTrue, Zenon
  <2> HIDE DEF v
  <2> QED BY <2>2 DEF TrueOf
<1>2. CASE c.gone = "no" /\ Fits(range, new) /\ Normalized(Slice(new, range)) = c.hash
  <2>1. v = Verdict("unchanged", range, Slice(new, range)) BY <1>2, Zenon DEF Drift
  <2> HIDE DEF v
  <2> QED BY <1>2, <2>1 DEF IsVerdict, Verdict
<1>3. CASE c.gone # "no"
  <2> DEFINE fits == range[1] >= 1 /\ range[2] <= Len(new)
  <2>1. \/ v = Verdict("cannot-determine", NoRange, NoContent)
        \/ v = Verdict("lost", NoRange, NoContent)
        \/ fits /\ Normalized(Slice(new, range)) = c.hash
           /\ v = Verdict("moved", range, Slice(new, range))
        \/ v = Verdict("touched", range, IF fits THEN Slice(new, range) ELSE NoContent)
    BY <1>3, Zenon DEF Drift, ClassifyMissingAtHead
  <2>2. fits => Fits(range, new) BY DEF IsRegion, Fits
  <2> HIDE DEF v, fits
  <2> QED BY <1>3, <2>1, <2>2 DEF IsVerdict, Verdict
<1> QED BY <1>1, <1>2, <1>3

----------------------------------------------------------------------------
(* A call about a region of a file of which git has a diff.                *)
IsCall(c) ==
  /\ c.old \in Seq(Line)
  /\ Len(Edit(c.old, c.hunks)) \in Nat
  /\ IsRegion(ResolveOriginalRange(c.old, c.range), c.old)

LEMMA ResolveIsTrue ==
  ASSUME NEW c, IsCall(c)
  PROVE  LET new == Edit(c.old, c.hunks)
         IN  VerdictIsTrue(c, Resolve(c), new,
               SearchedLines(c, new, ResolveOriginalRange(c.old, c.range)))
<1> DEFINE new == Edit(c.old, c.hunks)
           range == ResolveOriginalRange(c.old, c.range)
           searched == SearchedLines(c, new, range)
           v == ClassifyDrift(c)
           said == Resolve(c)
<1> SUFFICES VerdictIsTrue(c, said, new, searched)
  OBVIOUS
<1>1. /\ IsVerdict(v)
      /\ v.state \in {"unchanged", "moved"} =>
           Fits(v.range, new) /\ v.content = Slice(new, v.range)
           /\ Normalized(v.content) = c.hash
      /\ v.state \in {"touched", "lost"} /\ c.gone = "no" =>
           \A w \in searched : Normalized(Slice(new, w)) # c.hash
  <2>1. searched \subseteq Searched(c.old, new, range) BY DEF SearchedLines, Searched
  <2>2. v = Drift(c, range, new) BY DEF ClassifyDrift
  <2>3. c.old \in Seq(Line) /\ Len(new) \in Nat /\ IsRegion(range, c.old) BY DEF IsCall
  <2> HIDE DEF new, range, searched, v
  <2> QED BY <2>1, <2>2, <2>3, DriftIsTrue
<1>2. \/ \E s, r, x : /\ said = Verdict(s, r, x)
                      /\ s \in {"unanchored", "file-level", "refused", "no-git", "cannot-determine"}
      \/ /\ said = Eligible(c, v)
         /\ c.path = "confined" /\ c.git /\ c.reachable /\ ~c.submodule /\ TreeIsClean(c)
  <2>1. \E s, r, x : /\ ServeFileLevel(c) = Verdict(s, r, x)
                     /\ s \in {"file-level", "refused"}
    BY Zenon DEF ServeFileLevel, Refused
  <2>2. \E s, r, x : ServeNoGit(c) = Verdict(s, r, x) /\ s = "no-git"
    BY Zenon DEF ServeNoGit
  <2>3. ResolveGitPresent(c) = CannotDetermine
        \/ /\ ResolveGitPresent(c) = Eligible(c, v)
           /\ c.reachable /\ ~c.submodule /\ TreeIsClean(c)
    <3> HIDE DEF v
    <3> QED BY Zenon DEF ResolveGitPresent, IsSubmodulePath, v
  <2>4. \/ said = Verdict("unanchored", NoRange, NoContent)
        \/ said = ServeFileLevel(c) \/ said = Refused \/ said = ServeNoGit(c)
        \/ said = ResolveGitPresent(c) /\ c.path = "confined" /\ c.git
    BY Zenon DEF Resolve
  <2> HIDE DEF v, said
  <2> QED BY <2>1, <2>2, <2>3, <2>4 DEF Refused, CannotDetermine
<1>3. CASE \E s, r, x :
             /\ said = Verdict(s, r, x)
             /\ s \in {"unanchored", "file-level", "refused", "no-git", "cannot-determine"}
  <2> HIDE DEF new, searched, said
  <2> QED BY <1>3 DEF Verdict, VerdictIsTrue
<1>4. CASE /\ said = Eligible(c, v)
           /\ c.path = "confined" /\ c.git /\ c.reachable /\ ~c.submodule /\ TreeIsClean(c)
  <2>1. PICK s, r, x : v = Verdict(s, r, x) BY <1>1 DEF IsVerdict
  <2>2. said.state = v.state /\ said.range = v.range /\ said.content = v.content
    <3> HIDE DEF v, said
    <3> QED BY <1>4, <2>1 DEF Verdict, Eligible
  <2>3. said.eligible = (c.pinned /\ v.state \in CoreStates)
    <3> HIDE DEF v, said
    <3> QED BY <1>4, <2>1 DEF Verdict, Eligible
  <2>4. c.gone = "no" => c.tree = new BY <1>4 DEF TreeIsClean
  <2> HIDE DEF new, searched, said, v
  <2> QED BY <1>1, <1>4, <2>2, <2>3, <2>4 DEF VerdictIsTrue
<1> QED BY <1>2, <1>3, <1>4

(* The calls the cases are about are such calls.                           *)
LEMMA EditOfADiff ==
  ASSUME NEW old \in Seq(Line), NEW hunks \in Diffs(old)
  PROVE  Edit(old, hunks) \in Seq(Line)
<1>1. ASSUME NEW h \in HunksOf(old) PROVE InFile(h, old)
  <2>1. h.start \in 0 .. Len(old) /\ h.del \in 0 .. Len(old) /\ h.ins \in Insertions
    BY DEF HunksOf
  <2>2. h.del > 0 => h.start >= 1 /\ h.start + h.del - 1 <= Len(old) BY DEF HunksOf
  <2>3. Insertions \subseteq Seq(Line) BY FilesAreOfLines
  <2> QED BY <2>1, <2>2, <2>3 DEF InFile, Kept
<1>2. ASSUME NEW i \in Insertions, NEW file \in Seq(Line) PROVE InFile(Hunk(0, 0, i), file)
  BY FilesAreOfLines DEF Hunk, InFile, Kept
<1>3. CASE hunks = <<>> BY <1>3, EditOfNone
<1>4. ASSUME NEW h \in HunksOf(old), hunks = <<h>> PROVE Edit(old, hunks) \in Seq(Line)
  BY <1>1, <1>4, EditOfOne, HunkLeavesAFile
<1>5. ASSUME NEW h \in HunksOf(old), NEW i \in Insertions, hunks = <<h, Hunk(0, 0, i)>>
      PROVE  Edit(old, hunks) \in Seq(Line)
  <2>1. ApplyHunk(old, h) \in Seq(Line) BY <1>1, HunkLeavesAFile
  <2> QED BY <1>2, <1>5, <2>1, EditOfTwo, HunkLeavesAFile
<1> QED BY <1>3, <1>4, <1>5 DEF Diffs

LEMMA RegionOfAFile ==
  ASSUME NEW old \in Seq(Line) \ {<<>>}, NEW range \in Ranges(old)
  PROVE  IsRegion(ResolveOriginalRange(old, range), old)
<1>1. Len(old) \in Nat /\ Len(old) >= 1 OBVIOUS
<1>2. CASE range = WholeFile BY <1>1, <1>2 DEF ResolveOriginalRange, IsRegion
<1>3. CASE range # WholeFile
  <2>1. range \in (1 .. Len(old)) \X (1 .. Len(old) + 1) /\ range[1] <= range[2]
    BY <1>3 DEF Ranges
  <2> QED BY <1>1, <1>3, <2>1 DEF ResolveOriginalRange, IsRegion
<1> QED BY <1>2, <1>3

LEMMA CasesAreCalls == ASSUME ResolutionInit PROVE IsCall(resolving)
<1>1. CASE resolving \in DriftCases
  <2>1. PICK old \in OldFiles, gone \in {"no", "single"} :
          resolving \in UNION { {Case(old, hunks, range, gone) : hunks \in Diffs(old)} :
                                range \in Ranges(old) }
    BY <1>1 DEF DriftCases
  <2>2. PICK range \in Ranges(old), hunks \in Diffs(old) : resolving = Case(old, hunks, range, gone)
    BY <2>1
  <2>3. old \in Seq(Line) \ {<<>>} BY FilesAreOfLines
  <2>4. resolving.old = old /\ resolving.hunks = hunks /\ resolving.range = range
    BY <2>2 DEF Case
  <2>5. Edit(old, hunks) \in Seq(Line) BY <2>3, EditOfADiff
  <2>6. IsRegion(ResolveOriginalRange(old, range), old) BY <2>3, RegionOfAFile
  <2>7. Len(Edit(old, hunks)) \in Nat BY <2>5
  <2> QED BY <2>3, <2>4, <2>6, <2>7 DEF IsCall
<1>2. CASE resolving \in OutOfOrder
  <2> DEFINE old == LongestFile
             h == Hunk(1, 1, <<"z">>)
             c == Case(old, <<h>>, <<1, 1>>, "no")
  <2>1. old \in Seq(Line) /\ Len(old) \in Nat /\ Len(old) >= 1
    <3>1. old \in OldFiles BY ResolutionAssumption DEF LongestFile
    <3> QED BY <3>1, FilesAreOfLines
  <2>2. resolving.old = c.old /\ resolving.hunks = c.hunks /\ resolving.range = c.range
    BY <1>2 DEF OutOfOrder
  <2>3. c.old = old /\ c.hunks = <<h>> /\ c.range = <<1, 1>>
    <3> HIDE DEF h
    <3> QED BY DEF Case
  <2> HIDE DEF c
  <2>4. ApplyHunk(old, h) \in Seq(Line)
    <3>1. <<"z">> \in Seq(Line) BY DEF Line
    <3>2. InFile(h, old) BY <2>1, <3>1 DEF InFile, Hunk, Kept
    <3> HIDE DEF h
    <3> QED BY <2>1, <3>2, HunkLeavesAFile
  <2> HIDE DEF h
  <2>5. Len(Edit(old, <<h>>)) \in Nat BY <2>4, EditOfOne
  <2>6. IsRegion(ResolveOriginalRange(old, <<1, 1>>), old)
    BY <2>1 DEF ResolveOriginalRange, WholeFile, IsRegion
  <2> QED BY <2>1, <2>2, <2>3, <2>5, <2>6 DEF IsCall
<1> QED BY <1>1, <1>2 DEF ResolutionInit

(* Verdicts are true, for any files, insertions and limits.                *)
THEOREM VerdictsAreTrue == ResolutionInit => VerdictsHold
BY CasesAreCalls, ResolveIsTrue DEF VerdictsHold

----------------------------------------------------------------------------
(* Where parts run side by side, each takes its own steps or none. *)
LEMMA StepsOfEachPart ==
  [PartsNext]_partsVars => [CardsNext]_cardVars /\ [GcNext]_gcVars
BY DEF PartsNext, Aside, partsVars

(* Side by side, the cards and the sweep keep their types, and so what     *)
(* each of them promises is checked on states that are its own.            *)
THEOREM PartsTypeCorrect == PartsSpec => []PartsTypeOK
<1>1. PartsInit => CardsInit /\ GcInit
  BY DEF PartsInit
<1>2. PartsSpec => CardsSpec /\ GcSpec
  BY <1>1, StepsOfEachPart, PTL DEF PartsSpec, CardsSpec, GcSpec
<1>3. CardsTypeOK /\ GcTypeOK => PartsTypeOK
  BY DEF PartsTypeOK
<1> QED
  BY <1>2, <1>3, CardsTypeCorrect, GcTypeCorrect, PTL

=============================================================================
