--------------------------- MODULE ArtifactCards ---------------------------
(***************************************************************************)
(* The cards of an artifact as the script inside it shows them             *)
(* (sdk/cards.ts, sdk/reattach-cards.ts, provenance/identity.ts).  Every   *)
(* answered dispatch is an entry of one card's thread in the sidecar       *)
(* (store/annotation-store.ts).  The shell posts the store it fetched, and *)
(* each card is matched anew against the document of the moment: a matched *)
(* card floats beside its element, or is drawn by the rail, the others go  *)
(* to the drawer.  A message may have been on its way for long, and its    *)
(* fetch longer: any store there has been may arrive, an older one after a *)
(* newer, and a message may arrive as often as it was posted.              *)
(* A card is known by the dispatch that began it.                          *)
(***************************************************************************)
EXTENDS Naturals, FiniteSets, Sequences, SequencesExt, FiniteSetsExt

CONSTANTS
  Documents,       \* what the artifact may hold: sets of elements, each a
                   \* node with what its snapshot says of it
  Cited,           \* anchors a dispatch about an element may come back with
  MaxDispatches,
  MaxDocuments     \* bound on reloads and changes of the document

Element == UNION Documents
Dispatches == 1 .. MaxDispatches
Nobody == 0
NoAnchor == [file |-> "none", start |-> 0, stop |-> 0]

ASSUME CardsAssumption ==
  /\ MaxDispatches \in Nat /\ MaxDocuments \in Nat \ {0}
  /\ \A D \in Documents :
       /\ IsFiniteSet(D)
       /\ \A e \in D : \A anchor \in Cited[e] : anchor.start = 0 \/ anchor.start <= anchor.stop

VARIABLES
  doc,           \* elements of the document now
  documents,     \* how many there have been
  asked,         \* dispatches made, in order
  answers,       \* dispatches answered, in order: the sidecar
  home,          \* the card of each answered dispatch
  presentation,
  floats,        \* `rendered`, the real cards: the dispatches each shows
  waiting,       \* `rendered`, the placeholders
  drawer,
  matched,       \* card -> its live element and newest entry
  shown,         \* history: cards this load has been told of
  synced         \* history: the document each card was last looked for in

store == <<asked, answers, home>>
overlay == <<presentation, floats, waiting, drawer, matched, shown, synced>>
cardVars == <<doc, documents, store, overlay>>

(* The thread of a card, in the store after k answers: the answers it      *)
(* holds, the last of which is the newest.                                 *)
ThreadAt(c, k) == {i \in 1 .. k : home[answers[i]] = c}
Thread(c, k) == {answers[i] : i \in ThreadAt(c, k)}
Newest(c, k) == answers[Max(ThreadAt(c, k))]
CardsAt(k) == {home[answers[i]] : i \in 1 .. k}

CardsTypeOK ==
  /\ doc \in Documents /\ synced \in [Dispatches -> Documents]
  /\ documents \in 1 .. MaxDocuments
  /\ Len(asked) <= MaxDispatches
  /\ \A d \in DOMAIN asked :
       /\ asked[d].parent \in {Nobody} \cup ToSet(answers)
       /\ asked[d].card \in {Nobody} \cup CardsAt(Len(answers))
       /\ asked[d].snapshot.path \in {e.path : e \in Element}
  /\ \A c \in DOMAIN matched : matched[c].element \in synced[c]
  /\ IsInjective(answers) /\ ToSet(answers) \subseteq DOMAIN asked
  /\ \A d \in ToSet(answers) : home[d] \in ToSet(answers)
  /\ presentation \in {"inline", "rail"}
  /\ shown \subseteq CardsAt(Len(answers))
  /\ DOMAIN floats \cup DOMAIN matched \cup drawer \subseteq shown
  /\ waiting \subseteq DOMAIN asked

CardsInit ==
  /\ doc \in Documents
  /\ documents = 1
  /\ asked = <<>>
  /\ answers = <<>>
  /\ home = [d \in Dispatches |-> Nobody]
  /\ presentation = "inline"
  /\ floats = <<>>
  /\ waiting = {}
  /\ drawer = {}
  /\ matched = <<>>
  /\ shown = {}
  /\ synced = [c \in Dispatches |-> doc]

----------------------------------------------------------------------------
(* The elements a card may be matched with: a picture, which has no text,  *)
(* only if it cites a source.                                              *)
CollectCandidateElements(D) == {e \in D : e.text # "" \/ e.anchor # NoAnchor}

(* matchElement: the first tier with exactly one candidate.  The tier of   *)
(* the element's uid is left out: no document carries one.                 *)

AnchorsOverlap(a, b) ==
  /\ a.file = b.file
  /\ \/ a.start = 0 \/ b.start = 0
     \/ a.start <= b.stop /\ b.start <= a.stop

TextQuoteMatch(before, candidates) ==
  LET same == {e \in candidates : e.text = before.text}
  IN IF Cardinality(same) > 1 THEN {e \in same : e.context = before.context} ELSE same

\* Slip: a tier with several candidates takes any of them.
MatchElementAny(before, after) ==
  LET near == {e \in after : /\ before.anchor # NoAnchor /\ e.anchor # NoAnchor
                             /\ AnchorsOverlap(before.anchor, e.anchor)}
      tiers == <<near, TextQuoteMatch(before, after), {e \in after : e.path = before.path}>>
      tier == SelectInSeq(tiers, LAMBDA candidates : candidates # {})
  IN IF tier = 0 THEN {} ELSE {CHOOSE e \in tiers[tier] : TRUE}

MatchElement(before, after) ==
  LET near == {e \in after : /\ before.anchor # NoAnchor /\ e.anchor # NoAnchor
                             /\ AnchorsOverlap(before.anchor, e.anchor)}
      tiers == <<near, TextQuoteMatch(before, after), {e \in after : e.path = before.path}>>
      tier == SelectInSeq(tiers, LAMBDA candidates : Cardinality(candidates) = 1)
  IN IF tier = 0 THEN {} ELSE tiers[tier]

----------------------------------------------------------------------------
(* Dispatches.  The one posted about an element is answered with the place *)
(* where the cited source was found, which becomes the anchor of its card. *)

SnapshotFromDispatchElement(e, anchor) ==
  [path |-> e.path, anchor |-> anchor, text |-> e.text, context |-> e.context]

ComputeElementSnapshot(e) == SnapshotFromDispatchElement(e, e.anchor)

Ask(e, anchor) ==
  /\ Len(asked) < MaxDispatches
  /\ asked' = Append(asked, [parent |-> Nobody, card |-> Nobody,
                             snapshot |-> SnapshotFromDispatchElement(e, anchor)])
  /\ UNCHANGED <<doc, documents, answers, home, overlay>>

(* buildFollowUpPayload. *)
FollowUp(c) ==
  [parent |-> matched[c].latest, card |-> c,
   snapshot |-> ComputeElementSnapshot(matched[c].element)]

(* For a card that has a live element: from its own buttons, or on the     *)
(* rail's request (runAction).                                             *)
AskFollowUp(c) ==
  /\ Len(asked) < MaxDispatches
  /\ c \in DOMAIN matched
  /\ asked' = Append(asked, FollowUp(c))
  /\ UNCHANGED <<doc, documents, answers, home, overlay>>

(* appendCardEntry. *)
\* Slip: the thread is extended only after its newest entry.
CardOfNewest(d) ==
  LET parent == asked[d].parent
  IN IF parent \in ToSet(answers) /\ parent = Newest(home[parent], Len(answers))
     THEN home[parent] ELSE d

CardOf(d) ==
  IF asked[d].parent \in ToSet(answers) THEN home[asked[d].parent] ELSE d

\* Slip: a second answer to a dispatch is appended too.
AnsweredAgain(d) ==
  /\ d \in DOMAIN asked
  /\ home' = [home EXCEPT ![d] = CardOf(d)]
  /\ answers' = Append(answers, d)
  /\ UNCHANGED <<doc, documents, asked, overlay>>

Answered(d) ==
  /\ d \in DOMAIN asked \ ToSet(answers)
  /\ home' = [home EXCEPT ![d] = CardOf(d)]
  /\ answers' = Append(answers, d)
  /\ UNCHANGED <<doc, documents, asked, overlay>>

----------------------------------------------------------------------------
(* What the artifact does with a message of the shell: the store as a      *)
(* fetch found it, the presentation, a dispatch just created, a follow-up  *)
(* asked for in the rail.                                                  *)

Drawer(found, lost) == (drawer \ found) \cup lost

Floats(found, lost, k) ==
  LET kept == DOMAIN floats \ (found \cup lost)
      drawn == IF presentation = "rail" THEN {} ELSE found
  IN [c \in kept \cup drawn |-> IF c \in drawn THEN Thread(c, k) ELSE floats[c]]

SyncWith(k, at) ==
  LET found == {c \in CardsAt(k) : at[c] # {}}
      lost == CardsAt(k) \ found
  IN /\ matched' = [c \in (DOMAIN matched \ lost) \cup found |->
                      IF c \in found
                      THEN [element |-> CHOOSE e \in at[c] : TRUE, latest |-> Newest(c, k)]
                      ELSE matched[c]]
     /\ drawer' = Drawer(found, lost)
     /\ floats' = Floats(found, lost, k)

RemovePending(k) == waiting' = waiting \ ToSet(SubSeq(answers, 1, k))

Sync(k) ==
  /\ SyncWith(k, [c \in CardsAt(k) |->
                    MatchElement(asked[c].snapshot, CollectCandidateElements(doc))])
  /\ RemovePending(k)
  /\ shown' = shown \cup CardsAt(k)
  /\ synced' = [c \in Dispatches |-> IF c \in CardsAt(k) THEN doc ELSE synced[c]]
  /\ UNCHANGED <<doc, documents, store, presentation>>

(* setPresentation: everything drawn in the document goes. *)
PresentationArrives ==
  /\ presentation = "inline"
  /\ presentation' = "rail"
  /\ floats' = <<>>
  /\ waiting' = {}
  /\ UNCHANGED <<doc, documents, store, drawer, matched, shown, synced>>

(* renderPendingCard.  It asks that a selection of this load has recorded  *)
(* the uid of the element, which any element of the same path and text     *)
(* shares; the model lets every placeholder appear.                        *)
CreatedArrives(d) ==
  /\ d \in DOMAIN asked
  /\ presentation = "inline"
  /\ \A c \in DOMAIN floats : d \notin floats[c]
  /\ waiting' = waiting \cup {d}
  /\ UNCHANGED <<doc, documents, store, presentation, floats, drawer, matched,
                 shown, synced>>

(* The artifact's own scripts may change it, and a reload starts anew. *)
DocumentChanges(next) ==
  /\ documents < MaxDocuments /\ next # doc
  /\ doc' = next
  /\ documents' = documents + 1
  /\ UNCHANGED <<store, overlay>>

FrameReloads(next) ==
  /\ documents < MaxDocuments
  /\ doc' = next /\ synced' = [c \in Dispatches |-> next]
  /\ documents' = documents + 1
  /\ presentation' = "inline"
  /\ floats' = <<>> /\ matched' = <<>>
  /\ waiting' = {} /\ drawer' = {} /\ shown' = {}
  /\ UNCHANGED store

CardsNext ==
  \/ \E e \in doc : \E anchor \in Cited[e] : Ask(e, anchor)
  \/ \E d \in Dispatches : AskFollowUp(d) \/ Answered(d) \/ CreatedArrives(d)
  \/ \E k \in 0 .. Len(answers) : Sync(k)
  \/ PresentationArrives
  \/ \E D \in Documents : DocumentChanges(D) \/ FrameReloads(D)

CardsSpec == CardsInit /\ [][CardsNext]_cardVars

----------------------------------------------------------------------------
(* Every card the artifact has been told of is shown exactly once: in the  *)
(* drawer or with its element, floating only outside the rail, and never   *)
(* beside a placeholder for one of the answers it shows.  While the        *)
(* document has a candidate that is what the card's element was, the card  *)
(* is with no other, however many look like it; and it is with it if it    *)
(* has a path of its own (cards.ts:353 and 404, identity.ts:92).           *)
Unchanged(c) ==
  {e \in CollectCandidateElements(synced[c]) : ComputeElementSnapshot(e) = asked[c].snapshot}

CardsShownOnce ==
  /\ drawer \cap DOMAIN matched = {}
  /\ drawer \cup DOMAIN matched = shown
  /\ DOMAIN floats = IF presentation = "rail" THEN {} ELSE DOMAIN matched
  /\ \A c \in DOMAIN floats : floats[c] \cap waiting = {}
  /\ \A c \in shown : \A e \in Unchanged(c) :
       /\ c \in DOMAIN matched => matched[c].element \in Unchanged(c)
       /\ c \notin DOMAIN matched =>
            \E f \in CollectCandidateElements(synced[c]) \ {e} : f.path = e.path

(* An answered follow-up is in the thread of the card it was asked from,   *)
(* also when that card was asked again meanwhile, or when the store the    *)
(* artifact saw last was an old one (annotation-store.ts:168,              *)
(* follow-up.ts:40).                                                       *)
FollowUpStaysOnItsCard ==
  \A d \in ToSet(answers) : asked[d].card # Nobody => home[d] = asked[d].card
=============================================================================
