---------------------------- MODULE ExportProofs ----------------------------
(***************************************************************************)
(* Theorems about the export, for any documents, assets and limits.  The   *)
(* code's loops are functions of their turns in the models, and the facts  *)
(* about them come from two lemmas on such functions, LoopHolds and        *)
(* LoopRuns: one says what a turn keeps is kept, the other that the        *)
(* function the model CHOOSEs or defines by recursion is there at all.     *)
(***************************************************************************)
EXTENDS HtmlWalk, ExportTransform, WellFoundedInduction, TLAPS

----------------------------------------------------------------------------
(* The least of some numbers. *)
LEMMA HasLeast ==
  ASSUME NEW T \in SUBSET Nat, T # {}
  PROVE  \E m \in T : \A k \in T : m <= k
<1>1. PICK m \in T : \A k \in T : <<k, m>> \notin OpToRel(<, Nat)
  BY NatLessThanWellFounded, WFMin, Zenon
<1>2. \A k \in T : ~(k < m) BY <1>1 DEF OpToRel
<1> QED BY <1>2

----------------------------------------------------------------------------
(* Loops.  The model writes a loop as a function of the turns that have    *)
(* been taken.  What is to hold after n turns is a set of states, S[n].    *)

(* What the first state has and each turn keeps, all states have.          *)
LEMMA LoopHolds ==
  ASSUME NEW N \in Nat, NEW S, NEW f, f[0] \in S[0],
         \A n \in 1 .. N : f[n - 1] \in S[n - 1] => f[n] \in S[n]
  PROVE  \A n \in 0 .. N : f[n] \in S[n]
<1> DEFINE T == {n \in 0 .. N : f[n] \notin S[n]}
<1>1. SUFFICES ASSUME T # {} PROVE FALSE OBVIOUS
<1>2. PICK m \in T : \A k \in T : m <= k
  <2>1. T \in SUBSET Nat OBVIOUS
  <2> HIDE DEF T
  <2> QED BY <1>1, <2>1, HasLeast
<1>3. m # 0 BY <1>2
<1>4. m \in 1 .. N /\ m - 1 \in 0 .. N /\ ~(m <= m - 1) BY <1>2, <1>3
<1>5. m - 1 \notin T
  <2> HIDE DEF T
  <2> QED BY <1>2, <1>4
<1> QED BY <1>4, <1>5

(* A loop whose turns keep something has a function of its turns.          *)
Loops(f, N, S, base, step) ==
  /\ f = [n \in 0 .. N |-> f[n]]
  /\ f[0] = base /\ \A n \in 1 .. N : f[n] = step[n][f[n - 1]]
  /\ \A n \in 0 .. N : f[n] \in S[n]

(* And such a loop exists, which a CHOOSE of it needs. *)
LEMMA LoopRuns ==
  ASSUME NEW N \in Nat, NEW S, NEW base \in S[0], NEW step,
         \A n \in 1 .. N : \A x \in S[n - 1] : step[n][x] \in S[n]
  PROVE  \E f : Loops(f, N, S, base, step)
<1> DEFINE Runs(f, k) ==
             /\ f = [n \in 0 .. k |-> IF n = 0 THEN base ELSE step[n][f[n - 1]]]
             /\ \A n \in 0 .. k : f[n] \in S[n]
           T == {k \in 0 .. N : ~ \E f : Runs(f, k)}
<1>1. SUFFICES ASSUME T # {} PROVE FALSE
  <2>1. PICK f : Runs(f, N) OBVIOUS
  <2>2. f = [n \in 0 .. N |-> f[n]] /\ f[0] = base /\ \A n \in 0 .. N : f[n] \in S[n] BY <2>1
  <2>3. \A n \in 1 .. N : n \in 0 .. N /\ n # 0 OBVIOUS
  <2>4. \A n \in 1 .. N : f[n] = step[n][f[n - 1]] BY <2>1, <2>3
  <2> QED BY <2>2, <2>4 DEF Loops
<1>2. PICK m \in T : \A k \in T : m <= k
  <2>1. T \in SUBSET Nat OBVIOUS
  <2> HIDE DEF T
  <2> QED BY <1>1, <2>1, HasLeast
<1>3. m # 0
  <2>1. Runs([n \in 0 .. 0 |-> base], 0) OBVIOUS
  <2>2. 0 \notin T BY <2>1
  <2> QED BY <1>2, <2>2
<1>4. m \in 1 .. N /\ m - 1 \in 0 .. N /\ ~(m <= m - 1) BY <1>2, <1>3
<1>5. m - 1 \notin T
  <2> HIDE DEF T
  <2> QED BY <1>2, <1>4
<1>6. PICK f : Runs(f, m - 1) BY <1>4, <1>5
<1> DEFINE g == [n \in 0 .. m |-> IF n = m THEN step[m][f[m - 1]] ELSE f[n]]
<1>7. f[m - 1] \in S[m - 1] /\ step[m][f[m - 1]] \in S[m] BY <1>4, <1>6
<1>8. \A n \in 0 .. m : g[n] \in S[n]
  <2>1. \A n \in 0 .. m : n = m \/ n \in 0 .. m - 1 BY <1>4
  <2> QED BY <1>6, <1>7, <2>1
<1>9. \A n \in 0 .. m : g[n] = IF n = 0 THEN base ELSE step[n][g[n - 1]]
  <2> SUFFICES ASSUME NEW n \in 0 .. m
               PROVE  g[n] = IF n = 0 THEN base ELSE step[n][g[n - 1]] OBVIOUS
  <2>1. CASE n = m
    <3>1. n - 1 # m /\ n - 1 \in 0 .. m /\ n # 0 BY <1>4, <2>1
    <3>2. g[n - 1] = f[m - 1] /\ g[n] = step[m][f[m - 1]] BY <2>1, <3>1
    <3> HIDE DEF g
    <3> QED BY <2>1, <3>1, <3>2
  <2>2. CASE n # m
    <3>1. n \in 0 .. m - 1 BY <1>4, <2>2
    <3>2. f[n] = IF n = 0 THEN base ELSE step[n][f[n - 1]] BY <1>6, <3>1
    <3>3. n # 0 => n - 1 \in 0 .. m /\ n - 1 # m BY <1>4, <3>1
    <3>4. g[n] = f[n] /\ (n # 0 => g[n - 1] = f[n - 1]) BY <2>2, <3>3
    <3> HIDE DEF g
    <3> QED BY <3>2, <3>4
  <2> QED BY <2>1, <2>2
<1>10. g = [n \in 0 .. m |-> IF n = 0 THEN base ELSE step[n][g[n - 1]]]
  <2>1. g = [n \in 0 .. m |-> g[n]] OBVIOUS
  <2> HIDE DEF g
  <2> QED BY <1>9, <2>1
<1>11. Runs(g, m)
  <2> HIDE DEF g
  <2> QED BY <1>8, <1>10
<1>12. m \notin T BY <1>11
<1> QED BY <1>2, <1>12

----------------------------------------------------------------------------
(***************************************************************************)
(* The walks over a document.                                              *)
(***************************************************************************)

(* What a stack of open elements holds. *)
Tag == {"img", "base", "script", "template", "noscript", "plaintext", "svg", "foreignobject"}
Namespaces == {"html", "svg"}
Entry == [tag : Tag, namespace : Namespaces]

(* Every token has a kind and one of the tags. *)
LEMMA TokensHaveTags ==
  \A token \in Token : token.tag \in Tag /\ token.kind \in {"start", "slashed", "close"}
BY DEF Token, Start, Slashed, Close, Tag

(* Stacks stay stacks. *)
LEMMA NamespacesAreTwo ==
  ASSUME NEW stack \in Seq(Entry), NEW tag
  PROVE  ElementNamespace(tag, stack) \in Namespaces
<1>1. stack # <<>> => stack[Len(stack)] \in Entry OBVIOUS
<1> QED BY <1>1 DEF ElementNamespace, CurrentNamespace, Last, Entry, Namespaces

LEMMA PushKeepsAStack ==
  ASSUME NEW stack \in Seq(Entry), NEW token \in Token, NEW namespace \in Namespaces
  PROVE  Push(stack, token, namespace) \in Seq(Entry)
<1>1. [tag |-> token.tag, namespace |-> ChildNamespace(token.tag, namespace)] \in Entry
  BY TokensHaveTags DEF Entry, ChildNamespace, Namespaces
<1> QED BY <1>1 DEF Push

(* The greatest of some numbers, which a stack is cut back to. *)
LEMMA HasMost ==
  ASSUME NEW k \in Nat, NEW S \in SUBSET (1 .. k), S # {}
  PROVE  Max(S) \in S
<1> DEFINE T == {k - i : i \in S}
<1>1. T \in SUBSET Nat /\ T # {}
  <2>1. \A i \in S : k - i \in Nat OBVIOUS
  <2> QED BY <2>1
<1>2. PICK m \in T : \A j \in T : m <= j
  <2> HIDE DEF T
  <2> QED BY <1>1, HasLeast
<1>3. PICK i \in S : m = k - i OBVIOUS
<1>4. \A j \in S : i >= j
  <2> SUFFICES ASSUME NEW j \in S PROVE i >= j OBVIOUS
  <2>1. k - i <= k - j BY <1>2, <1>3
  <2>2. i \in Int /\ j \in Int OBVIOUS
  <2> HIDE DEF T
  <2> QED BY <2>1, <2>2
<1> QED BY <1>4 DEF Max

LEMMA PopKeepsAStack ==
  ASSUME NEW stack \in Seq(Entry), NEW tag
  PROVE  Pop(stack, tag) \in Seq(Entry)
<1> DEFINE open == {i \in DOMAIN stack : stack[i].tag = tag}
<1>1. CASE open = {} BY <1>1 DEF Pop
<1>2. CASE open # {}
  <2>1. open \in SUBSET (1 .. Len(stack)) /\ Len(stack) \in Nat OBVIOUS
  <2>2. Max(open) \in 1 .. Len(stack)
    <3> HIDE DEF open
    <3> QED BY <1>2, <2>1, HasMost
  <2>3. SubSeq(stack, 1, Max(open) - 1) \in Seq(Entry)
    <3> HIDE DEF open
    <3> QED BY <2>2
  <2> QED BY <1>2, <2>3 DEF Pop
<1> QED BY <1>1, <1>2

(* Contents end after they begin, within the document or never. *)
LEMMA RawTextCloses ==
  ASSUME NEW tokens \in Seq(Token), NEW from \in 1 .. Len(tokens) + 1, NEW tag
  PROVE  RawTextClose(tokens, from, tag) \in from .. Len(tokens) + 1
<1> DEFINE T == {i \in from .. Len(tokens) : tokens[i] = Close(tag)} \cup {Never(tokens)}
<1>1. T \in SUBSET Nat /\ T # {} /\ \A i \in T : i \in from .. Len(tokens) + 1 BY DEF Never
<1>2. \E m \in T : \A k \in T : m <= k
  <2> HIDE DEF T
  <2> QED BY <1>1, HasLeast
<1>3. Min(T) \in T
  <2> HIDE DEF T
  <2> QED BY <1>2 DEF Min
<1> QED BY <1>1, <1>3 DEF RawTextClose

(* A scan for the end of a template, begun at a position. *)
Scans(tokens, from) ==
  {scan \in [at : Nat, depth : Nat] :
     from <= scan.at /\ (scan.depth = 0 => scan.at <= Len(tokens))}

(* Looking for the end of a template moves on by a token each turn. *)
LEMMA TemplateTurns ==
  ASSUME NEW tokens \in Seq(Token), NEW from \in 1 .. Len(tokens) + 1,
         NEW scan \in Scans(tokens, from)
  PROVE  TemplateTurn(tokens, scan) \in Scans(tokens, from)
<1> DEFINE token == tokens[scan.at]
           turn == TemplateTurn(tokens, scan)
<1>1. CASE scan.depth = 0 \/ scan.at > Len(tokens) BY <1>1 DEF TemplateTurn
<1>2. CASE scan.depth # 0 /\ scan.at <= Len(tokens)
  <2>1. /\ scan.at \in Nat /\ scan.depth \in Nat /\ Len(tokens) \in Nat /\ from \in Nat
        /\ scan = Scan(scan.at, scan.depth) /\ from <= scan.at
    BY DEF Scans, Scan
  <2>2. scan.at + 1 \in 1 .. Len(tokens) + 1 /\ from <= scan.at + 1 BY <1>2, <2>1
  <2>3. RawTextClose(tokens, scan.at + 1, token.tag) \in scan.at + 1 .. Len(tokens) + 1
    BY <2>2, RawTextCloses
  <2>4. ASSUME NEW at \in Nat, NEW depth \in Nat, from <= at, depth = 0 => at <= Len(tokens)
        PROVE  Scan(at, depth) \in Scans(tokens, from)
    BY <2>4 DEF Scans, Scan
  <2>5. CASE token = Close("template") /\ scan.depth = 1
    <3>1. turn = Scan(scan.at, 0) BY <1>2, <2>1, <2>5 DEF TemplateTurn
    <3> QED BY <1>2, <2>1, <2>4, <3>1
  <2>6. CASE token = Close("template") /\ scan.depth # 1
    <3>1. turn = Scan(scan.at + 1, scan.depth - 1)
      BY <1>2, <2>1, <2>6 DEF TemplateTurn
    <3>2. scan.depth - 1 \in Nat /\ scan.depth - 1 # 0 BY <1>2, <2>1, <2>6
    <3> QED BY <2>1, <2>2, <2>4, <3>1, <3>2
  <2>7. CASE token # Close("template")
    <3>1. \/ turn = Scan(scan.at + 1, scan.depth)
          \/ turn = Scan(scan.at + 1, scan.depth + 1)
          \/ turn = Scan(Len(tokens) + 1, scan.depth)
          \/ turn = Scan(RawTextClose(tokens, scan.at + 1, token.tag) + 1, scan.depth)
      <4> HIDE DEF token
      <4>1. CASE token.kind = "close" \/ (token.tag \notin RawText \cup {"template", "plaintext"})
        BY <1>2, <2>1, <2>7, <4>1 DEF TemplateTurn, token
      <4>2. CASE token.kind # "close" /\ token.tag = "template"
        BY <1>2, <2>1, <2>7, <4>2 DEF TemplateTurn, token
      <4>3. CASE token.kind # "close" /\ token.tag = "plaintext"
        BY <1>2, <2>1, <2>7, <4>3 DEF TemplateTurn, Never, token
      <4>4. CASE token.kind # "close" /\ token.tag \in RawText
        BY <1>2, <2>1, <2>7, <4>4 DEF TemplateTurn, RawText, token
      <4> QED BY <4>1, <4>2, <4>3, <4>4
    <3>2. scan.depth + 1 \in Nat /\ scan.depth + 1 # 0 /\ from <= Len(tokens) + 1 BY <2>1, <2>2
    <3> HIDE DEF token
    <3> QED BY <1>2, <2>1, <2>2, <2>3, <2>4, <3>1, <3>2
  <2> QED BY <2>5, <2>6, <2>7
<1> QED BY <1>1, <1>2 DEF Scans

(* Where the template ends is a token ahead, or the end. *)
LEMMA TemplateCloses ==
  ASSUME NEW tokens \in Seq(Token), NEW from \in 1 .. Len(tokens) + 1
  PROVE  TemplateClose(tokens, from) \in from .. Len(tokens) + 1
<1> DEFINE N == Len(tokens) + 1
           begin == Scan(from, 1)
           A == Scans(tokens, from)
           S == [n \in 0 .. N |-> A]
           step == [n \in 1 .. N |-> [x \in A |-> TemplateTurn(tokens, x)]]
           P(g) == g = [n \in 0 .. Len(tokens) + 1 |->
                          IF n = 0 THEN begin ELSE TemplateTurn(tokens, g[n - 1])]
           scan == CHOOSE g : P(g)
<1>1. N \in Nat /\ begin \in A BY DEF Scans, Scan
<1>2. \A x \in A : TemplateTurn(tokens, x) \in A
  <2> SUFFICES ASSUME NEW x \in A PROVE TemplateTurn(tokens, x) \in A OBVIOUS
  <2> HIDE DEF A
  <2> QED BY TemplateTurns DEF A
<1> HIDE DEF A, begin
<1>3. PICK f : Loops(f, N, S, begin, step)
  <2>1. begin \in S[0] BY <1>1
  <2>2. \A n \in 1 .. N : \A x \in S[n - 1] : step[n][x] \in S[n]
    <3> SUFFICES ASSUME NEW n \in 1 .. N, NEW x \in S[n - 1] PROVE step[n][x] \in S[n] OBVIOUS
    <3>1. n - 1 \in 0 .. N /\ n \in 0 .. N BY <1>1
    <3>2. x \in A BY <3>1
    <3> QED BY <1>2, <3>1, <3>2
  <2> HIDE DEF N, S, step
  <2> QED BY <1>1, <2>1, <2>2, LoopRuns
<1>4. \E g : P(g)
  <2>2. \A n \in 0 .. N : n # 0 => n \in 1 .. N /\ n - 1 \in 0 .. N BY <1>1
  <2>3. \A n \in 0 .. N : n # 0 => step[n][f[n - 1]] = TemplateTurn(tokens, f[n - 1])
    BY <1>3, <2>2 DEF Loops
  <2>4. P(f)
    <3>1. \A n \in 0 .. N : f[n] = IF n = 0 THEN begin ELSE TemplateTurn(tokens, f[n - 1])
      BY <1>3, <2>2, <2>3 DEF Loops
    <3> HIDE DEF S, step
    <3> QED BY <1>3, <3>1 DEF Loops
  <2> QED BY <2>4
<1>5. P(scan) BY <1>4
<1>6. \A n \in 0 .. N : scan[n] \in S[n]
  <2>1. scan[0] \in S[0]
    <3>1. 0 \in 0 .. N BY <1>1
    <3>2. scan[0] = begin
      <4> HIDE DEF scan
      <4> QED BY <1>5, <3>1
    <3> QED BY <1>1, <3>1, <3>2
  <2>2. \A n \in 1 .. N : scan[n - 1] \in S[n - 1] => scan[n] \in S[n]
    <3> SUFFICES ASSUME NEW n \in 1 .. N, scan[n - 1] \in S[n - 1] PROVE scan[n] \in S[n] OBVIOUS
    <3>1. n - 1 \in 0 .. N /\ n \in 0 .. N /\ n # 0 BY <1>1
    <3>2. scan[n] = TemplateTurn(tokens, scan[n - 1]) BY <1>5, <3>1
    <3> HIDE DEF scan, P
    <3> QED BY <1>2, <3>1, <3>2
  <2> HIDE DEF scan, S, N
  <2> QED BY <1>1, <2>1, <2>2, LoopHolds
<1>7. scan[N] \in A /\ Len(tokens) + 1 \in 0 .. N BY <1>1, <1>6
<1>8. TemplateClose(tokens, from) = IF scan[N].depth = 0 THEN scan[N].at ELSE Never(tokens)
  BY DEF TemplateClose, begin
<1> HIDE DEF scan
<1> QED BY <1>7, <1>8 DEF A, Scans, Never

(* The same of any element whose content is passed over. *)
LEMMA ContentCloses ==
  ASSUME NEW tokens \in Seq(Token), NEW from \in 1 .. Len(tokens) + 1, NEW tag
  PROVE  ContentClose(tokens, from, tag) \in from .. Len(tokens) + 1
BY RawTextCloses, TemplateCloses DEF ContentClose

(* What a walk is between two turns, and what a turn makes of it.          *)
Visits == [at : Nat, namespace : Namespaces, parent : Tag \cup {""}]
Walks == [at : Nat, stack : Seq(Entry), seen : SUBSET Visits]

LEMMA WalksBegin == WalkStart \in Walks
<1>1. <<>> \in Seq(Entry) OBVIOUS
<1> QED BY <1>1 DEF WalkStart, Walks

LEMMA VisitsAre ==
  ASSUME NEW walk \in Walks, NEW namespace \in Namespaces
  PROVE  Visit(walk.at, namespace, walk.stack) \in Visits
<1>1. walk.at \in Nat /\ walk.stack \in Seq(Entry) BY DEF Walks
<1>2. walk.stack # <<>> => walk.stack[Len(walk.stack)] \in Entry BY <1>1
<1>3. HtmlParent(walk.stack) \in Tag \cup {""} BY <1>2 DEF HtmlParent, Last, Entry
<1> QED BY <1>1, <1>3 DEF Visit, Visits

(* The moves of a walk. *)
LEMMA Going ==
  ASSUME NEW walk \in Walks, NEW at \in Nat
  PROVE  /\ Goes(walk, at) \in Walks /\ Goes(walk, at).at = at
         /\ Goes(walk, at).stack = walk.stack /\ Goes(walk, at).seen = walk.seen
BY DEF Goes, Walks

(* The steps a turn is made of: each leaves a walk, and none goes back. *)
LEMMA Seeing ==
  ASSUME NEW walk \in Walks, NEW namespace \in Namespaces
  PROVE  /\ Sees(walk, namespace) \in Walks /\ Sees(walk, namespace).at = walk.at
         /\ Sees(walk, namespace).stack = walk.stack
         /\ Sees(walk, namespace).seen = walk.seen \cup {Visit(walk.at, namespace, walk.stack)}
<1>1. Visit(walk.at, namespace, walk.stack) \in Visits BY VisitsAre
<1>2. walk.seen \cup {Visit(walk.at, namespace, walk.stack)} \in SUBSET Visits
  BY <1>1 DEF Walks
<1> QED BY <1>2 DEF Sees, Walks

LEMMA Closing ==
  ASSUME NEW walk \in Walks, NEW tag
  PROVE  /\ Closes(walk, tag) \in Walks
         /\ Closes(walk, tag).at = walk.at + 1 /\ Closes(walk, tag).at > walk.at
         /\ Closes(walk, tag).stack = Pop(walk.stack, tag)
         /\ Closes(walk, tag).seen = walk.seen
<1>1. walk.stack \in Seq(Entry) BY DEF Walks
<1>2. Pop(walk.stack, tag) \in Seq(Entry) BY <1>1, PopKeepsAStack
<1>3. walk.at \in Nat /\ walk.at + 1 \in Nat /\ walk.at + 1 > walk.at BY DEF Walks
<1>4. Closes(walk, tag).at = walk.at + 1 BY DEF Closes, Walks
<1> QED BY <1>2, <1>3, <1>4 DEF Closes, Walks

LEMMA Opening ==
  ASSUME NEW walk \in Walks, NEW token \in Token, NEW namespace \in Namespaces
  PROVE  /\ Opens(walk, token, namespace) \in Walks
         /\ Opens(walk, token, namespace).at = walk.at + 1
         /\ Opens(walk, token, namespace).at > walk.at
         /\ Opens(walk, token, namespace).stack = Push(walk.stack, token, namespace)
         /\ Opens(walk, token, namespace).seen = walk.seen
<1>1. walk.stack \in Seq(Entry) BY DEF Walks
<1>2. Push(walk.stack, token, namespace) \in Seq(Entry) BY <1>1, PushKeepsAStack
<1>3. walk.at \in Nat /\ walk.at + 1 \in Nat /\ walk.at + 1 > walk.at BY DEF Walks
<1>4. Opens(walk, token, namespace).at = walk.at + 1 BY DEF Opens, Walks
<1> QED BY <1>2, <1>3, <1>4 DEF Opens, Walks

LEMMA SteppingOver ==
  ASSUME NEW tokens \in Seq(Token), NEW walk \in Walks, TokensLeft(tokens, walk), NEW tag
  PROVE  LET over == StepsOver(tokens, walk, tag) IN
         /\ over \in Walks /\ over.at > walk.at
         /\ over.at = ContentClose(tokens, walk.at + 1, tag) + 1
         /\ over.stack = walk.stack /\ over.seen = walk.seen
<1>1. walk.at + 1 \in 1 .. Len(tokens) + 1 /\ walk.at \in Nat BY DEF TokensLeft, Walks
<1>2. ContentClose(tokens, walk.at + 1, tag) \in walk.at + 1 .. Len(tokens) + 1
  BY <1>1, ContentCloses
<1>3. /\ ContentClose(tokens, walk.at + 1, tag) + 1 \in Nat
      /\ ContentClose(tokens, walk.at + 1, tag) + 1 > walk.at BY <1>1, <1>2
<1> QED BY <1>3, Going DEF StepsOver

(* A turn goes on. *)
LEMMA TokenHere ==
  ASSUME NEW tokens \in Seq(Token), NEW walk \in Walks, TokensLeft(tokens, walk)
  PROVE  /\ tokens[walk.at] \in Token
         /\ ElementNamespace(tokens[walk.at].tag, walk.stack) \in Namespaces
         /\ walk.at \in Nat /\ walk.at + 1 \in Nat /\ Never(tokens) \in Nat
         /\ Never(tokens) > walk.at /\ walk.at + 1 > walk.at
<1>1. walk.at \in 1 .. Len(tokens) /\ Len(tokens) \in Nat BY DEF TokensLeft
<1>2. walk.stack \in Seq(Entry) BY DEF Walks
<1> QED BY <1>1, <1>2, NamespacesAreTwo DEF Never

(* Wherever a turn takes a walk. *)
Onward(tokens, walk, token, namespace) ==
  UNION {{Goes(w, Never(tokens)), Closes(w, token.tag), Opens(w, token, namespace),
          StepsOver(tokens, w, token.tag)} : w \in {walk, Sees(walk, namespace)}}

(* A turn that ends in one of these steps is a walk further on. *)
LEMMA OnwardIsOn ==
  ASSUME NEW tokens \in Seq(Token), NEW walk \in Walks, TokensLeft(tokens, walk)
  PROVE  LET token == tokens[walk.at] IN
         \A next \in Onward(tokens, walk, token, ElementNamespace(token.tag, walk.stack)) :
           next \in Walks /\ next.at > walk.at
<1> DEFINE token == tokens[walk.at]
           namespace == ElementNamespace(token.tag, walk.stack)
<1>1. /\ token \in Token /\ namespace \in Namespaces
      /\ walk.at \in Nat /\ walk.at + 1 \in Nat /\ Never(tokens) \in Nat
      /\ Never(tokens) > walk.at /\ walk.at + 1 > walk.at BY TokenHere
<1> HIDE DEF token, namespace
<1>2. ASSUME NEW w \in {walk, Sees(walk, namespace)},
             NEW next \in {Goes(w, Never(tokens)), Closes(w, token.tag),
                           Opens(w, token, namespace), StepsOver(tokens, w, token.tag)}
      PROVE  next \in Walks /\ next.at > walk.at
  <2>0. w \in Walks /\ w.at = walk.at BY <1>1, Seeing
  <2>1. w \in Walks /\ w.at = walk.at /\ w.at + 1 > walk.at BY <1>1, <2>0
  <2>2. TokensLeft(tokens, w) BY <2>1 DEF TokensLeft
  <2>3. Goes(w, Never(tokens)) \in Walks /\ Goes(w, Never(tokens)).at > walk.at
    BY <1>1, <2>1, Going
  <2>4. Closes(w, token.tag) \in Walks /\ Closes(w, token.tag).at > walk.at
    BY <1>1, <2>1, Closing
  <2>5. Opens(w, token, namespace) \in Walks /\ Opens(w, token, namespace).at > walk.at
    BY <1>1, <2>1, Opening
  <2>6. StepsOver(tokens, w, token.tag) \in Walks /\ StepsOver(tokens, w, token.tag).at > walk.at
    BY <2>1, <2>2, SteppingOver
  <2> QED BY <2>3, <2>4, <2>5, <2>6
<1>3. \A next \in Onward(tokens, walk, token, namespace) : next \in Walks /\ next.at > walk.at
  BY <1>2 DEF Onward
<1> QED BY <1>3 DEF token, namespace

(* Which every turn of the three walks does, so that they end. *)
LEMMA TransformTurnsGoOn ==
  ASSUME NEW tokens \in Seq(Token), NEW walk \in Walks, TokensLeft(tokens, walk)
  PROVE  TransformTurn(tokens, walk) \in Walks /\ TransformTurn(tokens, walk).at > walk.at
<1> DEFINE token == tokens[walk.at]
           namespace == ElementNamespace(token.tag, walk.stack)
<1>1. TransformTurn(tokens, walk) \in Onward(tokens, walk, token, namespace)
  BY DEF TransformTurn, Onward
<1> QED BY <1>1, OnwardIsOn

LEMMA RemoteTurnsGoOn ==
  ASSUME NEW tokens \in Seq(Token), NEW walk \in Walks, TokensLeft(tokens, walk)
  PROVE  RemoteTurn(tokens, walk) \in Walks /\ RemoteTurn(tokens, walk).at > walk.at
<1> DEFINE token == tokens[walk.at]
           namespace == ElementNamespace(token.tag, walk.stack)
<1>1. RemoteTurn(tokens, walk) \in Onward(tokens, walk, token, namespace)
  BY DEF RemoteTurn, Onward
<1> QED BY <1>1, OnwardIsOn

LEMMA BaseTurnsGoOn ==
  ASSUME NEW tokens \in Seq(Token), NEW walk \in Walks, TokensLeft(tokens, walk)
  PROVE  BaseTurn(tokens, walk) \in Walks /\ BaseTurn(tokens, walk).at > walk.at
<1> DEFINE token == tokens[walk.at]
           namespace == ElementNamespace(token.tag, walk.stack)
<1>1. BaseTurn(tokens, walk) \in Onward(tokens, walk, token, namespace)
  BY DEF BaseTurn, Onward
<1> QED BY <1>1, OnwardIsOn

(* The walks as loops: one more turn for each token, and none to spare.    *)
After(tokens, n) == {w \in Walks : TokensLeft(tokens, w) => w.at > n}

(* The three walks as functions of their turns. *)
LEMMA TransformLoop ==
  ASSUME NEW tokens \in Seq(Token)
  PROVE  \E walk :
           /\ TransformMarkup(tokens) = walk[Len(tokens)] /\ walk[0] = WalkStart
           /\ \A n \in 1 .. Len(tokens) :
                walk[n] = IF TokensLeft(tokens, walk[n - 1]) THEN TransformTurn(tokens, walk[n - 1])
                          ELSE walk[n - 1]
           /\ \A n \in 0 .. Len(tokens) : walk[n] \in After(tokens, n)
<1> DEFINE N == Len(tokens)
           Turn(w) == IF TokensLeft(tokens, w) THEN TransformTurn(tokens, w) ELSE w
           S == [n \in 0 .. N |-> After(tokens, n)]
           step == [n \in 1 .. N |-> [w \in Walks |-> Turn(w)]]
           P(g) == g = [n \in 0 .. Len(tokens) |->
                          IF n = 0 THEN WalkStart
                          ELSE IF TokensLeft(tokens, g[n - 1]) THEN TransformTurn(tokens, g[n - 1])
                          ELSE g[n - 1]]
           walk == CHOOSE g : P(g)
<1>1. N \in Nat /\ WalkStart \in S[0]
  <2>1. 0 \in 0 .. N /\ WalkStart.at = 1 BY DEF WalkStart
  <2> QED BY <2>1, WalksBegin DEF After
<1>2. \A n \in 1 .. N : n \in 0 .. N /\ n - 1 \in 0 .. N /\ n # 0 OBVIOUS
<1>3. \A n \in 1 .. N : \A w \in S[n - 1] : Turn(w) \in S[n]
  <2> SUFFICES ASSUME NEW n \in 1 .. N, NEW w \in S[n - 1] PROVE Turn(w) \in S[n] OBVIOUS
  <2>1. w \in After(tokens, n - 1) /\ S[n] = After(tokens, n) BY <1>2
  <2>2. CASE TokensLeft(tokens, w)
    <3>1. TransformTurn(tokens, w) \in Walks /\ TransformTurn(tokens, w).at > w.at
      BY <2>1, <2>2, TransformTurnsGoOn DEF After
    <3>2. w.at > n - 1 /\ w.at \in Nat /\ TransformTurn(tokens, w).at \in Nat
      BY <2>1, <2>2, <3>1 DEF After, Walks
    <3>3. TransformTurn(tokens, w).at > n BY <3>1, <3>2
    <3> QED BY <2>1, <2>2, <3>1, <3>3 DEF After
  <2>3. CASE ~TokensLeft(tokens, w) BY <2>1, <2>3 DEF After
  <2> QED BY <2>2, <2>3
<1>4. \A n \in 0 .. N : S[n] \subseteq Walks BY DEF After
<1> HIDE DEF S, Turn
<1>5. PICK f : Loops(f, N, S, WalkStart, step)
  <2>1. \A n \in 1 .. N : \A w \in S[n - 1] : step[n][w] \in S[n] BY <1>2, <1>3, <1>4
  <2> HIDE DEF N, step
  <2> QED BY <1>1, <2>1, LoopRuns
<1>6. P(f)
  <2>1. \A n \in 0 .. N : n = 0 \/ n \in 1 .. N OBVIOUS
  <2>2. \A n \in 1 .. N : step[n][f[n - 1]] = Turn(f[n - 1]) BY <1>2, <1>4, <1>5 DEF Loops
  <2>3. \A n \in 0 .. N : f[n] = IF n = 0 THEN WalkStart ELSE Turn(f[n - 1])
    BY <1>2, <1>5, <2>1, <2>2 DEF Loops
  <2> HIDE DEF step
  <2> QED BY <1>5, <2>3 DEF Loops, Turn
<1>7. P(walk) BY <1>6
<1>8. walk[0] = WalkStart /\ \A n \in 1 .. N : walk[n] = Turn(walk[n - 1])
  <2>1. 0 \in 0 .. N BY <1>1
  <2> HIDE DEF walk
  <2> QED BY <1>2, <1>7, <2>1 DEF Turn
<1> HIDE DEF P
<1>9. \A n \in 0 .. N : walk[n] \in S[n]
  <2>1. walk[0] \in S[0] BY <1>1, <1>8
  <2>2. \A n \in 1 .. N : walk[n - 1] \in S[n - 1] => walk[n] \in S[n] BY <1>3, <1>8
  <2> HIDE DEF walk, N
  <2> QED BY <1>1, <2>1, <2>2, LoopHolds
<1>10. TransformMarkup(tokens) = walk[Len(tokens)] BY DEF TransformMarkup, P
<1>11. \A n \in 0 .. N : walk[n] \in After(tokens, n) BY <1>9 DEF S
<1> HIDE DEF walk
<1> QED BY <1>8, <1>10, <1>11 DEF Turn

LEMMA RemoteLoop ==
  ASSUME NEW tokens \in Seq(Token)
  PROVE  \E walk :
           /\ RemoteScan(tokens) = walk[Len(tokens)] /\ walk[0] = WalkStart
           /\ \A n \in 1 .. Len(tokens) :
                walk[n] = IF TokensLeft(tokens, walk[n - 1]) THEN RemoteTurn(tokens, walk[n - 1])
                          ELSE walk[n - 1]
           /\ \A n \in 0 .. Len(tokens) : walk[n] \in After(tokens, n)
<1> DEFINE N == Len(tokens)
           Turn(w) == IF TokensLeft(tokens, w) THEN RemoteTurn(tokens, w) ELSE w
           S == [n \in 0 .. N |-> After(tokens, n)]
           step == [n \in 1 .. N |-> [w \in Walks |-> Turn(w)]]
           P(g) == g = [n \in 0 .. Len(tokens) |->
                          IF n = 0 THEN WalkStart
                          ELSE IF TokensLeft(tokens, g[n - 1]) THEN RemoteTurn(tokens, g[n - 1])
                          ELSE g[n - 1]]
           walk == CHOOSE g : P(g)
<1>1. N \in Nat /\ WalkStart \in S[0]
  <2>1. 0 \in 0 .. N /\ WalkStart.at = 1 BY DEF WalkStart
  <2> QED BY <2>1, WalksBegin DEF After
<1>2. \A n \in 1 .. N : n \in 0 .. N /\ n - 1 \in 0 .. N /\ n # 0 OBVIOUS
<1>3. \A n \in 1 .. N : \A w \in S[n - 1] : Turn(w) \in S[n]
  <2> SUFFICES ASSUME NEW n \in 1 .. N, NEW w \in S[n - 1] PROVE Turn(w) \in S[n] OBVIOUS
  <2>1. w \in After(tokens, n - 1) /\ S[n] = After(tokens, n) BY <1>2
  <2>2. CASE TokensLeft(tokens, w)
    <3>1. RemoteTurn(tokens, w) \in Walks /\ RemoteTurn(tokens, w).at > w.at
      BY <2>1, <2>2, RemoteTurnsGoOn DEF After
    <3>2. w.at > n - 1 /\ w.at \in Nat /\ RemoteTurn(tokens, w).at \in Nat
      BY <2>1, <2>2, <3>1 DEF After, Walks
    <3>3. RemoteTurn(tokens, w).at > n BY <3>1, <3>2
    <3> QED BY <2>1, <2>2, <3>1, <3>3 DEF After
  <2>3. CASE ~TokensLeft(tokens, w) BY <2>1, <2>3 DEF After
  <2> QED BY <2>2, <2>3
<1>4. \A n \in 0 .. N : S[n] \subseteq Walks BY DEF After
<1> HIDE DEF S, Turn
<1>5. PICK f : Loops(f, N, S, WalkStart, step)
  <2>1. \A n \in 1 .. N : \A w \in S[n - 1] : step[n][w] \in S[n] BY <1>2, <1>3, <1>4
  <2> HIDE DEF N, step
  <2> QED BY <1>1, <2>1, LoopRuns
<1>6. P(f)
  <2>1. \A n \in 0 .. N : n = 0 \/ n \in 1 .. N OBVIOUS
  <2>2. \A n \in 1 .. N : step[n][f[n - 1]] = Turn(f[n - 1]) BY <1>2, <1>4, <1>5 DEF Loops
  <2>3. \A n \in 0 .. N : f[n] = IF n = 0 THEN WalkStart ELSE Turn(f[n - 1])
    BY <1>2, <1>5, <2>1, <2>2 DEF Loops
  <2> HIDE DEF step
  <2> QED BY <1>5, <2>3 DEF Loops, Turn
<1>7. P(walk) BY <1>6
<1>8. walk[0] = WalkStart /\ \A n \in 1 .. N : walk[n] = Turn(walk[n - 1])
  <2>1. 0 \in 0 .. N BY <1>1
  <2> HIDE DEF walk
  <2> QED BY <1>2, <1>7, <2>1 DEF Turn
<1> HIDE DEF P
<1>9. \A n \in 0 .. N : walk[n] \in S[n]
  <2>1. walk[0] \in S[0] BY <1>1, <1>8
  <2>2. \A n \in 1 .. N : walk[n - 1] \in S[n - 1] => walk[n] \in S[n] BY <1>3, <1>8
  <2> HIDE DEF walk, N
  <2> QED BY <1>1, <2>1, <2>2, LoopHolds
<1>10. RemoteScan(tokens) = walk[Len(tokens)] BY DEF RemoteScan, P
<1>11. \A n \in 0 .. N : walk[n] \in After(tokens, n) BY <1>9 DEF S
<1> HIDE DEF walk
<1> QED BY <1>8, <1>10, <1>11 DEF Turn

LEMMA BaseLoop ==
  ASSUME NEW tokens \in Seq(Token)
  PROVE  \E walk :
           /\ FirstBase(tokens) = walk[Len(tokens)] /\ walk[0] = WalkStart
           /\ \A n \in 1 .. Len(tokens) :
                walk[n] = IF TokensLeft(tokens, walk[n - 1]) THEN BaseTurn(tokens, walk[n - 1])
                          ELSE walk[n - 1]
           /\ \A n \in 0 .. Len(tokens) : walk[n] \in After(tokens, n)
<1> DEFINE N == Len(tokens)
           Turn(w) == IF TokensLeft(tokens, w) THEN BaseTurn(tokens, w) ELSE w
           S == [n \in 0 .. N |-> After(tokens, n)]
           step == [n \in 1 .. N |-> [w \in Walks |-> Turn(w)]]
           P(g) == g = [n \in 0 .. Len(tokens) |->
                          IF n = 0 THEN WalkStart
                          ELSE IF TokensLeft(tokens, g[n - 1]) THEN BaseTurn(tokens, g[n - 1])
                          ELSE g[n - 1]]
           walk == CHOOSE g : P(g)
<1>1. N \in Nat /\ WalkStart \in S[0]
  <2>1. 0 \in 0 .. N /\ WalkStart.at = 1 BY DEF WalkStart
  <2> QED BY <2>1, WalksBegin DEF After
<1>2. \A n \in 1 .. N : n \in 0 .. N /\ n - 1 \in 0 .. N /\ n # 0 OBVIOUS
<1>3. \A n \in 1 .. N : \A w \in S[n - 1] : Turn(w) \in S[n]
  <2> SUFFICES ASSUME NEW n \in 1 .. N, NEW w \in S[n - 1] PROVE Turn(w) \in S[n] OBVIOUS
  <2>1. w \in After(tokens, n - 1) /\ S[n] = After(tokens, n) BY <1>2
  <2>2. CASE TokensLeft(tokens, w)
    <3>1. BaseTurn(tokens, w) \in Walks /\ BaseTurn(tokens, w).at > w.at
      BY <2>1, <2>2, BaseTurnsGoOn DEF After
    <3>2. w.at > n - 1 /\ w.at \in Nat /\ BaseTurn(tokens, w).at \in Nat
      BY <2>1, <2>2, <3>1 DEF After, Walks
    <3>3. BaseTurn(tokens, w).at > n BY <3>1, <3>2
    <3> QED BY <2>1, <2>2, <3>1, <3>3 DEF After
  <2>3. CASE ~TokensLeft(tokens, w) BY <2>1, <2>3 DEF After
  <2> QED BY <2>2, <2>3
<1>4. \A n \in 0 .. N : S[n] \subseteq Walks BY DEF After
<1> HIDE DEF S, Turn
<1>5. PICK f : Loops(f, N, S, WalkStart, step)
  <2>1. \A n \in 1 .. N : \A w \in S[n - 1] : step[n][w] \in S[n] BY <1>2, <1>3, <1>4
  <2> HIDE DEF N, step
  <2> QED BY <1>1, <2>1, LoopRuns
<1>6. P(f)
  <2>1. \A n \in 0 .. N : n = 0 \/ n \in 1 .. N OBVIOUS
  <2>2. \A n \in 1 .. N : step[n][f[n - 1]] = Turn(f[n - 1]) BY <1>2, <1>4, <1>5 DEF Loops
  <2>3. \A n \in 0 .. N : f[n] = IF n = 0 THEN WalkStart ELSE Turn(f[n - 1])
    BY <1>2, <1>5, <2>1, <2>2 DEF Loops
  <2> HIDE DEF step
  <2> QED BY <1>5, <2>3 DEF Loops, Turn
<1>7. P(walk) BY <1>6
<1>8. walk[0] = WalkStart /\ \A n \in 1 .. N : walk[n] = Turn(walk[n - 1])
  <2>1. 0 \in 0 .. N BY <1>1
  <2> HIDE DEF walk
  <2> QED BY <1>2, <1>7, <2>1 DEF Turn
<1> HIDE DEF P
<1>9. \A n \in 0 .. N : walk[n] \in S[n]
  <2>1. walk[0] \in S[0] BY <1>1, <1>8
  <2>2. \A n \in 1 .. N : walk[n - 1] \in S[n - 1] => walk[n] \in S[n] BY <1>3, <1>8
  <2> HIDE DEF walk, N
  <2> QED BY <1>1, <2>1, <2>2, LoopHolds
<1>10. FirstBase(tokens) = walk[Len(tokens)] BY DEF FirstBase, P
<1>11. \A n \in 0 .. N : walk[n] \in After(tokens, n) BY <1>9 DEF S
<1> HIDE DEF walk
<1> QED BY <1>8, <1>10, <1>11 DEF Turn

(* What the walks have in common after as many turns: until the transform  *)
(* has ended, all are at the same position with the same stack, but for a  *)
(* scan for the base that has found it; that is the first it has passed.   *)
BasesIn(tokens, walk) == {v \in walk.seen : IsBase(tokens[v.at].tag, v.namespace)}

(* The two walks in step: the remote walk has seen at least what the       *)
(* other has.                                                              *)
Scanned(tokens, t, r) ==
  /\ TokensLeft(tokens, t) => r.at = t.at /\ r.stack = t.stack
  /\ t.seen \subseteq r.seen

(* The base walk in step too, until it stops at the first base. *)
Based(tokens, t, b) ==
  \/ b.seen = {} /\ b.at = t.at /\ b.stack = t.stack /\ BasesIn(tokens, t) = {}
  \/ /\ ~TokensLeft(tokens, b)
     /\ \E v \in BasesIn(tokens, t) :
          /\ b.seen = {v} /\ v.at < t.at
          /\ \A w \in BasesIn(tokens, t) : w = v \/ v.at < w.at

(* A turn of both keeps them in step: this is what an element that one of  *)
(* them does not close would break.                                        *)
LEMMA ScannedStep ==
  ASSUME NEW tokens \in Seq(Token), NEW t \in Walks, NEW r \in Walks,
         TokensLeft(tokens, t), r.at = t.at, r.stack = t.stack, t.seen \subseteq r.seen
  PROVE  Scanned(tokens, TransformTurn(tokens, t), RemoteTurn(tokens, r))
<1> DEFINE token == tokens[t.at]
           namespace == ElementNamespace(token.tag, t.stack)
           skips == (IsInert(token.tag, namespace) \/ IsRaw(token.tag)) /\ ~SelfClosing(token, namespace)
           plain == IsPlain(token.tag, namespace) /\ ~SelfClosing(token, namespace)
           t2 == Sees(t, namespace)
           r2 == Sees(r, namespace)
<1>1. token \in Token /\ namespace \in Namespaces /\ Never(tokens) \in Nat BY TokenHere
<1>2. TokensLeft(tokens, r) BY DEF TokensLeft
<1>3. token = tokens[r.at] /\ namespace = ElementNamespace(token.tag, r.stack) OBVIOUS
<1> HIDE DEF token, namespace
<1>4. /\ t2 \in Walks /\ t2.at = t.at /\ t2.stack = t.stack
      /\ t2.seen = t.seen \cup {Visit(t.at, namespace, t.stack)} BY <1>1, Seeing
<1>5. /\ r2 \in Walks /\ r2.at = t.at /\ r2.stack = t.stack
      /\ r2.seen = r.seen \cup {Visit(t.at, namespace, t.stack)} BY <1>1, Seeing
<1>6. TokensLeft(tokens, t2) /\ TokensLeft(tokens, r2) BY <1>4, <1>5 DEF TokensLeft
<1> HIDE DEF t2, r2
<1>7. t2.seen \subseteq r2.seen /\ t.seen \subseteq r2.seen BY <1>4, <1>5
<1>8. CASE token.kind = "close"
  <2>1. TransformTurn(tokens, t) = Closes(t, token.tag) BY <1>8 DEF TransformTurn, token
  <2>2. RemoteTurn(tokens, r) = Closes(r, token.tag) BY <1>3, <1>8 DEF RemoteTurn, token
  <2>3. \A w \in {t, r} :
          LET next == Closes(w, token.tag) IN
          /\ next.at = t.at + 1 /\ next.stack = Pop(t.stack, token.tag) /\ next.seen = w.seen
    BY Closing
  <2> QED BY <2>1, <2>2, <2>3 DEF Scanned
<1>9. CASE token.kind # "close"
  <2>1. RemoteTurn(tokens, r) = IF skips THEN StepsOver(tokens, r2, token.tag)
                                ELSE Opens(r2, token, namespace)
    BY <1>3, <1>9 DEF RemoteTurn, token, namespace, r2
  <2>2. CASE plain
    <3>1. TransformTurn(tokens, t) = Goes(t2, Never(tokens))
      BY <1>9, <2>2 DEF TransformTurn, token, namespace, t2
    <3>2. /\ Goes(t2, Never(tokens)).at = Never(tokens)
          /\ Goes(t2, Never(tokens)).seen = t2.seen BY <1>1, <1>4, Going
    <3>3. ~TokensLeft(tokens, TransformTurn(tokens, t)) BY <3>1, <3>2 DEF TokensLeft, Never
    <3>4. RemoteTurn(tokens, r).seen = r2.seen
      <4>1. StepsOver(tokens, r2, token.tag).seen = r2.seen BY <1>5, <1>6, SteppingOver
      <4>2. Opens(r2, token, namespace).seen = r2.seen BY <1>1, <1>5, Opening
      <4> QED BY <2>1, <4>1, <4>2
    <3> QED BY <1>7, <3>1, <3>2, <3>3, <3>4 DEF Scanned
  <2>3. CASE ~plain /\ skips
    <3>1. TransformTurn(tokens, t) \in {StepsOver(tokens, t, token.tag), StepsOver(tokens, t2, token.tag)}
      BY <1>9, <2>3 DEF TransformTurn, token, namespace, t2
    <3>2. \A w \in {t, t2, r2} :
            LET over == StepsOver(tokens, w, token.tag) IN
            /\ over.at = ContentClose(tokens, t.at + 1, token.tag) + 1
            /\ over.stack = t.stack /\ over.seen = w.seen
      BY <1>4, <1>5, <1>6, SteppingOver
    <3> QED BY <1>7, <2>1, <2>3, <3>1, <3>2 DEF Scanned
  <2>4. CASE ~plain /\ ~skips
    <3>1. TransformTurn(tokens, t) = Opens(t2, token, namespace)
      BY <1>9, <2>4 DEF TransformTurn, token, namespace, t2
    <3>2. RemoteTurn(tokens, r) = Opens(r2, token, namespace) BY <2>1, <2>4
    <3>3. \A w \in {t2, r2} :
            LET next == Opens(w, token, namespace) IN
            /\ next.at = t.at + 1 /\ next.stack = Push(t.stack, token, namespace)
            /\ next.seen = w.seen
      BY <1>1, <1>4, <1>5, Opening
    <3> QED BY <1>7, <3>1, <3>2, <3>3 DEF Scanned
  <2> QED BY <2>2, <2>3, <2>4
<1> QED BY <1>8, <1>9

(* What has been seen stays seen. *)
LEMMA SeenGrows ==
  ASSUME NEW tokens \in Seq(Token), NEW r \in Walks, TokensLeft(tokens, r)
  PROVE  r.seen \subseteq RemoteTurn(tokens, r).seen
<1> DEFINE token == tokens[r.at]
           namespace == ElementNamespace(token.tag, r.stack)
           r2 == Sees(r, namespace)
<1>1. token \in Token /\ namespace \in Namespaces BY TokenHere
<1> HIDE DEF token, namespace
<1>2. r2 \in Walks /\ r2.at = r.at /\ r.seen \subseteq r2.seen BY <1>1, Seeing
<1>3. TokensLeft(tokens, r2) BY <1>2 DEF TokensLeft
<1> HIDE DEF r2
<1>4. RemoteTurn(tokens, r) \in {Closes(r, token.tag), StepsOver(tokens, r2, token.tag),
                                 Opens(r2, token, namespace)}
  BY DEF RemoteTurn, token, namespace, r2
<1>5. Closes(r, token.tag).seen = r.seen BY Closing
<1>6. Opens(r2, token, namespace).seen = r2.seen BY <1>1, <1>2, Opening
<1>7. StepsOver(tokens, r2, token.tag).seen = r2.seen BY <1>2, <1>3, SteppingOver
<1> QED BY <1>2, <1>4, <1>5, <1>6, <1>7

(* A turn of the base walk and of the transforming one. *)
LEMMA BasedStep ==
  ASSUME NEW tokens \in Seq(Token), NEW t \in Walks, NEW b \in Walks,
         TokensLeft(tokens, t), Based(tokens, t, b), b.seen = {}
  PROVE  Based(tokens, TransformTurn(tokens, t), BaseTurn(tokens, b))
<1> DEFINE token == tokens[t.at]
           namespace == ElementNamespace(token.tag, t.stack)
           skips == (IsInert(token.tag, namespace) \/ IsRaw(token.tag)) /\ ~SelfClosing(token, namespace)
           plain == IsPlain(token.tag, namespace) /\ ~SelfClosing(token, namespace)
           visit == Visit(t.at, namespace, t.stack)
           t2 == Sees(t, namespace)
           b2 == Sees(b, namespace)
           turn == TransformTurn(tokens, t)
           found == BaseTurn(tokens, b)
<1>1. /\ token \in Token /\ namespace \in Namespaces /\ Never(tokens) \in Nat
      /\ Never(tokens) > t.at BY TokenHere
<1>2. b.at = t.at /\ b.stack = t.stack /\ BasesIn(tokens, t) = {} BY DEF Based
<1>3. TokensLeft(tokens, b) BY <1>2 DEF TokensLeft
<1>4. token = tokens[b.at] /\ namespace = ElementNamespace(token.tag, b.stack) BY <1>2
<1>5. visit.at = t.at /\ visit.namespace = namespace /\ tokens[t.at] = token BY DEF Visit
<1> HIDE DEF token, namespace
<1>6. t2 \in Walks /\ t2.at = t.at /\ t2.stack = t.stack /\ t2.seen = t.seen \cup {visit}
  BY <1>1, Seeing
<1>7. b2 \in Walks /\ b2.at = t.at /\ b2.stack = t.stack /\ b2.seen = {visit}
  BY <1>1, <1>2, Seeing
<1>8. TokensLeft(tokens, t2) BY <1>6 DEF TokensLeft
<1> HIDE DEF t2, b2, visit
<1>9. \A w : w.seen = t.seen => BasesIn(tokens, w) = {} BY <1>2 DEF BasesIn
<1>10. \A w : w.seen = t2.seen =>
         BasesIn(tokens, w) = IF IsBase(token.tag, namespace) THEN {visit} ELSE {}
  BY <1>2, <1>5, <1>6 DEF BasesIn
<1>11. ASSUME found.seen = {}, found.at = turn.at, found.stack = turn.stack,
              turn.seen = t.seen \/ (turn.seen = t2.seen /\ ~IsBase(token.tag, namespace))
       PROVE  Based(tokens, turn, found)
  BY <1>9, <1>10, <1>11 DEF Based
<1>12. CASE token.kind = "close"
  <2>1. turn = Closes(t, token.tag) BY <1>12 DEF TransformTurn, token
  <2>2. found = Closes(b, token.tag) BY <1>4, <1>12 DEF BaseTurn, token
  <2>3. \A w \in {t, b} :
          LET next == Closes(w, token.tag) IN
          /\ next.at = t.at + 1 /\ next.stack = Pop(t.stack, token.tag) /\ next.seen = w.seen
    BY <1>2, Closing
  <2> QED BY <1>11, <2>1, <2>2, <2>3
<1>13. CASE token.kind # "close" /\ IsBase(token.tag, namespace)
  <2>1. found = Goes(b2, Never(tokens))
    BY <1>4, <1>13 DEF BaseTurn, token, namespace, b2
  <2>2. /\ Goes(b2, Never(tokens)).at = Never(tokens)
        /\ Goes(b2, Never(tokens)).seen = b2.seen BY <1>1, <1>7, Going
  <2>3. ~TokensLeft(tokens, found) BY <2>1, <2>2 DEF TokensLeft, Never
  <2>4. turn = Opens(t2, token, namespace)
    BY <1>13 DEF TransformTurn, token, namespace, t2, IsBase, IsPlain, IsInert, IsRaw, Inert, RawText
  <2>5. /\ Opens(t2, token, namespace).at > t.at
        /\ Opens(t2, token, namespace).seen = t2.seen BY <1>1, <1>6, Opening
  <2>6. BasesIn(tokens, turn) = {visit} BY <1>10, <1>13, <2>4, <2>5
  <2>7. found.seen = {visit} /\ visit.at < turn.at
    <3>1. turn.at \in Nat /\ t.at \in Nat BY TransformTurnsGoOn DEF Walks
    <3> QED BY <1>5, <1>7, <2>1, <2>2, <2>4, <2>5, <3>1
  <2> QED BY <2>3, <2>6, <2>7 DEF Based
<1>14. CASE token.kind # "close" /\ ~IsBase(token.tag, namespace)
  <2>1. found = IF plain THEN Goes(b, Never(tokens))
                ELSE IF skips THEN StepsOver(tokens, b, token.tag)
                ELSE Opens(b, token, namespace)
    BY <1>4, <1>14 DEF BaseTurn, token, namespace
  <2>2. CASE plain
    <3>1. turn = Goes(t2, Never(tokens))
      BY <1>14, <2>2 DEF TransformTurn, token, namespace, t2
    <3>2. \A w \in {t2, b} : LET next == Goes(w, Never(tokens)) IN
            next.at = Never(tokens) /\ next.stack = t.stack /\ next.seen = w.seen
      BY <1>1, <1>2, <1>6, Going
    <3> QED BY <1>11, <1>14, <2>1, <2>2, <3>1, <3>2
  <2>3. CASE ~plain /\ skips
    <3>1. turn \in {StepsOver(tokens, t, token.tag), StepsOver(tokens, t2, token.tag)}
      BY <1>14, <2>3 DEF TransformTurn, token, namespace, t2
    <3>2. \A w \in {t, t2, b} :
            LET over == StepsOver(tokens, w, token.tag) IN
            /\ over.at = ContentClose(tokens, t.at + 1, token.tag) + 1
            /\ over.stack = t.stack /\ over.seen = w.seen
      BY <1>2, <1>3, <1>6, <1>8, SteppingOver
    <3> QED BY <1>11, <1>14, <2>1, <2>3, <3>1, <3>2
  <2>4. CASE ~plain /\ ~skips
    <3>1. turn = Opens(t2, token, namespace)
      BY <1>14, <2>4 DEF TransformTurn, token, namespace, t2
    <3>2. \A w \in {t2, b} :
            LET next == Opens(w, token, namespace) IN
            /\ next.at = t.at + 1 /\ next.stack = Push(t.stack, token, namespace)
            /\ next.seen = w.seen
      BY <1>1, <1>2, <1>6, Opening
    <3> QED BY <1>11, <1>14, <2>1, <2>4, <3>1, <3>2
  <2> QED BY <2>2, <2>3, <2>4
<1> QED BY <1>12, <1>13, <1>14

(* Once it is found, the transform passes only later ones.                 *)
LEMMA FoundStays ==
  ASSUME NEW tokens \in Seq(Token), NEW t \in Walks, NEW b \in Walks,
         TokensLeft(tokens, t), Based(tokens, t, b), b.seen # {}
  PROVE  Based(tokens, TransformTurn(tokens, t), b)
<1> DEFINE token == tokens[t.at]
           namespace == ElementNamespace(token.tag, t.stack)
           visit == Visit(t.at, namespace, t.stack)
           t2 == Sees(t, namespace)
           turn == TransformTurn(tokens, t)
<1>1. token \in Token /\ namespace \in Namespaces /\ Never(tokens) \in Nat BY TokenHere
<1>2. ~TokensLeft(tokens, b) BY DEF Based
<1>3. PICK v \in BasesIn(tokens, t) :
        /\ b.seen = {v} /\ v.at < t.at
        /\ \A w \in BasesIn(tokens, t) : w = v \/ v.at < w.at BY DEF Based
<1>4. visit.at = t.at BY DEF Visit
<1> HIDE DEF token, namespace, visit
<1>5. t2 \in Walks /\ t2.at = t.at /\ t2.seen = t.seen \cup {visit} BY <1>1, Seeing DEF visit
<1>6. TokensLeft(tokens, t2) BY <1>5 DEF TokensLeft
<1> HIDE DEF t2
<1>7. turn \in {Closes(t, token.tag), StepsOver(tokens, t, token.tag),
                StepsOver(tokens, t2, token.tag), Goes(t2, Never(tokens)),
                Opens(t2, token, namespace)}
  BY DEF TransformTurn, token, namespace, t2
<1>8. Closes(t, token.tag).seen = t.seen BY Closing
<1>9. Opens(t2, token, namespace).seen = t2.seen BY <1>1, <1>5, Opening
<1>10. /\ StepsOver(tokens, t, token.tag).seen = t.seen
       /\ StepsOver(tokens, t2, token.tag).seen = t2.seen BY <1>5, <1>6, SteppingOver
<1>11. Goes(t2, Never(tokens)).seen = t2.seen BY <1>1, <1>5, Going
<1>12. t.seen \subseteq turn.seen /\ turn.seen \subseteq t.seen \cup {visit}
  BY <1>5, <1>7, <1>8, <1>9, <1>10, <1>11
<1>13. v \in BasesIn(tokens, turn) BY <1>3, <1>12 DEF BasesIn
<1>14. \A w \in BasesIn(tokens, turn) : w = v \/ v.at < w.at BY <1>3, <1>4, <1>12 DEF BasesIn
<1>15. v.at < turn.at
  <2>1. turn.at > t.at /\ turn.at \in Nat /\ t.at \in Nat BY TransformTurnsGoOn DEF Walks
  <2>2. v.at \in Nat BY <1>3 DEF BasesIn, Walks, Visits
  <2> HIDE DEF turn
  <2> QED BY <1>3, <2>1, <2>2
<1> QED BY <1>2, <1>3, <1>13, <1>14, <1>15 DEF Based

(* The documents of the runs are sequences of tokens. *)
LEMMA DocumentsAreOfTokens == ASSUME WalkInit PROVE walked \in Seq(Token)
<1>1. PICK n \in 0 .. MaxTokens : walked \in [1 .. n -> Token] BY DEF WalkInit
<1>2. n \in Nat BY WalkAssumption
<1> QED BY <1>1, <1>2

(* The walks agree: every one ends within as many turns as the document    *)
(* has tokens, what is inlined is scanned again as the same element, and   *)
(* the base is the first that the transform passes.                        *)
THEOREM WalksDoAgree == WalkInit => WalksAgree
<1> SUFFICES ASSUME WalkInit PROVE WalksAgree OBVIOUS
<1> DEFINE tokens == walked
           N == Len(tokens)
<1>1. tokens \in Seq(Token) /\ N \in Nat BY DocumentsAreOfTokens
<1> HIDE DEF tokens
<1>2. PICK t : /\ TransformMarkup(tokens) = t[N] /\ t[0] = WalkStart
               /\ \A n \in 1 .. N :
                    t[n] = IF TokensLeft(tokens, t[n - 1]) THEN TransformTurn(tokens, t[n - 1])
                           ELSE t[n - 1]
               /\ \A n \in 0 .. N : t[n] \in After(tokens, n)
  BY <1>1, TransformLoop
<1>3. PICK r : /\ RemoteScan(tokens) = r[N] /\ r[0] = WalkStart
               /\ \A n \in 1 .. N :
                    r[n] = IF TokensLeft(tokens, r[n - 1]) THEN RemoteTurn(tokens, r[n - 1])
                           ELSE r[n - 1]
               /\ \A n \in 0 .. N : r[n] \in After(tokens, n)
  BY <1>1, RemoteLoop
<1>4. PICK b : /\ FirstBase(tokens) = b[N] /\ b[0] = WalkStart
               /\ \A n \in 1 .. N :
                    b[n] = IF TokensLeft(tokens, b[n - 1]) THEN BaseTurn(tokens, b[n - 1])
                           ELSE b[n - 1]
               /\ \A n \in 0 .. N : b[n] \in After(tokens, n)
  BY <1>1, BaseLoop
<1>5. \A n \in 0 .. N : t[n] \in Walks /\ r[n] \in Walks /\ b[n] \in Walks
  BY <1>2, <1>3, <1>4 DEF After
<1> DEFINE Agreed == {x \in Walks \X Walks \X Walks :
                        Scanned(tokens, x[1], x[2]) /\ Based(tokens, x[1], x[3])}
           S == [n \in 0 .. N |-> Agreed]
           f == [n \in 0 .. N |-> <<t[n], r[n], b[n]>>]
<1>6. \A n \in 0 .. N : f[n] \in S[n]
  <2>1. f[0] \in S[0]
    <3>1. 0 \in 0 .. N BY <1>1
    <3>2. Scanned(tokens, WalkStart, WalkStart) /\ Based(tokens, WalkStart, WalkStart)
      BY DEF Scanned, Based, WalkStart, BasesIn
    <3> QED BY <1>2, <1>3, <1>4, <3>1, <3>2, WalksBegin
  <2>2. ASSUME NEW n \in 1 .. N, f[n - 1] \in S[n - 1] PROVE f[n] \in S[n]
    <3>1. n \in 0 .. N /\ n - 1 \in 0 .. N OBVIOUS
    <3> DEFINE tt == t[n - 1]  rr == r[n - 1]  bb == b[n - 1]
    <3>2. /\ tt \in Walks /\ rr \in Walks /\ bb \in Walks
          /\ Scanned(tokens, tt, rr) /\ Based(tokens, tt, bb) BY <1>5, <2>2, <3>1
    <3>3. /\ t[n] = IF TokensLeft(tokens, tt) THEN TransformTurn(tokens, tt) ELSE tt
          /\ r[n] = IF TokensLeft(tokens, rr) THEN RemoteTurn(tokens, rr) ELSE rr
          /\ b[n] = IF TokensLeft(tokens, bb) THEN BaseTurn(tokens, bb) ELSE bb
      BY <1>2, <1>3, <1>4
    <3>4. t[n] \in Walks /\ r[n] \in Walks /\ b[n] \in Walks BY <1>5, <3>1
    <3> HIDE DEF tt, rr, bb
    <3>5. Scanned(tokens, t[n], r[n])
      <4>1. CASE TokensLeft(tokens, tt)
        <5>1. TokensLeft(tokens, rr) BY <3>2, <4>1 DEF Scanned, TokensLeft
        <5>2. Scanned(tokens, TransformTurn(tokens, tt), RemoteTurn(tokens, rr))
          BY <1>1, <3>2, <4>1, ScannedStep DEF Scanned
        <5> QED BY <3>3, <4>1, <5>1, <5>2
      <4>2. CASE ~TokensLeft(tokens, tt)
        <5>1. rr.seen \subseteq r[n].seen BY <1>1, <3>2, <3>3, SeenGrows
        <5> QED BY <3>2, <3>3, <4>2, <5>1 DEF Scanned
      <4> QED BY <4>1, <4>2
    <3>6. Based(tokens, t[n], b[n])
      <4>1. CASE TokensLeft(tokens, tt) /\ bb.seen = {}
        <5>1. TokensLeft(tokens, bb) BY <3>2, <4>1 DEF Based, TokensLeft
        <5>2. Based(tokens, TransformTurn(tokens, tt), BaseTurn(tokens, bb))
          BY <1>1, <3>2, <4>1, BasedStep
        <5> QED BY <3>3, <4>1, <5>1, <5>2
      <4>2. CASE TokensLeft(tokens, tt) /\ bb.seen # {}
        <5>1. ~TokensLeft(tokens, bb) BY <3>2, <4>2 DEF Based
        <5>2. Based(tokens, TransformTurn(tokens, tt), bb) BY <1>1, <3>2, <4>2, FoundStays
        <5> QED BY <3>3, <4>2, <5>1, <5>2
      <4>3. CASE ~TokensLeft(tokens, tt)
        <5>1. ~TokensLeft(tokens, bb) BY <3>2, <4>3 DEF Based, TokensLeft
        <5> QED BY <3>2, <3>3, <4>3, <5>1
      <4> QED BY <4>1, <4>2, <4>3
    <3>7. <<t[n], r[n], b[n]>> \in Agreed BY <3>4, <3>5, <3>6
    <3> HIDE DEF Agreed
    <3> QED BY <3>1, <3>7
  <2> HIDE DEF f, S, N
  <2> QED BY <1>1, <2>1, <2>2, LoopHolds
<1>7. N \in 0 .. N BY <1>1
<1>8. Scanned(tokens, t[N], r[N]) /\ Based(tokens, t[N], b[N])
  BY <1>6, <1>7
<1> DEFINE bases == {v \in t[N].seen : IsBase(tokens[v.at].tag, v.namespace)}
           first == {v \in bases : \A w \in bases : v.at <= w.at}
<1>9. \A walk \in {t[N], r[N], b[N]} : ~TokensLeft(tokens, walk)
  <2> SUFFICES ASSUME NEW walk \in {t[N], r[N], b[N]} PROVE ~TokensLeft(tokens, walk) OBVIOUS
  <2>1. walk \in After(tokens, N) BY <1>2, <1>3, <1>4, <1>7
  <2>2. walk.at \in 1 .. N => ~(walk.at > N) BY <1>1
  <2> QED BY <2>1, <2>2 DEF After, TokensLeft
<1>10. t[N].seen \subseteq r[N].seen BY <1>8 DEF Scanned
<1>11. b[N].seen = first
  <2>1. bases = BasesIn(tokens, t[N]) BY DEF BasesIn
  <2>2. \A v \in bases : v.at \in Nat
    <3>1. t[N] \in Walks BY <1>5, <1>7
    <3> QED BY <3>1 DEF Walks, Visits
  <2> HIDE DEF bases
  <2>3. CASE bases = {} BY <1>8, <2>1, <2>3 DEF Based
  <2>4. CASE bases # {}
    <3>1. PICK v \in bases : b[N].seen = {v} /\ \A w \in bases : w = v \/ v.at < w.at
      BY <1>8, <2>1, <2>4 DEF Based
    <3>2. \A w \in bases : v.at <= w.at BY <2>2, <3>1
    <3>3. \A w \in bases : w.at <= v.at => w = v BY <2>2, <3>1
    <3> QED BY <3>1, <3>2, <3>3
  <2> QED BY <2>3, <2>4
<1> HIDE DEF N
<1> QED BY <1>2, <1>3, <1>4, <1>9, <1>10, <1>11 DEF WalksAgree, tokens

----------------------------------------------------------------------------
(***************************************************************************)
(* What an export accounts for.                                            *)
(***************************************************************************)

(* A warning names the reference, or the reference fetches no local file.  *)
KnownIn(ctx, ref) == \E w \in ctx.warned : w[2] = ref.is
Accounted(ctx, ref, base) == KnownIn(ctx, ref) \/ ResolveRef(ref, base) = "skip"

(* What loading and warning do to a context: warnings are only added.      *)
Grows(a, b) == b \in Context /\ a.warned \subseteq b.warned /\ b.out = a.out

(* What a reference can resolve to, and what each outcome says of it. *)
LEMMA ReferencesDescribed ==
  ASSUME NEW ref \in Reference, NEW base \in RefBase
  PROVE  /\ ResolveRef(ref, base) \in {"skip", "file", "unparseable-file-url", "unmapped-root"}
         /\ ResolveRef(ref, base) = "skip" <=>
              ref.form \notin LocalForm \/ (base.kind = "remote" /\ ~IsFileScheme(ref))
<1>1. /\ ref.form \in LocalForm \cup {"inert", "remote", "protocol-relative", "scheme"}
      /\ base.kind \in {"local", "remote", "root"} BY DEF Reference, RefBase
<1>2. ResolveRef(ref, base) \in {"skip", "file", "unparseable-file-url", "unmapped-root"}
  BY <1>1 DEF ResolveRef, LocalForm
<1>3. CASE ref.form \in {"inert", "remote", "protocol-relative", "scheme"}
  <2>1. ResolveRef(ref, base) = "skip" BY <1>3 DEF ResolveRef
  <2>2. ref.form \notin LocalForm BY <1>3 DEF LocalForm
  <2> QED BY <1>2, <2>1, <2>2
<1>4. CASE ref.form \in {"file-url", "bad-file-url"}
  BY <1>2, <1>4 DEF ResolveRef, IsFileScheme, LocalForm
<1>5. CASE ref.form \in {"relative", "absolute"} /\ base.kind = "remote"
  BY <1>2, <1>5 DEF ResolveRef, IsFileScheme, LocalForm
<1>6. CASE ref.form \in {"relative", "absolute"} /\ base.kind # "remote"
  BY <1>1, <1>2, <1>6 DEF ResolveRef, IsFileScheme, LocalForm
<1>7. ref.form \in LocalForm => ref.form \in {"relative", "absolute", "file-url", "bad-file-url"}
  BY DEF LocalForm
<1> QED BY <1>1, <1>3, <1>4, <1>5, <1>6, <1>7

(* A local base skips least. *)
LEMMA LocalSkipsLeast ==
  ASSUME NEW ref \in Reference, NEW base \in RefBase, NEW other \in RefBase,
         base.kind = "local", NEW ctx, Accounted(ctx, ref, base)
  PROVE  Accounted(ctx, ref, other)
<1>1. base.kind # "remote" OBVIOUS
<1> QED BY <1>1, ReferencesDescribed DEF Accounted

(* Where a reference points to. *)
LEMMA FilesOfReferences ==
  ASSUME NEW ref \in Reference, NEW base \in RefBase
  PROVE  FileOf(ref, base) \in STRING \cup {Nowhere}
BY DEF FileOf, Reference

LEMMA DirsAreBases ==
  ASSUME NEW file \in Asset, NEW ref, ref.file = file
  PROVE  DirOf(ref) \in RefBase /\ DirOf(ref).kind = "local"
<1>1. AssetInfo[file].dir \in STRING BY ExportFilesAssumption
<1> QED BY <1>1 DEF DirOf, LocalBase, RefBase

(* The same reference, by another name: rebasing changes the name alone.   *)
Same(a, b) == b \in Reference /\ b.form = a.form /\ b.is = a.is

(* References that are the same are accounted for together. *)
LEMMA SameSkips ==
  ASSUME NEW ref, NEW other, Same(ref, other), NEW base, NEW ctx
  PROVE  /\ Accounted(ctx, other, base) <=> Accounted(ctx, ref, base)
         /\ IsFileScheme(other) <=> IsFileScheme(ref)
<1>1. ResolveRef(other, base) = ResolveRef(ref, base) BY DEF Same, ResolveRef
<1> QED BY <1>1 DEF Same, Accounted, KnownIn, IsFileScheme

LEMMA NamingAFile ==
  ASSUME NEW ref \in Reference, NEW file \in Asset
  PROVE  Same(ref, [ref EXCEPT !.file = file]) /\ [ref EXCEPT !.file = file].file = file
<1>1. file \in STRING BY ExportFilesAssumption
<1> QED BY <1>1 DEF Same, Reference

LEMMA RebasingIsSame ==
  ASSUME NEW ref \in Reference, NEW base \in RefBase, NEW output \in RefBase
  PROVE  Same(ref, Rebase(ref, base, output))
<1>1. FileOf(ref, base) \in STRING \cup {Nowhere} BY FilesOfReferences
<1>2. output.dir \in STRING BY DEF RefBase
<1>3. [ref EXCEPT !.file = FileOf(ref, base), !.from = output.dir] \in Reference
  BY <1>1, <1>2 DEF Reference
<1>4. Same(ref, [ref EXCEPT !.file = FileOf(ref, base), !.from = output.dir])
  BY <1>3 DEF Same, Reference
<1> QED BY <1>4 DEF Rebase, Same

(* Warnings. *)
LEMMA Warning ==
  ASSUME NEW ctx \in Context, NEW kind \in WarningKind, NEW ref \in Reference
  PROVE  /\ Grows(ctx, Warn(ctx, kind, ref)) /\ Warn(ctx, kind, ref).bytes = ctx.bytes
         /\ KnownIn(Warn(ctx, kind, ref), ref)
         /\ Warn(ctx, kind, ref).warned = ctx.warned \cup {<<kind, ref.is>>}
<1>1. ref.is \in STRING BY DEF Reference
<1>2. ctx.warned \cup {<<kind, ref.is>>} \in SUBSET (WarningKind \X STRING)
  BY <1>1 DEF Context
<1>3. /\ Warn(ctx, kind, ref) \in Context
      /\ Warn(ctx, kind, ref).warned = ctx.warned \cup {<<kind, ref.is>>}
      /\ Warn(ctx, kind, ref).bytes = ctx.bytes /\ Warn(ctx, kind, ref).out = ctx.out
  BY <1>2 DEF Warn, Context
<1>4. <<kind, ref.is>>[2] = ref.is OBVIOUS
<1> QED BY <1>3, <1>4 DEF Grows, KnownIn

(* Warnings only being added is transitive, and what is told stays told. *)
LEMMA GrowsOn ==
  ASSUME NEW a, NEW b, NEW c, Grows(a, b), Grows(b, c)
  PROVE  Grows(a, c)
BY DEF Grows

LEMMA StaysKnown ==
  ASSUME NEW a, NEW b, Grows(a, b), NEW ref, NEW base
  PROVE  /\ KnownIn(a, ref) => KnownIn(b, ref)
         /\ Accounted(a, ref, base) => Accounted(b, ref, base)
BY DEF Grows, KnownIn, Accounted

(* A reference that is not a file is told of, unless it is to be skipped. *)
LEMMA DescriptorsWarn ==
  ASSUME NEW ctx \in Context, NEW ref \in Reference, NEW base \in RefBase,
         ResolveRef(ref, base) # "file"
  PROVE  LET told == WarnUnresolvedDescriptor(ctx, ResolveRef(ref, base), ref) IN
         Grows(ctx, told) /\ told.bytes = ctx.bytes /\ Accounted(told, ref, base)
<1> DEFINE d == ResolveRef(ref, base)
           told == WarnUnresolvedDescriptor(ctx, d, ref)
<1>1. d \in {"skip", "unparseable-file-url", "unmapped-root"} BY ReferencesDescribed
<1> HIDE DEF d
<1>2. CASE d = "skip"
  <2>1. told = ctx BY <1>2 DEF WarnUnresolvedDescriptor
  <2> QED BY <1>2, <2>1 DEF Grows, Accounted, d
<1>3. CASE d = "unparseable-file-url"
  <2>0. "file-url-unresolved" \in WarningKind /\ "file-url-redacted" \in WarningKind
    BY DEF WarningKind
  <2>1. told = Warn(Warn(ctx, "file-url-unresolved", ref), "file-url-redacted", ref)
    BY <1>3 DEF WarnUnresolvedDescriptor
  <2>2. /\ Grows(ctx, Warn(ctx, "file-url-unresolved", ref))
        /\ Warn(ctx, "file-url-unresolved", ref).bytes = ctx.bytes
        /\ Warn(ctx, "file-url-unresolved", ref) \in Context BY <2>0, Warning DEF Grows
  <2>3. Grows(ctx, told) /\ told.bytes = ctx.bytes /\ KnownIn(told, ref)
    BY <2>0, <2>1, <2>2, Warning, GrowsOn
  <2> QED BY <2>3 DEF Accounted, d
<1>4. CASE d = "unmapped-root"
  <2>0. "unmapped-root-absolute" \in WarningKind BY DEF WarningKind
  <2>1. told = Warn(ctx, "unmapped-root-absolute", ref) BY <1>4 DEF WarnUnresolvedDescriptor
  <2>2. Grows(ctx, told) /\ told.bytes = ctx.bytes /\ KnownIn(told, ref)
    BY <2>0, <2>1, Warning
  <2> QED BY <2>2 DEF Accounted, d
<1> QED BY <1>1, <1>2, <1>3, <1>4 DEF d

(* And one that is left where it is. *)
LEMMA LeftIsAccounted ==
  ASSUME NEW ctx \in Context, NEW kind \in WarningKind, NEW ref \in Reference,
         NEW base \in RefBase
  PROVE  LET told == WarnLeft(ctx, kind, ref, base) IN
         /\ Grows(ctx, told) /\ told.bytes = ctx.bytes /\ Accounted(told, ref, base)
         /\ ResolveRef(ref, base) = "file" => <<kind, ref.is>> \in told.warned
<1>1. CASE ResolveRef(ref, base) = "file"
  <2>1. WarnLeft(ctx, kind, ref, base) = Warn(ctx, kind, ref) BY <1>1 DEF WarnLeft
  <2> QED BY <2>1, Warning DEF Accounted
<1>2. CASE ResolveRef(ref, base) # "file"
  <2>1. WarnLeft(ctx, kind, ref, base) =
          WarnUnresolvedDescriptor(ctx, ResolveRef(ref, base), ref) BY <1>2 DEF WarnLeft
  <2> QED BY <1>2, <2>1, DescriptorsWarn
<1> QED BY <1>1, <1>2

(* A file that is read takes its size from the budget; one that is not is  *)
(* told about.                                                             *)
Read(ctx, ref, base, got) ==
  /\ Grows(ctx, got.ctx)
  /\ \/ got.file \in Asset /\ got.ctx.bytes = ctx.bytes + AssetInfo[got.file].size
     \/ got.file = Nowhere /\ got.ctx.bytes = ctx.bytes /\ Accounted(got.ctx, ref, base)

(* A read of a file stops at the smaller of two limits. *)
LEMMA NoMoreThanIsLeft ==
  ASSUME NEW a \in Nat, NEW b \in Nat
  PROVE  Min({a, b}) <= b
<1>1. \E m \in {a, b} : \A k \in {a, b} : m <= k BY a <= b \/ b <= a
<1> QED BY <1>1 DEF Min

(* Nothing is read, with a warning. *)
LEMMA NotRead ==
  ASSUME NEW ctx \in Context, NEW kind \in WarningKind, NEW ref \in Reference, NEW base
  PROVE  Read(ctx, ref, base, Got(Warn(ctx, kind, ref), Nowhere))
<1>1. /\ Grows(ctx, Warn(ctx, kind, ref)) /\ Warn(ctx, kind, ref).bytes = ctx.bytes
      /\ KnownIn(Warn(ctx, kind, ref), ref) BY Warning
<1> QED BY <1>1 DEF Read, Got, Accounted

(* A file is read within what is left, or it is warned of. *)
LEMMA BudgetedReads ==
  ASSUME NEW ctx \in Context, NEW ref \in Reference, NEW base, NEW file
  PROVE  Read(ctx, ref, base, ReadBudgeted(ctx, ref, file))
<1> DEFINE left == MaxBundleBytes - ctx.bytes
           size == AssetInfo[file].size
           got == ReadBudgeted(ctx, ref, file)
<1>1. {"too-large", "load-failed", "outside-root"} \subseteq WarningKind BY DEF WarningKind
<1>2. ctx.bytes \in 0 .. MaxBundleBytes /\ MaxBundleBytes \in Nat /\ MaxAssetBytes \in Nat
  BY ExportFilesAssumption DEF Context
<1>3. CASE left <= 0
  <2>1. got = Got(Warn(ctx, "too-large", ref), Nowhere) BY <1>3 DEF ReadBudgeted
  <2> QED BY <1>1, <2>1, NotRead
<1>4. CASE ~(left <= 0) /\ file \notin Asset
  <2>1. got = Got(Warn(ctx, "load-failed", ref), Nowhere) BY <1>4 DEF ReadBudgeted
  <2> QED BY <1>1, <2>1, NotRead
<1>5. CASE ~(left <= 0) /\ file \in Asset /\ AssetInfo[file].where = "outside"
  <2>1. got = Got(Warn(ctx, "outside-root", ref), Nowhere) BY <1>5 DEF ReadBudgeted
  <2> QED BY <1>1, <2>1, NotRead
<1>6. CASE /\ ~(left <= 0) /\ file \in Asset /\ AssetInfo[file].where # "outside"
           /\ size > Min({MaxAssetBytes, left})
  <2>1. got = Got(Warn(ctx, "too-large", ref), Nowhere) BY <1>6 DEF ReadBudgeted
  <2> QED BY <1>1, <2>1, NotRead
<1>7. CASE /\ ~(left <= 0) /\ file \in Asset /\ AssetInfo[file].where # "outside"
           /\ ~(size > Min({MaxAssetBytes, left}))
  <2>1. got = Got([ctx EXCEPT !.bytes = @ + size], file) BY <1>7 DEF ReadBudgeted
  <2>2. size \in Nat BY <1>7, ExportFilesAssumption
  <2>3. left \in Nat BY <1>2, <1>7
  <2>4. Min({MaxAssetBytes, left}) \in {MaxAssetBytes, left}
    <3>1. \E m \in {MaxAssetBytes, left} : \A k \in {MaxAssetBytes, left} : m <= k
      <4> HIDE DEF left
      <4> QED BY <1>2, <2>3, MaxAssetBytes <= left \/ left <= MaxAssetBytes
    <3> HIDE DEF left
    <3> QED BY <3>1 DEF Min
  <2>5. size <= left
    <3>1. Min({MaxAssetBytes, left}) <= left BY <1>2, <2>3, NoMoreThanIsLeft
    <3> HIDE DEF left, size
    <3> QED BY <1>2, <1>7, <2>2, <2>3, <2>4, <3>1
  <2>6. ctx.bytes + size \in 0 .. MaxBundleBytes
    <3> HIDE DEF size
    <3> QED BY <1>2, <2>2, <2>5
  <2>7. /\ [ctx EXCEPT !.bytes = @ + size] \in Context
        /\ [ctx EXCEPT !.bytes = @ + size].bytes = ctx.bytes + size
        /\ [ctx EXCEPT !.bytes = @ + size].warned = ctx.warned
        /\ [ctx EXCEPT !.bytes = @ + size].out = ctx.out
    BY <2>6 DEF Context
  <2>8. got.ctx = [ctx EXCEPT !.bytes = @ + size] /\ got.file = file BY <2>1 DEF Got
  <2>9. Read(ctx, ref, base, got)
    <3> HIDE DEF got
    <3> QED BY <1>7, <2>7, <2>8 DEF Read, Grows
  <2> QED BY <2>9
<1> QED BY <1>3, <1>4, <1>5, <1>6, <1>7

(* Loading a reference is a read. *)
LEMMA Loads ==
  ASSUME NEW ctx \in Context, NEW ref \in Reference, NEW base \in RefBase
  PROVE  Read(ctx, ref, base, Load(ctx, ref, base))
<1>1. CASE ResolveRef(ref, base) = "file"
  <2>1. Load(ctx, ref, base) = ReadBudgeted(ctx, ref, FileOf(ref, base)) BY <1>1 DEF Load
  <2> QED BY <2>1, BudgetedReads
<1>2. CASE ResolveRef(ref, base) # "file"
  <2> DEFINE told == WarnUnresolvedDescriptor(ctx, ResolveRef(ref, base), ref)
  <2>1. Load(ctx, ref, base) = Got(told, Nowhere) BY <1>2 DEF Load
  <2>2. Grows(ctx, told) /\ told.bytes = ctx.bytes /\ Accounted(told, ref, base)
    BY <1>2, DescriptorsWarn
  <2> HIDE DEF told
  <2> QED BY <2>1, <2>2 DEF Read, Got
<1> QED BY <1>1, <1>2

----------------------------------------------------------------------------
(* The bytes of the files that are in.                                     *)
LEMMA SizesAre ==
  ASSUME NEW p \in Pieces
  PROVE  SizeOf(p) \in Nat
BY ExportFilesAssumption DEF SizeOf, Pieces

(* Bytes are counted piece by piece. *)
LEMMA CountedIs ==
  ASSUME NEW pieces \in Seq(Pieces)
  PROVE  /\ Counted(pieces)[0] = 0
         /\ \A n \in 1 .. Len(pieces) :
              Counted(pieces)[n] = Counted(pieces)[n - 1] + SizeOf(pieces[n])
         /\ \A n \in 0 .. Len(pieces) : Counted(pieces)[n] \in Nat
<1> DEFINE N == Len(pieces)
           S == [n \in 0 .. N |-> Nat]
           step == [n \in 1 .. N |-> [x \in Nat |-> x + SizeOf(pieces[n])]]
           P(g) == g = [n \in 0 .. Len(pieces) |->
                          IF n = 0 THEN 0 ELSE g[n - 1] + SizeOf(pieces[n])]
           bytes == CHOOSE g : P(g)
<1>1. N \in Nat /\ 0 \in 0 .. N OBVIOUS
<1>2. \A n \in 1 .. N : n \in 0 .. N /\ n - 1 \in 0 .. N /\ n # 0 OBVIOUS
<1>3. \A n \in 1 .. N : SizeOf(pieces[n]) \in Nat BY SizesAre
<1>4. \A n \in 1 .. N : \A x \in S[n - 1] : step[n][x] \in S[n]
  <2> SUFFICES ASSUME NEW n \in 1 .. N, NEW x \in S[n - 1] PROVE step[n][x] \in S[n] OBVIOUS
  <2>1. x \in Nat /\ S[n] = Nat BY <1>2
  <2>2. step[n][x] = x + SizeOf(pieces[n]) BY <2>1
  <2> HIDE DEF step, S
  <2> QED BY <1>3, <2>1, <2>2
<1>5. \A n \in 0 .. N : S[n] = Nat OBVIOUS
<1>6. PICK f : Loops(f, N, S, 0, step)
  <2>1. 0 \in S[0] BY <1>1, <1>5
  <2> HIDE DEF N, S, step
  <2> QED BY <1>1, <1>4, <2>1, LoopRuns
<1>7. P(f)
  <2>1. \A n \in 0 .. N : n = 0 \/ n \in 1 .. N OBVIOUS
  <2>2. \A n \in 1 .. N : step[n][f[n - 1]] = f[n - 1] + SizeOf(pieces[n])
    BY <1>2, <1>5, <1>6 DEF Loops
  <2>3. \A n \in 0 .. N : f[n] = IF n = 0 THEN 0 ELSE f[n - 1] + SizeOf(pieces[n])
    BY <1>2, <1>6, <2>1, <2>2 DEF Loops
  <2> HIDE DEF step
  <2> QED BY <1>6, <2>3 DEF Loops
<1>8. P(bytes) BY <1>7
<1>9. bytes[0] = 0 /\ \A n \in 1 .. N : bytes[n] = bytes[n - 1] + SizeOf(pieces[n])
  <2> HIDE DEF bytes
  <2> QED BY <1>1, <1>2, <1>8
<1>10. Counted(pieces) = bytes BY DEF Counted
<1> HIDE DEF P
<1>11. \A n \in 0 .. N : bytes[n] \in S[n]
  <2>1. bytes[0] \in S[0] BY <1>1, <1>5, <1>9
  <2>2. \A n \in 1 .. N : bytes[n - 1] \in S[n - 1] => bytes[n] \in S[n]
    BY <1>2, <1>3, <1>5, <1>9
  <2> HIDE DEF bytes, N, S
  <2> QED BY <1>1, <2>1, <2>2, LoopHolds
<1> HIDE DEF bytes, S
<1> QED BY <1>5, <1>9, <1>10, <1>11

(* The bytes of the files that are in, counted piece by piece. *)
LEMMA InlinedBytesAre ==
  ASSUME NEW pieces \in Seq(Pieces)
  PROVE  InlinedBytes(pieces) = Counted(pieces)[Len(pieces)] /\ InlinedBytes(pieces) \in Nat
<1>1. Len(pieces) \in 0 .. Len(pieces) OBVIOUS
<1> QED BY <1>1, CountedIs DEF InlinedBytes

LEMMA NothingCounts ==
  <<>> \in Seq(Pieces) /\ Len(<<>>) = 0 /\ InlinedBytes(<<>>) = 0
<1>1. <<>> \in Seq(Pieces) /\ Len(<<>>) = 0 OBVIOUS
<1> QED BY <1>1, CountedIs, InlinedBytesAre

(* Only the sizes count. *)
LEMMA SamePrefix ==
  ASSUME NEW a \in Seq(Pieces), NEW b \in Seq(Pieces),
         NEW k \in 0 .. Len(a), k <= Len(b), \A n \in 1 .. k : SizeOf(a[n]) = SizeOf(b[n])
  PROVE  Counted(a)[k] = Counted(b)[k]
<1> DEFINE S == [n \in 0 .. k |-> {Counted(b)[n]}]
<1>1. k \in Nat /\ 0 \in 0 .. k /\ k \in 0 .. k OBVIOUS
<1>2. \A n \in 1 .. k : n \in 1 .. Len(a) /\ n \in 1 .. Len(b) OBVIOUS
<1>3. Counted(a)[0] \in S[0] BY <1>1, CountedIs
<1>4. \A n \in 1 .. k : Counted(a)[n - 1] \in S[n - 1] => Counted(a)[n] \in S[n]
  <2> SUFFICES ASSUME NEW n \in 1 .. k, Counted(a)[n - 1] \in S[n - 1]
               PROVE  Counted(a)[n] \in S[n] OBVIOUS
  <2>1. n \in 0 .. k /\ n - 1 \in 0 .. k OBVIOUS
  <2>2. Counted(a)[n - 1] = Counted(b)[n - 1] BY <2>1
  <2>3. Counted(a)[n] = Counted(b)[n] BY <1>2, <2>2, CountedIs
  <2> QED BY <2>1, <2>3
<1>5. \A n \in 0 .. k : Counted(a)[n] \in S[n]
  <2> HIDE DEF S
  <2> QED BY <1>1, <1>3, <1>4, LoopHolds
<1> QED BY <1>1, <1>5

LEMMA SameCounts ==
  ASSUME NEW a \in Seq(Pieces), NEW b \in Seq(Pieces), Len(a) = Len(b),
         \A n \in 1 .. Len(a) : SizeOf(a[n]) = SizeOf(b[n])
  PROVE  InlinedBytes(a) = InlinedBytes(b)
<1>1. Len(a) \in 0 .. Len(a) /\ Len(a) <= Len(b) OBVIOUS
<1>2. Counted(a)[Len(a)] = Counted(b)[Len(a)]
  <2> HIDE DEF Pieces
  <2> QED BY <1>1, SamePrefix
<1> QED BY <1>2, InlinedBytesAre

LEMMA NoneCounts ==
  ASSUME NEW a \in Seq(Pieces), \A n \in 1 .. Len(a) : a[n].as # "inlined"
  PROVE  InlinedBytes(a) = 0
<1> DEFINE S == [n \in 0 .. Len(a) |-> {0}]
<1>1. Len(a) \in Nat /\ 0 \in 0 .. Len(a) /\ Len(a) \in 0 .. Len(a) OBVIOUS
<1>2. Counted(a)[0] \in S[0] BY <1>1, CountedIs
<1>3. \A n \in 1 .. Len(a) : Counted(a)[n - 1] \in S[n - 1] => Counted(a)[n] \in S[n]
  <2> SUFFICES ASSUME NEW n \in 1 .. Len(a), Counted(a)[n - 1] \in S[n - 1]
               PROVE  Counted(a)[n] \in S[n] OBVIOUS
  <2>1. n \in 0 .. Len(a) /\ n - 1 \in 0 .. Len(a) OBVIOUS
  <2>2. Counted(a)[n - 1] = 0 /\ SizeOf(a[n]) = 0 BY <2>1 DEF SizeOf
  <2>3. Counted(a)[n] = 0 BY <2>2, CountedIs
  <2> QED BY <2>1, <2>3
<1>4. \A n \in 0 .. Len(a) : Counted(a)[n] \in S[n]
  <2> HIDE DEF S
  <2> QED BY <1>1, <1>2, <1>3, LoopHolds
<1> QED BY <1>1, <1>4, InlinedBytesAre

(* One piece more, and two runs of pieces. *)
LEMMA OneMoreCounts ==
  ASSUME NEW a \in Seq(Pieces), NEW p \in Pieces
  PROVE  Append(a, p) \in Seq(Pieces) /\ InlinedBytes(Append(a, p)) = InlinedBytes(a) + SizeOf(p)
<1> DEFINE b == Append(a, p)
<1>1. /\ b \in Seq(Pieces) /\ Len(b) = Len(a) + 1 /\ b[Len(b)] = p
      /\ \A n \in 1 .. Len(a) : b[n] = a[n] OBVIOUS
<1> HIDE DEF b
<1>2. Len(a) \in 0 .. Len(a) /\ Len(a) <= Len(b) /\ Len(b) \in 1 .. Len(b) /\ Len(b) - 1 = Len(a)
  BY <1>1
<1>3. Counted(a)[Len(a)] = Counted(b)[Len(a)] BY <1>1, <1>2, SamePrefix
<1>4. Counted(b)[Len(b)] = Counted(b)[Len(a)] + SizeOf(p) BY <1>1, <1>2, CountedIs
<1>5. InlinedBytes(b) = InlinedBytes(a) + SizeOf(p) BY <1>1, <1>3, <1>4, InlinedBytesAre
<1> QED BY <1>1, <1>5 DEF b

LEMMA BothCount ==
  ASSUME NEW a \in Seq(Pieces), NEW b \in Seq(Pieces)
  PROVE  a \o b \in Seq(Pieces) /\ InlinedBytes(a \o b) = InlinedBytes(a) + InlinedBytes(b)
<1> DEFINE c == a \o b
           N == Len(b)
           f == [n \in 0 .. N |-> Counted(c)[Len(a) + n]]
           S == [n \in 0 .. N |-> {InlinedBytes(a) + Counted(b)[n]}]
<1>1. /\ c \in Seq(Pieces) /\ Len(c) = Len(a) + Len(b)
      /\ \A n \in 1 .. Len(a) : c[n] = a[n]
      /\ \A n \in 1 .. Len(b) : c[Len(a) + n] = b[n] OBVIOUS
<1> HIDE DEF c
<1>2. N \in Nat /\ 0 \in 0 .. N /\ N \in 0 .. N /\ Len(a) \in Nat OBVIOUS
<1>3. f[0] \in S[0]
  <2>1. Len(a) \in 0 .. Len(a) /\ Len(a) <= Len(c) BY <1>1, <1>2
  <2>2. Counted(c)[Len(a)] = InlinedBytes(a)
    <3>1. Counted(a)[Len(a)] = Counted(c)[Len(a)] BY <1>1, <2>1, SamePrefix
    <3> QED BY <3>1, InlinedBytesAre
  <2>3. InlinedBytes(a) + Counted(b)[0] = InlinedBytes(a) BY CountedIs, InlinedBytesAre
  <2>4. f[0] = Counted(c)[Len(a)] BY <1>2
  <2>5. S[0] = {InlinedBytes(a) + Counted(b)[0]} BY <1>2
  <2> HIDE DEF f, S
  <2> QED BY <2>2, <2>3, <2>4, <2>5
<1>4. \A n \in 1 .. N : f[n - 1] \in S[n - 1] => f[n] \in S[n]
  <2> SUFFICES ASSUME NEW n \in 1 .. N, f[n - 1] \in S[n - 1] PROVE f[n] \in S[n] OBVIOUS
  <2>1. n \in 0 .. N /\ n - 1 \in 0 .. N /\ n \in 1 .. Len(b) OBVIOUS
  <2>2. f[n - 1] = Counted(c)[Len(a) + (n - 1)] /\ f[n] = Counted(c)[Len(a) + n] BY <2>1
  <2>3. f[n - 1] = InlinedBytes(a) + Counted(b)[n - 1] BY <2>1
  <2>4. S[n] = {InlinedBytes(a) + Counted(b)[n]} BY <2>1
  <2> HIDE DEF f, S
  <2>5. Len(a) + n \in 1 .. Len(c) /\ Len(a) + n - 1 = Len(a) + (n - 1) BY <1>1, <1>2, <2>1
  <2>6. Counted(c)[Len(a) + n] = Counted(c)[Len(a) + (n - 1)] + SizeOf(b[n])
    <3>1. Counted(c)[Len(a) + n] = Counted(c)[Len(a) + n - 1] + SizeOf(c[Len(a) + n])
      <4>1. \A m \in 1 .. Len(c) : Counted(c)[m] = Counted(c)[m - 1] + SizeOf(c[m])
        BY <1>1, CountedIs
      <4> QED BY <2>5, <4>1
    <3>2. c[Len(a) + n] = b[n] BY <1>1, <2>1
    <3> QED BY <2>5, <3>1, <3>2
  <2>7. Counted(b)[n] = Counted(b)[n - 1] + SizeOf(b[n]) BY <2>1, CountedIs
  <2>8. Counted(b)[n - 1] \in Nat /\ SizeOf(b[n]) \in Nat /\ InlinedBytes(a) \in Nat
    BY <2>1, CountedIs, SizesAre, InlinedBytesAre
  <2>9. f[n] = (InlinedBytes(a) + Counted(b)[n - 1]) + SizeOf(b[n]) BY <2>2, <2>3, <2>6
  <2>10. f[n] = InlinedBytes(a) + Counted(b)[n]
    <3>1. \A x, y, z \in Nat : (x + y) + z = x + (y + z) OBVIOUS
    <3> QED BY <2>7, <2>8, <2>9, <3>1
  <2> QED BY <2>4, <2>10
<1>5. \A n \in 0 .. N : f[n] \in S[n]
  <2> HIDE DEF f, S, N
  <2> QED BY <1>2, <1>3, <1>4, LoopHolds
<1>6. Counted(c)[Len(a) + N] = InlinedBytes(a) + Counted(b)[N] BY <1>2, <1>5
<1>7. InlinedBytes(c) = InlinedBytes(a) + InlinedBytes(b)
  <2> HIDE DEF f, S
  <2> QED BY <1>1, <1>6, InlinedBytesAre
<1> QED BY <1>1, <1>7 DEF c

----------------------------------------------------------------------------
(* What became of a reference is accounted for, once its urls were looked  *)
(* at; until then a url is not.                                            *)
Fine(p, ctx, base) ==
  /\ p.as \in {"left", "url"} => ~IsFileScheme(p.ref)
  /\ p.as \notin {"inlined", "kept"} => Accounted(ctx, p.ref, base)

(* Every piece is fine; or all but the urls that are still to be           *)
(* embedded.                                                               *)
AllFine(pieces, ctx, base) == \A n \in 1 .. Len(pieces) : Fine(pieces[n], ctx, base)
ButUrlsFine(pieces, ctx, base) ==
  \A n \in 1 .. Len(pieces) : pieces[n].as # "url" => Fine(pieces[n], ctx, base)

(* Fine pieces stay so while warnings are added. *)
LEMMA FineStays ==
  ASSUME NEW a, NEW b, Grows(a, b), NEW p, NEW base, Fine(p, a, base)
  PROVE  Fine(p, b, base)
BY StaysKnown DEF Fine

LEMMA AllFineStays ==
  ASSUME NEW a, NEW b, Grows(a, b), NEW pieces, NEW base
  PROVE  /\ AllFine(pieces, a, base) => AllFine(pieces, b, base)
         /\ ButUrlsFine(pieces, a, base) => ButUrlsFine(pieces, b, base)
BY FineStays DEF AllFine, ButUrlsFine

LEMMA PiecesHaveRefs ==
  ASSUME NEW p \in Pieces
  PROVE  p.ref \in Reference /\ p.as \in Treatment
BY DEF Pieces

(* Of a sheet in a file, every piece is fine whatever the base is. *)
LEMMA LocalIsFineAnywhere ==
  ASSUME NEW pieces \in Seq(Pieces), NEW ctx, NEW base \in RefBase, base.kind = "local",
         AllFine(pieces, ctx, base), NEW other \in RefBase
  PROVE  AllFine(pieces, ctx, other)
<1> SUFFICES ASSUME NEW n \in 1 .. Len(pieces) PROVE Fine(pieces[n], ctx, other)
  BY DEF AllFine
<1>1. pieces[n] \in Pieces /\ Fine(pieces[n], ctx, base) BY DEF AllFine
<1>2. pieces[n].ref \in Reference BY <1>1, PiecesHaveRefs
<1> QED BY <1>1, <1>2, LocalSkipsLeast DEF Fine

(* One piece more, and two runs of pieces. *)
LEMMA OneMoreFine ==
  ASSUME NEW pieces \in Seq(Pieces), NEW p \in Pieces, NEW ctx, NEW base,
         AllFine(pieces, ctx, base), Fine(p, ctx, base)
  PROVE  AllFine(Append(pieces, p), ctx, base)
<1>1. \A n \in 1 .. Len(Append(pieces, p)) :
        \/ n \in 1 .. Len(pieces) /\ Append(pieces, p)[n] = pieces[n]
        \/ Append(pieces, p)[n] = p OBVIOUS
<1> QED BY <1>1 DEF AllFine

LEMMA BothFine ==
  ASSUME NEW a \in Seq(Pieces), NEW b \in Seq(Pieces), NEW ctx, NEW base
  PROVE  /\ AllFine(a, ctx, base) /\ AllFine(b, ctx, base) => AllFine(a \o b, ctx, base)
         /\ ButUrlsFine(a, ctx, base) /\ ButUrlsFine(b, ctx, base) => ButUrlsFine(a \o b, ctx, base)
<1>1. \A n \in 1 .. Len(a \o b) :
        \/ n \in 1 .. Len(a) /\ (a \o b)[n] = a[n]
        \/ n - Len(a) \in 1 .. Len(b) /\ (a \o b)[n] = b[n - Len(a)] OBVIOUS
<1> QED BY <1>1 DEF AllFine, ButUrlsFine

(* The pieces the transform makes. *)
LEMMA PieceIs ==
  ASSUME NEW ref \in Reference, NEW as \in Treatment, as # "inlined"
  PROVE  /\ Piece(ref, as) \in Pieces /\ Piece(ref, as).ref = ref /\ Piece(ref, as).as = as
         /\ SizeOf(Piece(ref, as)) = 0
BY DEF Piece, Pieces, SizeOf

(* An inlined piece is fine: it is the file itself. *)
LEMMA InlinedPieceIs ==
  ASSUME NEW ref \in Reference, ref.file \in Asset, NEW ctx, NEW base
  PROVE  /\ Piece(ref, "inlined") \in Pieces
         /\ Piece(ref, "inlined").ref = ref /\ Piece(ref, "inlined").as = "inlined"
         /\ SizeOf(Piece(ref, "inlined")) = AssetInfo[ref.file].size
         /\ Fine(Piece(ref, "inlined"), ctx, base)
<1>1. "inlined" \in Treatment BY DEF Treatment
<1> QED BY <1>1 DEF Piece, Pieces, SizeOf, Fine

(* The text of a url that no file was found for is fine, rebased or blank. *)
LEMMA RebasedIs ==
  ASSUME NEW ref \in Reference, NEW base \in RefBase, NEW output \in RefBase,
         NEW ctx, Accounted(ctx, ref, base)
  PROVE  LET p == Redact(Rebase(ref, base, output)) IN
         p \in Pieces /\ SizeOf(p) = 0 /\ Fine(p, ctx, base)
<1> DEFINE rebased == Rebase(ref, base, output)
<1>1. Same(ref, rebased) BY RebasingIsSame
<1>2. rebased \in Reference BY <1>1 DEF Same
<1>3. Accounted(ctx, rebased, base) BY <1>1, SameSkips
<1>4. {"url", "redacted"} \subseteq Treatment BY DEF Treatment
<1> HIDE DEF rebased
<1>5. CASE IsFileScheme(rebased)
  <2>1. Redact(rebased) = Piece(rebased, "redacted") BY <1>5 DEF Redact
  <2> QED BY <1>2, <1>3, <1>4, <2>1, PieceIs DEF Fine, rebased
<1>6. CASE ~IsFileScheme(rebased)
  <2>1. Redact(rebased) = Piece(rebased, "url") BY <1>6 DEF Redact
  <2> QED BY <1>2, <1>3, <1>4, <1>6, <2>1, PieceIs DEF Fine, rebased
<1> QED BY <1>5, <1>6

(* So is an import that does not go in, and what the pass over urls leaves *)
(* of it.                                                                  *)
LEMMA RebasedImportIs ==
  ASSUME NEW ref \in Reference, NEW base \in RefBase, NEW output \in RefBase,
         NEW ctx, Accounted(ctx, ref, base)
  PROVE  LET p == RebaseCssImportRule(ref, base, output) IN
         p \in Pieces /\ p.as # "inlined" /\ SizeOf(p) = 0 /\ Fine(p, ctx, base)
<1> DEFINE rebased == Rebase(ref, base, output)
<1>1. Same(ref, rebased) BY RebasingIsSame
<1>2. rebased \in Reference BY <1>1 DEF Same
<1>3. Accounted(ctx, rebased, base) BY <1>1, SameSkips
<1>4. "import" \in Treatment BY DEF Treatment
<1> HIDE DEF rebased
<1>5. RebaseCssImportRule(ref, base, output) = Piece(rebased, "import")
  BY DEF RebaseCssImportRule, rebased
<1> QED BY <1>2, <1>3, <1>4, <1>5, PieceIs DEF Fine

LEMMA ErasedImportIs ==
  ASSUME NEW p \in Pieces, NEW ctx, NEW base, Fine(p, ctx, base)
  PROVE  LET q == ScrubCopiedCssImportRule(p) IN
         q \in Pieces /\ SizeOf(q) = SizeOf(p) /\ Fine(q, ctx, base)
<1>1. {"import", "erased"} \subseteq Treatment BY DEF Treatment
<1>2. CASE p.as = "import"
  <2>1. ScrubCopiedCssImportRule(p) = [p EXCEPT !.as = "erased"]
    BY <1>2 DEF ScrubCopiedCssImportRule
  <2>2. [p EXCEPT !.as = "erased"] \in Pieces /\ [p EXCEPT !.as = "erased"].as = "erased"
        /\ [p EXCEPT !.as = "erased"].ref = p.ref BY <1>1 DEF Pieces
  <2> QED BY <1>2, <2>1, <2>2 DEF SizeOf, Fine
<1>3. CASE p.as # "import"
  <2>1. ScrubCopiedCssImportRule(p) = p BY <1>3 DEF ScrubCopiedCssImportRule, Pieces
  <2> QED BY <2>1
<1> QED BY <1>2, <1>3

(* What a sheet, or a part of one, has become, from a context: the bytes   *)
(* are those of what is inlined.                                           *)
Made(ctx, base) ==
  {x \in [ctx : Context, pieces : Seq(Pieces)] :
     /\ Grows(ctx, x.ctx) /\ AllFine(x.pieces, x.ctx, base)
     /\ x.ctx.bytes = ctx.bytes + InlinedBytes(x.pieces)}

(* The same while its pieces are gone over again for their urls.           *)
UrlsDone(ctx, pieces, base, n) ==
  {x \in [ctx : Context, pieces : Seq(Pieces)] :
     /\ Grows(ctx, x.ctx) /\ AllFine(x.pieces, x.ctx, base)
     /\ x.ctx.bytes + Counted(pieces)[n] = ctx.bytes + InlinedBytes(x.pieces)}

LEMMA ContextsGrow ==
  ASSUME NEW ctx \in Context
  PROVE  Grows(ctx, ctx) /\ ctx.bytes \in Nat
BY DEF Grows, Context

(* Bytes counted before, now and after add up. *)
LEMMA SumsCarry ==
  ASSUME NEW a \in Nat, NEW b \in Nat, NEW c \in Nat, NEW d \in Nat, NEW i \in Nat,
         NEW s \in Nat, NEW q \in Nat, a + c = b + i, d + s = a + q
  PROVE  d + (c + s) = b + (i + q)
OBVIOUS

(* A piece settled after n - 1 makes n. *)
LEMMA UrlsGoOn ==
  ASSUME NEW ctx \in Context, NEW pieces \in Seq(Pieces), NEW base \in RefBase,
         NEW n \in 1 .. Len(pieces), NEW x \in UrlsDone(ctx, pieces, base, n - 1),
         NEW after, Grows(x.ctx, after), NEW p \in Pieces, Fine(p, after, base),
         after.bytes + SizeOf(pieces[n]) = x.ctx.bytes + SizeOf(p)
  PROVE  [ctx |-> after, pieces |-> Append(x.pieces, p)] \in UrlsDone(ctx, pieces, base, n)
<1>1. /\ x.ctx \in Context /\ x.pieces \in Seq(Pieces)
      /\ Grows(ctx, x.ctx) /\ AllFine(x.pieces, x.ctx, base)
      /\ x.ctx.bytes + Counted(pieces)[n - 1] = ctx.bytes + InlinedBytes(x.pieces)
  BY DEF UrlsDone
<1>2. after \in Context /\ Grows(ctx, after) BY <1>1, GrowsOn DEF Grows
<1>3. AllFine(Append(x.pieces, p), after, base) BY <1>1, AllFineStays, OneMoreFine
<1>4. /\ Append(x.pieces, p) \in Seq(Pieces)
      /\ InlinedBytes(Append(x.pieces, p)) = InlinedBytes(x.pieces) + SizeOf(p)
  BY <1>1, OneMoreCounts
<1>5. after.bytes + Counted(pieces)[n] = ctx.bytes + InlinedBytes(Append(x.pieces, p))
  <2>1. Counted(pieces)[n] = Counted(pieces)[n - 1] + SizeOf(pieces[n]) BY CountedIs
  <2>2. n - 1 \in 0 .. Len(pieces) OBVIOUS
  <2>3. Counted(pieces)[n - 1] \in Nat BY <2>2, CountedIs
  <2>4. SizeOf(pieces[n]) \in Nat /\ SizeOf(p) \in Nat /\ InlinedBytes(x.pieces) \in Nat
    BY <1>1, SizesAre, InlinedBytesAre
  <2>5. ctx.bytes \in Nat /\ x.ctx.bytes \in Nat /\ after.bytes \in Nat
    BY <1>1, <1>2, ContextsGrow
  <2> DEFINE a == x.ctx.bytes
             b == ctx.bytes
             c == Counted(pieces)[n - 1]
             d == after.bytes
             i == InlinedBytes(x.pieces)
             s == SizeOf(pieces[n])
             q == SizeOf(p)
  <2>6. a \in Nat /\ b \in Nat /\ c \in Nat /\ d \in Nat /\ i \in Nat /\ s \in Nat /\ q \in Nat
    BY <2>3, <2>4, <2>5
  <2>7. a + c = b + i /\ d + s = a + q BY <1>1
  <2>8. d + (c + s) = b + (i + q)
    <3> HIDE DEF a, b, c, d, i, s, q
    <3> QED BY <2>6, <2>7, SumsCarry
  <2> QED BY <1>4, <2>1, <2>8
<1> QED BY <1>2, <1>3, <1>4, <1>5 DEF UrlsDone

(* Whichever arm the url's turn takes, its piece is settled. *)
LEMMA UrlTurns ==
  ASSUME NEW ctx \in Context, NEW pieces \in Seq(Pieces), NEW base \in RefBase,
         NEW output \in RefBase, ButUrlsFine(pieces, ctx, base),
         NEW n \in 1 .. Len(pieces), NEW x \in UrlsDone(ctx, pieces, base, n - 1)
  PROVE  UrlTurn(x, pieces[n], base, output) \in UrlsDone(ctx, pieces, base, n)
<1> DEFINE p == pieces[n]
           turn == UrlTurn(x, p, base, output)
<1>1. /\ x \in [ctx : Context, pieces : Seq(Pieces)] /\ x.ctx \in Context
      /\ Grows(ctx, x.ctx) BY DEF UrlsDone
<1>2. p \in Pieces /\ p.ref \in Reference /\ p.as \in Treatment
  <2>1. p \in Pieces OBVIOUS
  <2> QED BY <2>1, PiecesHaveRefs
<1>3. p.as # "url" => Fine(p, x.ctx, base)
  <2>1. p.as # "url" => Fine(p, ctx, base) BY DEF ButUrlsFine
  <2> QED BY <1>1, <2>1, FineStays
<1> HIDE DEF p
<1>4. CASE p.as # "url" \/ p.ref.form = "inert"
  <2> DEFINE q == ScrubCopiedCssImportRule(p)
  <2>1. turn = [ctx |-> x.ctx, pieces |-> Append(x.pieces, q)] BY <1>1, <1>4 DEF UrlTurn
  <2>2. Fine(p, x.ctx, base)
    <3>1. CASE p.as # "url" BY <1>3, <3>1
    <3>2. CASE p.ref.form = "inert"
      <4>1. p.ref.form \notin LocalForm BY <3>2 DEF LocalForm
      <4>2. ResolveRef(p.ref, base) = "skip" BY <1>2, <4>1, ReferencesDescribed
      <4>3. ~IsFileScheme(p.ref) BY <3>2 DEF IsFileScheme
      <4> QED BY <4>2, <4>3 DEF Fine, Accounted
    <3> QED BY <1>4, <3>1, <3>2
  <2>3. Grows(x.ctx, x.ctx) BY <1>1, ContextsGrow
  <2>4. q \in Pieces /\ SizeOf(q) = SizeOf(pieces[n]) /\ Fine(q, x.ctx, base)
    BY <1>2, <2>2, ErasedImportIs DEF p
  <2> HIDE DEF turn, q
  <2> QED BY <2>1, <2>3, <2>4, UrlsGoOn DEF turn, p
<1>5. CASE p.as = "url" /\ p.ref.form # "inert"
  <2> DEFINE got == Load(x.ctx, p.ref, base)
  <2>1. Read(x.ctx, p.ref, base, got) BY <1>1, <1>2, Loads
  <2>2. turn = RewrittenUrl(x.pieces, p, got, base, output) BY <1>5 DEF UrlTurn
  <2>3. SizeOf(p) = 0 BY <1>5 DEF SizeOf
  <2>4. x.ctx.bytes \in Nat BY <1>1, ContextsGrow
  <2> HIDE DEF got, turn
  <2>5. CASE got.file \in Asset
    <3> DEFINE q == Piece([p.ref EXCEPT !.file = got.file], "inlined")
    <3>1. Nowhere \notin Asset BY ExportFilesAssumption
    <3>2. turn = [ctx |-> got.ctx, pieces |-> Append(x.pieces, q)]
      BY <2>2, <2>5, <3>1 DEF RewrittenUrl
    <3>3. Same(p.ref, [p.ref EXCEPT !.file = got.file]) /\ [p.ref EXCEPT !.file = got.file].file = got.file
      BY <1>2, <2>5, NamingAFile
    <3>4. /\ q \in Pieces /\ SizeOf(q) = AssetInfo[got.file].size /\ Fine(q, got.ctx, base)
      BY <2>5, <3>3, InlinedPieceIs DEF Same
    <3>5. Grows(x.ctx, got.ctx) /\ got.ctx.bytes = x.ctx.bytes + SizeOf(q)
      BY <2>1, <2>5, <3>1, <3>4 DEF Read
    <3> HIDE DEF q
    <3>6. SizeOf(q) \in Nat BY <3>4, SizesAre
    <3>7. got.ctx.bytes + SizeOf(pieces[n]) = x.ctx.bytes + SizeOf(q)
      BY <2>3, <2>4, <3>5, <3>6 DEF p
    <3> QED BY <3>2, <3>4, <3>5, <3>7, UrlsGoOn DEF turn, p
  <2>6. CASE got.file \notin Asset
    <3> DEFINE q == Redact(Rebase(p.ref, base, output))
    <3>1. /\ got.file = Nowhere /\ Grows(x.ctx, got.ctx) /\ got.ctx.bytes = x.ctx.bytes
          /\ Accounted(got.ctx, p.ref, base)
      BY <2>1, <2>6 DEF Read
    <3>2. turn = [ctx |-> got.ctx, pieces |-> Append(x.pieces, q)]
      BY <2>2, <3>1 DEF RewrittenUrl
    <3>3. q \in Pieces /\ SizeOf(q) = 0 /\ Fine(q, got.ctx, base)
      BY <1>2, <3>1, RebasedIs
    <3> HIDE DEF q
    <3>4. got.ctx.bytes + SizeOf(pieces[n]) = x.ctx.bytes + SizeOf(q)
      BY <2>3, <2>4, <3>1, <3>3 DEF p
    <3> QED BY <3>1, <3>2, <3>3, <3>4, UrlsGoOn DEF turn, p
  <2> QED BY <2>5, <2>6 DEF turn
<1> QED BY <1>4, <1>5 DEF p

(* Before the first url. *)
LEMMA UrlsBegin ==
  ASSUME NEW ctx \in Context, NEW pieces \in Seq(Pieces), NEW base
  PROVE  [ctx |-> ctx, pieces |-> <<>>] \in UrlsDone(ctx, pieces, base, 0)
<1>1. AllFine(<<>>, ctx, base) BY NothingCounts DEF AllFine
<1>2. Counted(pieces)[0] = 0 BY CountedIs
<1>3. ctx.bytes + 0 = ctx.bytes + InlinedBytes(<<>>) BY NothingCounts
<1> QED BY <1>1, <1>2, <1>3, NothingCounts, ContextsGrow DEF UrlsDone

(* All pieces are gone over. *)
LEMMA UrlLoop ==
  ASSUME NEW ctx \in Context, NEW pieces \in Seq(Pieces), NEW base \in RefBase,
         NEW output \in RefBase, ButUrlsFine(pieces, ctx, base)
  PROVE  InlineCssUrls(ctx, pieces, base, output) \in UrlsDone(ctx, pieces, base, Len(pieces))
<1> DEFINE N == Len(pieces)
           Turn(n, x) == UrlTurn(x, pieces[n], base, output)
           S == [n \in 0 .. N |-> UrlsDone(ctx, pieces, base, n)]
           step == [n \in 1 .. N |-> [x \in S[n - 1] |-> Turn(n, x)]]
           P(g) == g = [n \in 0 .. Len(pieces) |->
                          IF n = 0 THEN [ctx |-> ctx, pieces |-> <<>>]
                          ELSE UrlTurn(g[n - 1], pieces[n], base, output)]
           loop == CHOOSE g : P(g)
<1>1. N \in Nat /\ 0 \in 0 .. N /\ N \in 0 .. N OBVIOUS
<1>2. \A n \in 1 .. N : n \in 0 .. N /\ n - 1 \in 0 .. N /\ n # 0 OBVIOUS
<1>3. \A n \in 1 .. N : \A x \in S[n - 1] : Turn(n, x) \in S[n]
  <2> SUFFICES ASSUME NEW n \in 1 .. N, NEW x \in S[n - 1] PROVE Turn(n, x) \in S[n] OBVIOUS
  <2>1. x \in UrlsDone(ctx, pieces, base, n - 1) /\ S[n] = UrlsDone(ctx, pieces, base, n) BY <1>2
  <2>2. UrlTurn(x, pieces[n], base, output) \in UrlsDone(ctx, pieces, base, n) BY <2>1, UrlTurns
  <2> QED BY <2>1, <2>2
<1>4. [ctx |-> ctx, pieces |-> <<>>] \in S[0] BY <1>1, UrlsBegin
<1>5. S[N] = UrlsDone(ctx, pieces, base, Len(pieces)) BY <1>1
<1> HIDE DEF S, Turn
<1>6. PICK f : Loops(f, N, S, [ctx |-> ctx, pieces |-> <<>>], step)
  <2>1. \A n \in 1 .. N : \A x \in S[n - 1] : step[n][x] \in S[n] BY <1>3
  <2> HIDE DEF N, step
  <2> QED BY <1>1, <1>4, <2>1, LoopRuns
<1>7. P(f)
  <2>1. \A n \in 0 .. N : n = 0 \/ n \in 1 .. N OBVIOUS
  <2>2. \A n \in 1 .. N : step[n][f[n - 1]] = Turn(n, f[n - 1]) BY <1>2, <1>6 DEF Loops
  <2>3. \A n \in 0 .. N : f[n] = IF n = 0 THEN [ctx |-> ctx, pieces |-> <<>>] ELSE Turn(n, f[n - 1])
    BY <1>2, <1>6, <2>1, <2>2 DEF Loops
  <2> HIDE DEF step
  <2> QED BY <1>6, <2>3 DEF Loops, Turn
<1>8. P(loop) BY <1>7
<1>9. loop[0] = [ctx |-> ctx, pieces |-> <<>>] /\ \A n \in 1 .. N : loop[n] = Turn(n, loop[n - 1])
  <2> HIDE DEF loop
  <2> QED BY <1>1, <1>2, <1>8 DEF Turn
<1>10. InlineCssUrls(ctx, pieces, base, output) = loop[N] BY DEF InlineCssUrls, P
<1> HIDE DEF P
<1>11. \A n \in 0 .. N : loop[n] \in S[n]
  <2>1. loop[0] \in S[0] BY <1>4, <1>9
  <2>2. \A n \in 1 .. N : loop[n - 1] \in S[n - 1] => loop[n] \in S[n] BY <1>3, <1>9
  <2> HIDE DEF loop, N
  <2> QED BY <1>1, <2>1, <2>2, LoopHolds
<1> HIDE DEF loop
<1> QED BY <1>1, <1>5, <1>10, <1>11

----------------------------------------------------------------------------
(* The parts of a sheet. *)
OfKind(kinds) == {r \in SheetRule : r.kind \in kinds}
Sheets ==
  [imports : Seq(OfKind({"import"})), namespace : BOOLEAN, late : Seq(OfKind({"import"})),
   urls : Seq(OfKind({"style"}))]

LEMMA RulesHaveRefs ==
  /\ \A r \in OfKind({"import"}) : r.ref \in Reference
  /\ \A r \in OfKind({"style"}) : r.ref \in Reference
  /\ \A r \in OfKind({"import", "style"}) : r.ref \in Reference
BY DEF OfKind, SheetRule

(* Picking the rules of some kinds, one by one. *)
LEMMA RuleTurns ==
  ASSUME NEW kinds, NEW rules \in Seq(SheetRule), NEW n \in 1 .. Len(rules),
         NEW x \in Seq(OfKind(kinds))
  PROVE  (IF rules[n].kind \in kinds THEN Append(x, rules[n]) ELSE x) \in Seq(OfKind(kinds))
<1>1. CASE rules[n].kind \in kinds
  <2>1. rules[n] \in OfKind(kinds) BY <1>1 DEF OfKind
  <2> QED BY <1>1, <2>1
<1> QED BY <1>1

LEMMA NoRules == \A kinds : <<>> \in Seq(OfKind(kinds))
OBVIOUS

(* The rules of some kinds. *)
LEMMA RulesLoop ==
  ASSUME NEW kinds, NEW rules \in Seq(SheetRule)
  PROVE  RulesOf(kinds, rules) \in Seq(OfKind(kinds))
<1> DEFINE N == Len(rules)
           Turn(n, x) == (IF rules[n].kind \in kinds THEN Append(x, rules[n]) ELSE x)
           S == [n \in 0 .. N |-> Seq(OfKind(kinds))]
           step == [n \in 1 .. N |-> [x \in S[n - 1] |-> Turn(n, x)]]
           P(g) == g = [n \in 0 .. Len(rules) |->
                          IF n = 0 THEN <<>>
                          ELSE (IF rules[n].kind \in kinds THEN Append(g[n - 1], rules[n]) ELSE g[n - 1])]
           loop == CHOOSE g : P(g)
<1>1. N \in Nat /\ 0 \in 0 .. N /\ N \in 0 .. N OBVIOUS
<1>2. \A n \in 1 .. N : n \in 0 .. N /\ n - 1 \in 0 .. N /\ n # 0 OBVIOUS
<1>3. \A n \in 1 .. N : \A x \in S[n - 1] : Turn(n, x) \in S[n]
  <2> SUFFICES ASSUME NEW n \in 1 .. N, NEW x \in S[n - 1] PROVE Turn(n, x) \in S[n] OBVIOUS
  <2>1. x \in Seq(OfKind(kinds)) /\ S[n] = Seq(OfKind(kinds)) BY <1>2
  <2>2. (IF rules[n].kind \in kinds THEN Append(x, rules[n]) ELSE x) \in Seq(OfKind(kinds))
    BY <2>1, RuleTurns
  <2> QED BY <2>1, <2>2
<1>4. <<>> \in S[0] BY <1>1, NoRules
<1>5. S[N] = Seq(OfKind(kinds)) BY <1>1
<1> HIDE DEF S, Turn
<1>6. PICK f : Loops(f, N, S, <<>>, step)
  <2>1. \A n \in 1 .. N : \A x \in S[n - 1] : step[n][x] \in S[n] BY <1>3
  <2> HIDE DEF N, step
  <2> QED BY <1>1, <1>4, <2>1, LoopRuns
<1>7. P(f)
  <2>1. \A n \in 0 .. N : n = 0 \/ n \in 1 .. N OBVIOUS
  <2>2. \A n \in 1 .. N : step[n][f[n - 1]] = Turn(n, f[n - 1]) BY <1>2, <1>6 DEF Loops
  <2>3. \A n \in 0 .. N : f[n] = IF n = 0 THEN <<>> ELSE Turn(n, f[n - 1])
    BY <1>2, <1>6, <2>1, <2>2 DEF Loops
  <2> HIDE DEF step
  <2> QED BY <1>6, <2>3 DEF Loops, Turn
<1>8. P(loop) BY <1>7
<1>9. loop[0] = <<>> /\ \A n \in 1 .. N : loop[n] = Turn(n, loop[n - 1])
  <2> HIDE DEF loop
  <2> QED BY <1>1, <1>2, <1>8 DEF Turn
<1>10. RulesOf(kinds, rules) = loop[N] BY DEF RulesOf, P
<1> HIDE DEF P
<1>11. \A n \in 0 .. N : loop[n] \in S[n]
  <2>1. loop[0] \in S[0] BY <1>4, <1>9
  <2>2. \A n \in 1 .. N : loop[n - 1] \in S[n - 1] => loop[n] \in S[n] BY <1>3, <1>9
  <2> HIDE DEF loop, N
  <2> QED BY <1>1, <2>1, <2>2, LoopHolds
<1> HIDE DEF loop
<1> QED BY <1>1, <1>5, <1>10, <1>11

(* A sheet splits into its imports, its late imports and its urls. *)
LEMMA BodyStarts ==
  ASSUME NEW rules \in Seq(SheetRule)
  PROVE  BodyStart(rules) \in 1 .. Len(rules) + 1
<1> DEFINE T == {n \in DOMAIN rules : rules[n].kind = "style"} \cup {Len(rules) + 1}
<1>1. T \in SUBSET Nat /\ T # {} /\ \A i \in T : i \in 1 .. Len(rules) + 1 OBVIOUS
<1>2. \E m \in T : \A k \in T : m <= k
  <2> HIDE DEF T
  <2> QED BY <1>1, HasLeast
<1>3. Min(T) \in T
  <2> HIDE DEF T
  <2> QED BY <1>2 DEF Min
<1> QED BY <1>1, <1>3 DEF BodyStart

LEMMA SheetsHaveParts ==
  ASSUME NEW rules \in Seq(SheetRule)
  PROVE  CollectCssPrelude(rules) \in Sheets
<1> DEFINE start == BodyStart(rules)
           prelude == SubSeq(rules, 1, start - 1)
           body == SubSeq(rules, start, Len(rules))
<1>1. start \in 1 .. Len(rules) + 1 BY BodyStarts
<1> HIDE DEF start
<1>2. prelude \in Seq(SheetRule) BY <1>1
<1>3. body \in Seq(SheetRule)
  <2>1. CASE start <= Len(rules) BY <1>1, <2>1
  <2>2. CASE start > Len(rules) BY <1>1, <2>2
  <2> QED BY <1>1, <2>1, <2>2
<1> HIDE DEF prelude, body
<1>4. /\ RulesOf({"import"}, prelude) \in Seq(OfKind({"import"}))
      /\ RulesOf({"import"}, body) \in Seq(OfKind({"import"}))
      /\ RulesOf({"style"}, body) \in Seq(OfKind({"style"})) BY <1>2, <1>3, RulesLoop
<1> QED BY <1>4 DEF CollectCssPrelude, Sheets, prelude, body, start

(* A piece more, and the bytes it costs. *)
LEMMA MadeGoesOn ==
  ASSUME NEW ctx \in Context, NEW base \in RefBase, NEW x \in Made(ctx, base),
         NEW after, Grows(x.ctx, after), NEW p \in Pieces, Fine(p, after, base),
         after.bytes = x.ctx.bytes + SizeOf(p)
  PROVE  [ctx |-> after, pieces |-> Append(x.pieces, p)] \in Made(ctx, base)
<1>1. /\ x.ctx \in Context /\ x.pieces \in Seq(Pieces)
      /\ Grows(ctx, x.ctx) /\ AllFine(x.pieces, x.ctx, base)
      /\ x.ctx.bytes = ctx.bytes + InlinedBytes(x.pieces) BY DEF Made
<1>2. after \in Context /\ Grows(ctx, after) BY <1>1, GrowsOn DEF Grows
<1>3. AllFine(Append(x.pieces, p), after, base) BY <1>1, AllFineStays, OneMoreFine
<1>4. /\ Append(x.pieces, p) \in Seq(Pieces)
      /\ InlinedBytes(Append(x.pieces, p)) = InlinedBytes(x.pieces) + SizeOf(p)
  BY <1>1, OneMoreCounts
<1>5. after.bytes = ctx.bytes + InlinedBytes(Append(x.pieces, p))
  <2> DEFINE b == ctx.bytes
             i == InlinedBytes(x.pieces)
             s == SizeOf(p)
  <2>1. b \in Nat /\ i \in Nat /\ s \in Nat BY <1>1, SizesAre, InlinedBytesAre, ContextsGrow
  <2>2. after.bytes = (b + i) + s BY <1>1
  <2>3. after.bytes = b + (i + s)
    <3> HIDE DEF b, i, s
    <3> QED BY <2>1, <2>2
  <2> QED BY <1>4, <2>3
<1> QED BY <1>2, <1>3, <1>4, <1>5 DEF Made

LEMMA NothingMade ==
  ASSUME NEW ctx \in Context, NEW base
  PROVE  [ctx |-> ctx, pieces |-> <<>>] \in Made(ctx, base)
<1>1. AllFine(<<>>, ctx, base) BY NothingCounts DEF AllFine
<1>2. ctx.bytes = ctx.bytes + InlinedBytes(<<>>) BY NothingCounts, ContextsGrow
<1> QED BY <1>1, <1>2, NothingCounts, ContextsGrow DEF Made

(* Imports after the body are told about. *)
LEMMA LateTurns ==
  ASSUME NEW ctx \in Context, NEW base \in RefBase, NEW output \in RefBase,
         NEW sheet \in Sheets, NEW n \in 1 .. Len(sheet.late), NEW x \in Made(ctx, base)
  PROVE  LateTurn(x, sheet.late[n], base, output) \in Made(ctx, base)
<1> DEFINE ref == sheet.late[n].ref
           told == WarnLeft(x.ctx, "late-css-import", ref, base)
           p == RebaseCssImportRule(ref, base, output)
<1>1. ref \in Reference
  <2>1. sheet.late[n] \in OfKind({"import"}) BY DEF Sheets
  <2> QED BY <2>1, RulesHaveRefs
<1> HIDE DEF ref
<1>2. x.ctx \in Context BY DEF Made
<1>3. "late-css-import" \in WarningKind BY DEF WarningKind
<1>4. Grows(x.ctx, told) /\ told.bytes = x.ctx.bytes /\ Accounted(told, ref, base)
  BY <1>1, <1>2, <1>3, LeftIsAccounted
<1> HIDE DEF told
<1>5. p \in Pieces /\ SizeOf(p) = 0 /\ Fine(p, told, base) BY <1>1, <1>4, RebasedImportIs
<1> HIDE DEF p
<1>6. told.bytes = x.ctx.bytes + SizeOf(p) BY <1>2, <1>4, <1>5, ContextsGrow
<1>7. [ctx |-> told, pieces |-> Append(x.pieces, p)] \in Made(ctx, base)
  BY <1>4, <1>5, <1>6, MadeGoesOn
<1> QED BY <1>7 DEF LateTurn, told, p, ref

(* All late imports are. *)
LEMMA LateLoop ==
  ASSUME NEW ctx \in Context, NEW base \in RefBase, NEW output \in RefBase,
         NEW sheet \in Sheets, NEW prelude \in Made(ctx, base)
  PROVE  RewriteLateCssImports(prelude, sheet, base, output) \in Made(ctx, base)
<1> DEFINE N == Len(sheet.late)
           Turn(n, x) == LateTurn(x, sheet.late[n], base, output)
           S == [n \in 0 .. N |-> Made(ctx, base)]
           step == [n \in 1 .. N |-> [x \in S[n - 1] |-> Turn(n, x)]]
           P(g) == g = [n \in 0 .. Len(sheet.late) |->
                          IF n = 0 THEN prelude
                          ELSE LateTurn(g[n - 1], sheet.late[n], base, output)]
           loop == CHOOSE g : P(g)
<1>1. N \in Nat /\ 0 \in 0 .. N /\ N \in 0 .. N BY DEF Sheets
<1>2. \A n \in 1 .. N : n \in 0 .. N /\ n - 1 \in 0 .. N /\ n # 0 OBVIOUS
<1>3. \A n \in 1 .. N : \A x \in S[n - 1] : Turn(n, x) \in S[n]
  <2> SUFFICES ASSUME NEW n \in 1 .. N, NEW x \in S[n - 1] PROVE Turn(n, x) \in S[n] OBVIOUS
  <2>1. x \in Made(ctx, base) /\ S[n] = Made(ctx, base) BY <1>2
  <2>2. (LateTurn(x, sheet.late[n], base, output)) \in Made(ctx, base) BY <2>1, LateTurns
  <2> QED BY <2>1, <2>2
<1>4. prelude \in S[0] BY <1>1, prelude \in Made(ctx, base)
<1>5. S[N] = Made(ctx, base) BY <1>1
<1> HIDE DEF S, Turn
<1>6. PICK f : Loops(f, N, S, prelude, step)
  <2>1. \A n \in 1 .. N : \A x \in S[n - 1] : step[n][x] \in S[n] BY <1>3
  <2> HIDE DEF N, step
  <2> QED BY <1>1, <1>4, <2>1, LoopRuns
<1>7. P(f)
  <2>1. \A n \in 0 .. N : n = 0 \/ n \in 1 .. N OBVIOUS
  <2>2. \A n \in 1 .. N : step[n][f[n - 1]] = Turn(n, f[n - 1]) BY <1>2, <1>6 DEF Loops
  <2>3. \A n \in 0 .. N : f[n] = IF n = 0 THEN prelude ELSE Turn(n, f[n - 1])
    BY <1>2, <1>6, <2>1, <2>2 DEF Loops
  <2> HIDE DEF step
  <2> QED BY <1>6, <2>3 DEF Loops, Turn
<1>8. P(loop) BY <1>7
<1>9. loop[0] = prelude /\ \A n \in 1 .. N : loop[n] = Turn(n, loop[n - 1])
  <2> HIDE DEF loop
  <2> QED BY <1>1, <1>2, <1>8 DEF Turn
<1>10. RewriteLateCssImports(prelude, sheet, base, output) = loop[N] BY DEF RewriteLateCssImports, P
<1> HIDE DEF P
<1>11. \A n \in 0 .. N : loop[n] \in S[n]
  <2>1. loop[0] \in S[0] BY <1>4, <1>9
  <2>2. \A n \in 1 .. N : loop[n - 1] \in S[n - 1] => loop[n] \in S[n] BY <1>3, <1>9
  <2> HIDE DEF loop, N
  <2> QED BY <1>1, <2>1, <2>2, LoopHolds
<1> HIDE DEF loop
<1> QED BY <1>1, <1>5, <1>10, <1>11

(* Imports that are given up: none is inlined, and each is told about.     *)
Prepared(call, sheet) ==
  {acc \in [ctx : Context, failed : 0 .. Len(sheet.imports), cause : {"other", "load"},
            pieces : Seq(Pieces)] :
     /\ Grows(call.ctx, acc.ctx) /\ AllFine(acc.pieces, acc.ctx, call.base)
     /\ acc.failed = 0 => acc.ctx.bytes = call.ctx.bytes + InlinedBytes(acc.pieces)
     /\ acc.cause = "load" =>
          acc.failed # 0 /\ Accounted(acc.ctx, sheet.imports[acc.failed].ref, call.base)}

(* The contexts in which the first n imports are accounted for and no      *)
(* byte is counted.                                                        *)
ToldOf(rolled, sheet, base, n) ==
  {c \in Context :
     /\ Grows(rolled, c) /\ c.bytes = rolled.bytes
     /\ \A m \in 1 .. n : Accounted(c, sheet.imports[m].ref, base)}

(* An import that stays is told of. *)
LEMMA ImportsWarn ==
  ASSUME NEW ctx \in Context, NEW i \in OfKind({"import"}), NEW base \in RefBase, NEW depth,
         NEW failedToLoad \in BOOLEAN, failedToLoad => Accounted(ctx, i.ref, base)
  PROVE  LET told == WarnExternalizedCssImport(ctx, i, base, depth, failedToLoad) IN
         Grows(ctx, told) /\ told.bytes = ctx.bytes /\ Accounted(told, i.ref, base)
<1> DEFINE c == ClassifyCssImport(i, base, depth)
           d == ResolveRef(i.ref, base)
           told == WarnExternalizedCssImport(ctx, i, base, depth, failedToLoad)
<1>1. i.ref \in Reference BY RulesHaveRefs
<1>2. {"css-import-order", "css-import-depth", "unsupported-css-import"} \subseteq WarningKind
  BY DEF WarningKind
<1>3. d \in {"skip", "file", "unparseable-file-url", "unmapped-root"} BY <1>1, ReferencesDescribed
<1>4. \/ c = "depth" \/ c = "unsupported" \/ c = "candidate"
      \/ c = d /\ d # "file" BY DEF ClassifyCssImport
<1> HIDE DEF c, d
<1>5. CASE c = "candidate" /\ failedToLoad
  <2>1. told = ctx BY <1>5 DEF WarnExternalizedCssImport, c
  <2> QED BY <1>5, <2>1, ContextsGrow
<1>6. CASE c = "candidate" /\ ~failedToLoad
  <2>1. told = Warn(ctx, "css-import-order", i.ref) BY <1>6 DEF WarnExternalizedCssImport, c
  <2> QED BY <1>1, <1>2, <2>1, Warning DEF Accounted
<1>7. CASE c = "depth"
  <2> DEFINE left == WarnLeft(ctx, "css-import-depth", i.ref, base)
  <2>1. told = left BY <1>7 DEF WarnExternalizedCssImport, c
  <2>2. "css-import-depth" \in WarningKind BY <1>2
  <2>3. Grows(ctx, left) /\ left.bytes = ctx.bytes /\ Accounted(left, i.ref, base)
    BY <1>1, <2>2, LeftIsAccounted
  <2> QED BY <2>1, <2>3
<1>8. CASE c = "unsupported"
  <2> DEFINE left == WarnLeft(ctx, "unsupported-css-import", i.ref, base)
  <2>1. told = left BY <1>8 DEF WarnExternalizedCssImport, c
  <2>2. "unsupported-css-import" \in WarningKind BY <1>2
  <2>3. Grows(ctx, left) /\ left.bytes = ctx.bytes /\ Accounted(left, i.ref, base)
    BY <1>1, <2>2, LeftIsAccounted
  <2> QED BY <2>1, <2>3
<1>9. CASE c = d /\ d # "file"
  <2>1. c \notin {"candidate", "depth", "unsupported"} BY <1>3, <1>9
  <2>2. told = WarnUnresolvedDescriptor(ctx, d, i.ref)
    BY <1>9, <2>1 DEF WarnExternalizedCssImport, c
  <2> QED BY <1>1, <1>9, <2>2, DescriptorsWarn DEF d
<1> QED BY <1>4, <1>5, <1>6, <1>7, <1>8, <1>9

(* One import more is kept in the sheet. *)
LEMMA ExternalizeTurns ==
  ASSUME NEW call \in SheetCall, NEW sheet \in Sheets, NEW depth,
         NEW done \in Prepared(call, sheet), NEW n \in 1 .. Len(sheet.imports),
         NEW x \in ToldOf(RollBack(done.ctx, call.ctx.bytes), sheet, call.base, n - 1)
  PROVE  ExternalizeTurn(x, n, sheet, call.base, depth, done)
           \in ToldOf(RollBack(done.ctx, call.ctx.bytes), sheet, call.base, n)
<1> DEFINE rolled == RollBack(done.ctx, call.ctx.bytes)
           i == sheet.imports[n]
           failedToLoad == n = done.failed /\ done.cause = "load"
           told == WarnExternalizedCssImport(x, i, call.base, depth, failedToLoad)
<1>1. call.base \in RefBase BY DEF SheetCall
<1>2. i \in OfKind({"import"}) BY DEF Sheets
<1>3. done.ctx.warned \subseteq rolled.warned /\ done.ctx \in Context
  BY DEF Prepared, RollBack, Context
<1> HIDE DEF rolled
<1>4. /\ x \in Context /\ Grows(rolled, x) /\ x.bytes = rolled.bytes
      /\ \A m \in 1 .. n - 1 : Accounted(x, sheet.imports[m].ref, call.base)
  BY DEF ToldOf, rolled
<1>5. failedToLoad => Accounted(x, i.ref, call.base)
  <2>1. failedToLoad => Accounted(done.ctx, i.ref, call.base) BY DEF Prepared
  <2>2. done.ctx.warned \subseteq x.warned BY <1>3, <1>4 DEF Grows
  <2> QED BY <2>1, <2>2 DEF Accounted, KnownIn
<1> HIDE DEF i, failedToLoad
<1>6. Grows(x, told) /\ told.bytes = x.bytes /\ Accounted(told, i.ref, call.base)
  <2>1. failedToLoad \in BOOLEAN BY DEF failedToLoad
  <2> QED BY <1>1, <1>2, <1>4, <1>5, <2>1, ImportsWarn
<1> HIDE DEF told
<1>7. told \in Context /\ Grows(rolled, told) BY <1>4, <1>6, GrowsOn DEF Grows
<1>8. \A m \in 1 .. n : Accounted(told, sheet.imports[m].ref, call.base)
  <2>1. \A m \in 1 .. n : m = n \/ m \in 1 .. n - 1 OBVIOUS
  <2> QED BY <1>4, <1>6, <2>1, StaysKnown DEF i
<1>9. told \in ToldOf(rolled, sheet, call.base, n) BY <1>4, <1>6, <1>7, <1>8 DEF ToldOf
<1> QED BY <1>9 DEF ExternalizeTurn, told, i, failedToLoad, rolled

(* Rolling back gives the bytes back and keeps the warnings. *)
LEMMA ExternalizeBegins ==
  ASSUME NEW call \in SheetCall, NEW sheet \in Sheets, NEW done \in Prepared(call, sheet)
  PROVE  RollBack(done.ctx, call.ctx.bytes)
           \in ToldOf(RollBack(done.ctx, call.ctx.bytes), sheet, call.base, 0)
<1>1. done.ctx \in Context /\ call.ctx \in Context BY DEF Prepared, SheetCall
<1>2. RollBack(done.ctx, call.ctx.bytes) \in Context BY <1>1 DEF RollBack, Context
<1> QED BY <1>2, ContextsGrow DEF ToldOf

(* Every import is told about. *)
LEMMA ExternalizeLoop ==
  ASSUME NEW call \in SheetCall, NEW sheet \in Sheets, NEW depth,
         NEW done \in Prepared(call, sheet)
  PROVE  ExternalizeImports(call.ctx, sheet, call.base, depth, call.output, done).ctx
           \in ToldOf(RollBack(done.ctx, call.ctx.bytes), sheet, call.base, Len(sheet.imports))
<1> DEFINE N == Len(sheet.imports)
           Turn(n, x) == ExternalizeTurn(x, n, sheet, call.base, depth, done)
           S == [n \in 0 .. N |-> ToldOf(RollBack(done.ctx, call.ctx.bytes), sheet, call.base, n)]
           step == [n \in 1 .. N |-> [x \in S[n - 1] |-> Turn(n, x)]]
           P(g) == g = [n \in 0 .. Len(sheet.imports) |->
                          IF n = 0 THEN RollBack(done.ctx, call.ctx.bytes)
                          ELSE ExternalizeTurn(g[n - 1], n, sheet, call.base, depth, done)]
           loop == CHOOSE g : P(g)
<1>1. N \in Nat /\ 0 \in 0 .. N /\ N \in 0 .. N BY DEF Sheets
<1>2. \A n \in 1 .. N : n \in 0 .. N /\ n - 1 \in 0 .. N /\ n # 0 OBVIOUS
<1>3. \A n \in 1 .. N : \A x \in S[n - 1] : Turn(n, x) \in S[n]
  <2> SUFFICES ASSUME NEW n \in 1 .. N, NEW x \in S[n - 1] PROVE Turn(n, x) \in S[n] OBVIOUS
  <2>1. /\ x \in ToldOf(RollBack(done.ctx, call.ctx.bytes), sheet, call.base, n - 1)
        /\ S[n] = ToldOf(RollBack(done.ctx, call.ctx.bytes), sheet, call.base, n)
    BY <1>2
  <2>2. ExternalizeTurn(x, n, sheet, call.base, depth, done)
          \in ToldOf(RollBack(done.ctx, call.ctx.bytes), sheet, call.base, n)
    BY <2>1, ExternalizeTurns
  <2> QED BY <2>1, <2>2
<1>4. RollBack(done.ctx, call.ctx.bytes) \in S[0] BY <1>1, ExternalizeBegins
<1>5. S[N] = ToldOf(RollBack(done.ctx, call.ctx.bytes), sheet, call.base, Len(sheet.imports)) BY <1>1
<1> HIDE DEF S, Turn
<1>6. PICK f : Loops(f, N, S, RollBack(done.ctx, call.ctx.bytes), step)
  <2>1. \A n \in 1 .. N : \A x \in S[n - 1] : step[n][x] \in S[n] BY <1>3
  <2> HIDE DEF N, step
  <2> QED BY <1>1, <1>4, <2>1, LoopRuns
<1>7. P(f)
  <2>1. \A n \in 0 .. N : n = 0 \/ n \in 1 .. N OBVIOUS
  <2>2. \A n \in 1 .. N : step[n][f[n - 1]] = Turn(n, f[n - 1]) BY <1>2, <1>6 DEF Loops
  <2>3. \A n \in 0 .. N : f[n] = IF n = 0 THEN RollBack(done.ctx, call.ctx.bytes) ELSE Turn(n, f[n - 1])
    BY <1>2, <1>6, <2>1, <2>2 DEF Loops
  <2> HIDE DEF step
  <2> QED BY <1>6, <2>3 DEF Loops, Turn
<1>8. P(loop) BY <1>7
<1>9. loop[0] = RollBack(done.ctx, call.ctx.bytes) /\ \A n \in 1 .. N : loop[n] = Turn(n, loop[n - 1])
  <2> HIDE DEF loop
  <2> QED BY <1>1, <1>2, <1>8 DEF Turn
<1>10. ExternalizeImports(call.ctx, sheet, call.base, depth, call.output, done).ctx = loop[N]
  BY DEF ExternalizeImports, P
<1> HIDE DEF P
<1>11. \A n \in 0 .. N : loop[n] \in S[n]
  <2>1. loop[0] \in S[0] BY <1>4, <1>9
  <2>2. \A n \in 1 .. N : loop[n - 1] \in S[n - 1] => loop[n] \in S[n] BY <1>3, <1>9
  <2> HIDE DEF loop, N
  <2> QED BY <1>1, <2>1, <2>2, LoopHolds
<1> HIDE DEF loop
<1> QED BY <1>1, <1>5, <1>10, <1>11

(* A sheet that is kept apart accounts for its imports and counts          *)
(* nothing.                                                                *)
LEMMA ExternalizedAreMade ==
  ASSUME NEW call \in SheetCall, NEW sheet \in Sheets, NEW depth,
         NEW done \in Prepared(call, sheet)
  PROVE  ExternalizeImports(call.ctx, sheet, call.base, depth, call.output, done)
           \in Made(call.ctx, call.base)
<1> DEFINE rolled == RollBack(done.ctx, call.ctx.bytes)
           out == ExternalizeImports(call.ctx, sheet, call.base, depth, call.output, done)
           N == Len(sheet.imports)
<1>1. call.base \in RefBase /\ call.output \in RefBase /\ call.ctx \in Context BY DEF SheetCall
<1>2. sheet.imports \in Seq(OfKind({"import"})) /\ N \in Nat
  <2>1. sheet.imports \in Seq(OfKind({"import"})) BY DEF Sheets
  <2> QED BY <2>1
<1>3. Grows(call.ctx, done.ctx) /\ done.ctx \in Context BY DEF Prepared
<1>4. Grows(call.ctx, rolled) /\ rolled.bytes = call.ctx.bytes
  BY <1>1, <1>3 DEF RollBack, Context, Grows
<1>5. out.ctx \in ToldOf(rolled, sheet, call.base, N) BY ExternalizeLoop
<1>6. out = [ctx |-> out.ctx, pieces |-> out.pieces]
      /\ out.pieces = [n \in DOMAIN sheet.imports |->
                         RebaseCssImportRule(sheet.imports[n].ref, call.base, call.output)]
  BY DEF ExternalizeImports
<1> HIDE DEF rolled, out
<1>7. /\ out.ctx \in Context /\ Grows(call.ctx, out.ctx) /\ out.ctx.bytes = call.ctx.bytes
      /\ \A m \in 1 .. N : Accounted(out.ctx, sheet.imports[m].ref, call.base)
  BY <1>4, <1>5, GrowsOn DEF ToldOf
<1>8. \A n \in 1 .. N :
        LET p == RebaseCssImportRule(sheet.imports[n].ref, call.base, call.output) IN
        /\ p \in Pieces /\ p.as # "inlined" /\ Fine(p, out.ctx, call.base)
  <2> SUFFICES ASSUME NEW n \in 1 .. N
               PROVE  LET p == RebaseCssImportRule(sheet.imports[n].ref, call.base, call.output) IN
                      /\ p \in Pieces /\ p.as # "inlined" /\ Fine(p, out.ctx, call.base) OBVIOUS
  <2>1. sheet.imports[n].ref \in Reference BY <1>2, RulesHaveRefs
  <2> QED BY <1>1, <1>7, <2>1, RebasedImportIs
<1>9. DOMAIN sheet.imports = 1 .. N BY <1>2
<1>10. /\ out.pieces \in Seq(Pieces) /\ Len(out.pieces) = N
       /\ \A n \in 1 .. N : out.pieces[n].as # "inlined" /\ Fine(out.pieces[n], out.ctx, call.base)
  <2>1. out.pieces \in [1 .. N -> Pieces] BY <1>6, <1>8, <1>9
  <2>2. out.pieces \in Seq(Pieces) /\ Len(out.pieces) = N BY <1>2, <2>1
  <2> QED BY <1>6, <1>8, <1>9, <2>2
<1>11. InlinedBytes(out.pieces) = 0 BY <1>10, NoneCounts
<1>12. AllFine(out.pieces, out.ctx, call.base) BY <1>10 DEF AllFine
<1>13. out.ctx.bytes = call.ctx.bytes + InlinedBytes(out.pieces)
  BY <1>1, <1>7, <1>11, ContextsGrow
<1>14. out \in [ctx : Context, pieces : Seq(Pieces)] BY <1>6, <1>7, <1>10
<1>15. out \in Made(call.ctx, call.base) BY <1>7, <1>12, <1>13, <1>14 DEF Made
<1> QED BY <1>15 DEF out

(* What is made of a sheet, for a caller that goes over its urls again.    *)
SheetResult == [ctx : Context, pieces : Seq(Pieces), complete : BOOLEAN, namespace : BOOLEAN]

(* What inlining a sheet promises: all accounted for but the urls, and     *)
(* the bytes added are those of the pieces.                                *)
Inlines(call, result) ==
  /\ Grows(call.ctx, result.ctx) /\ ButUrlsFine(result.pieces, result.ctx, call.base)
  /\ result.ctx.bytes = call.ctx.bytes + InlinedBytes(result.pieces)

(* The functions that keep the promise for every call. *)
Inliners == {h \in [SheetCall -> SheetResult] : \A call \in SheetCall : Inlines(call, h[call])}

(* Embedding the urls of an inlined sheet makes all of it fine. *)
LEMMA UrlsAreMade ==
  ASSUME NEW call \in SheetCall, NEW result \in SheetResult, Inlines(call, result),
         NEW output \in RefBase
  PROVE  InlineCssUrls(result.ctx, result.pieces, call.base, output) \in Made(call.ctx, call.base)
<1> DEFINE urls == InlineCssUrls(result.ctx, result.pieces, call.base, output)
<1>1. /\ result.ctx \in Context /\ result.pieces \in Seq(Pieces)
      /\ call.base \in RefBase /\ call.ctx \in Context BY DEF SheetResult, SheetCall
<1>2. urls \in UrlsDone(result.ctx, result.pieces, call.base, Len(result.pieces))
  BY <1>1, UrlLoop DEF Inlines
<1> HIDE DEF urls
<1>3. /\ urls \in [ctx : Context, pieces : Seq(Pieces)]
      /\ Grows(result.ctx, urls.ctx) /\ AllFine(urls.pieces, urls.ctx, call.base)
      /\ urls.ctx.bytes + InlinedBytes(result.pieces) = result.ctx.bytes + InlinedBytes(urls.pieces)
  BY <1>1, <1>2, InlinedBytesAre DEF UrlsDone
<1>4. Grows(call.ctx, urls.ctx) BY <1>3, GrowsOn DEF Inlines
<1>5. urls.ctx.bytes = call.ctx.bytes + InlinedBytes(urls.pieces)
  <2> DEFINE a == urls.ctx.bytes
             b == InlinedBytes(result.pieces)
             c == call.ctx.bytes
             d == InlinedBytes(urls.pieces)
             e == result.ctx.bytes
  <2>1. a \in Nat /\ b \in Nat /\ c \in Nat /\ d \in Nat /\ e \in Nat
    BY <1>1, <1>3, InlinedBytesAre, ContextsGrow
  <2>2. a + b = e + d /\ e = c + b BY <1>3 DEF Inlines
  <2>3. a = c + d
    <3> HIDE DEF a, b, c, d, e
    <3> QED BY <2>1, <2>2
  <2> QED BY <2>3
<1> QED BY <1>3, <1>4, <1>5 DEF Made, urls

(* An import whose sheet went in. *)
LEMMA JoinedIs ==
  ASSUME NEW call \in SheetCall, NEW sheet \in Sheets, NEW acc \in Prepared(call, sheet),
         acc.failed = 0, NEW got, got.file \in Asset, Grows(acc.ctx, got.ctx),
         got.ctx.bytes = acc.ctx.bytes + AssetInfo[got.file].size,
         NEW ref \in Reference, ref.file = got.file,
         NEW base \in RefBase, base.kind = "local", NEW urls \in Made(got.ctx, base)
  PROVE  JoinUrls(acc, ref, urls) \in Prepared(call, sheet)
<1> DEFINE p == Piece(ref, "inlined")
           pieces == acc.pieces \o <<p>> \o urls.pieces
           joined == JoinUrls(acc, ref, urls)
<1>1. /\ acc \in [ctx : Context, failed : 0 .. Len(sheet.imports), cause : {"other", "load"},
                  pieces : Seq(Pieces)]
      /\ Grows(call.ctx, acc.ctx) /\ AllFine(acc.pieces, acc.ctx, call.base)
      /\ acc.ctx.bytes = call.ctx.bytes + InlinedBytes(acc.pieces)
      /\ acc.cause # "load" BY DEF Prepared
<1>2. /\ urls.ctx \in Context /\ urls.pieces \in Seq(Pieces)
      /\ Grows(got.ctx, urls.ctx) /\ AllFine(urls.pieces, urls.ctx, base)
      /\ urls.ctx.bytes = got.ctx.bytes + InlinedBytes(urls.pieces) BY DEF Made
<1>3. call.base \in RefBase /\ call.ctx \in Context BY DEF SheetCall
<1>4. Grows(acc.ctx, urls.ctx) /\ Grows(call.ctx, urls.ctx) BY <1>1, <1>2, GrowsOn
<1>5. /\ p \in Pieces /\ SizeOf(p) = AssetInfo[got.file].size
      /\ Fine(p, urls.ctx, call.base) BY InlinedPieceIs
<1> HIDE DEF p
<1> DEFINE front == Append(acc.pieces, p)
<1>6. pieces = front \o urls.pieces
  <2>1. acc.pieces \o <<p>> = front BY <1>1, <1>5
  <2> QED BY <2>1
<1>7. /\ front \in Seq(Pieces)
      /\ InlinedBytes(front) = InlinedBytes(acc.pieces) + AssetInfo[got.file].size
  BY <1>1, <1>5, OneMoreCounts
<1>70. AllFine(front, urls.ctx, call.base)
  <2>1. AllFine(acc.pieces, urls.ctx, call.base) BY <1>1, <1>4, AllFineStays
  <2> QED BY <1>1, <1>5, <2>1, OneMoreFine
<1> HIDE DEF front
<1>71. /\ pieces \in Seq(Pieces)
       /\ InlinedBytes(pieces) =
            (InlinedBytes(acc.pieces) + AssetInfo[got.file].size) + InlinedBytes(urls.pieces)
  BY <1>2, <1>6, <1>7, BothCount
<1>8. AllFine(pieces, urls.ctx, call.base)
  <2>1. AllFine(urls.pieces, urls.ctx, call.base) BY <1>2, <1>3, LocalIsFineAnywhere
  <2> QED BY <1>2, <1>6, <1>7, <1>70, <2>1, BothFine
<1> HIDE DEF pieces
<1>9. urls.ctx.bytes = call.ctx.bytes + InlinedBytes(pieces)
  <2> DEFINE a == call.ctx.bytes
             b == InlinedBytes(acc.pieces)
             c == AssetInfo[got.file].size
             d == InlinedBytes(urls.pieces)
  <2>1. a \in Nat /\ b \in Nat /\ c \in Nat /\ d \in Nat
    BY <1>1, <1>2, <1>3, InlinedBytesAre, ContextsGrow, ExportFilesAssumption
  <2>2. urls.ctx.bytes = ((a + b) + c) + d BY <1>1, <1>2
  <2>3. urls.ctx.bytes = a + ((b + c) + d)
    <3> HIDE DEF a, b, c, d
    <3> QED BY <2>1, <2>2
  <2> QED BY <1>71, <2>3
<1>10. joined = [acc EXCEPT !.ctx = urls.ctx, !.pieces = pieces] BY DEF JoinUrls, pieces, p
<1> HIDE DEF joined
<1>11. /\ joined \in [ctx : Context, failed : 0 .. Len(sheet.imports), cause : {"other", "load"},
                      pieces : Seq(Pieces)]
       /\ joined.ctx = urls.ctx /\ joined.pieces = pieces /\ joined.cause = acc.cause
       /\ joined.failed = acc.failed
  BY <1>1, <1>2, <1>71, <1>10
<1> QED BY <1>1, <1>4, <1>8, <1>9, <1>11 DEF Prepared, joined

(* An import that fails them all. *)
LEMMA FailedIs ==
  ASSUME NEW call \in SheetCall, NEW sheet \in Sheets, NEW acc \in Prepared(call, sheet),
         NEW after, Grows(acc.ctx, after), NEW n \in 1 .. Len(sheet.imports),
         NEW cause \in {"other", "load"},
         cause = "load" => Accounted(after, sheet.imports[n].ref, call.base)
  PROVE  [acc EXCEPT !.ctx = after, !.failed = n, !.cause = cause] \in Prepared(call, sheet)
<1> DEFINE failed == [acc EXCEPT !.ctx = after, !.failed = n, !.cause = cause]
<1>1. /\ acc \in [ctx : Context, failed : 0 .. Len(sheet.imports), cause : {"other", "load"},
                  pieces : Seq(Pieces)]
      /\ Grows(call.ctx, acc.ctx) /\ AllFine(acc.pieces, acc.ctx, call.base) BY DEF Prepared
<1>2. after \in Context /\ Grows(call.ctx, after) BY <1>1, GrowsOn DEF Grows
<1>3. n \in 0 .. Len(sheet.imports) /\ n # 0 OBVIOUS
<1>4. /\ failed \in [ctx : Context, failed : 0 .. Len(sheet.imports), cause : {"other", "load"},
                     pieces : Seq(Pieces)]
      /\ failed.ctx = after /\ failed.failed = n /\ failed.cause = cause
      /\ failed.pieces = acc.pieces BY <1>1, <1>2, <1>3
<1>5. AllFine(failed.pieces, failed.ctx, call.base) BY <1>1, <1>4, AllFineStays
<1> HIDE DEF failed
<1>6. failed \in Prepared(call, sheet) BY <1>2, <1>3, <1>4, <1>5 DEF Prepared
<1> QED BY <1>6 DEF failed

(* An import that is read: its sheet is inlined one level down. *)
LEMMA PrepareReads ==
  ASSUME NEW call \in SheetCall, NEW sheet \in Sheets, NEW inner \in Inliners,
         NEW n \in 1 .. Len(sheet.imports), NEW acc \in Prepared(call, sheet),
         acc.failed = 0, NEW got, Read(acc.ctx, sheet.imports[n].ref, call.base, got)
  PROVE  PrepareRead(acc, n, sheet.imports[n].ref, got, call.output, inner)
           \in Prepared(call, sheet)
<1> DEFINE ref == sheet.imports[n].ref
           turn == PrepareRead(acc, n, ref, got, call.output, inner)
<1>1. ref \in Reference
  <2>1. sheet.imports[n] \in OfKind({"import"}) BY DEF Sheets
  <2> QED BY <2>1, RulesHaveRefs
<1>2. Nowhere \notin Asset BY ExportFilesAssumption
<1>3. acc.cause = "other" /\ acc = [acc EXCEPT !.cause = "other"] BY DEF Prepared
<1>4. CASE got.file = Nowhere
  <2>1. Grows(acc.ctx, got.ctx) /\ Accounted(got.ctx, ref, call.base) BY <1>2, <1>4 DEF Read
  <2>2. turn = [acc EXCEPT !.ctx = got.ctx, !.failed = n, !.cause = "load"]
    BY <1>4 DEF PrepareRead
  <2>3. [acc EXCEPT !.ctx = got.ctx, !.failed = n, !.cause = "load"] \in Prepared(call, sheet)
    BY <2>1, FailedIs
  <2> QED BY <2>2, <2>3
<1>5. CASE got.file # Nowhere
  <2> DEFINE named == [ref EXCEPT !.file = got.file]
             lower == Call(got.ctx, AssetInfo[got.file].sheet, DirOf(got), call.output)
             result == inner[lower]
             urls == InlineCssUrls(result.ctx, result.pieces, DirOf(got), call.output)
  <2>1. /\ got.file \in Asset /\ Grows(acc.ctx, got.ctx) /\ got.ctx \in Context
        /\ got.ctx.bytes = acc.ctx.bytes + AssetInfo[got.file].size
    BY <1>5 DEF Read, Grows
  <2>2. named \in Reference /\ named.file = got.file BY <1>1, <2>1, NamingAFile DEF Same
  <2>3. DirOf(got) \in RefBase /\ DirOf(got).kind = "local" /\ DirOf(named) = DirOf(got)
    BY <2>1, <2>2, DirsAreBases DEF DirOf
  <2>4. call.output \in RefBase BY DEF SheetCall
  <2>5. /\ lower \in SheetCall /\ lower.ctx = got.ctx /\ lower.base = DirOf(got)
    <3>1. AssetInfo[got.file].sheet \in Seq(SheetRule) BY <2>1, ExportFilesAssumption
    <3> QED BY <2>1, <2>3, <2>4, <3>1 DEF Call, SheetCall
  <2> HIDE DEF lower, named
  <2>6. result \in SheetResult /\ Inlines(lower, result) BY <2>5 DEF Inliners
  <2> HIDE DEF result
  <2>7. turn = JoinImport(acc, n, named, result, call.output)
    BY <1>5 DEF PrepareRead, named, lower, result
  <2>8. CASE ~result.complete \/ result.namespace
    <3>1. turn = [acc EXCEPT !.ctx = result.ctx, !.failed = n] BY <2>7, <2>8 DEF JoinImport
    <3>2. turn = [acc EXCEPT !.ctx = result.ctx, !.failed = n, !.cause = "other"]
      BY <1>3, <3>1 DEF Prepared
    <3>3. Grows(acc.ctx, result.ctx) BY <2>1, <2>5, <2>6, GrowsOn DEF Inlines
    <3>4. [acc EXCEPT !.ctx = result.ctx, !.failed = n, !.cause = "other"] \in Prepared(call, sheet)
      BY <3>3, FailedIs
    <3> QED BY <3>2, <3>4
  <2>9. CASE ~(~result.complete \/ result.namespace)
    <3>1. turn = JoinUrls(acc, named, urls) BY <2>3, <2>7, <2>9 DEF JoinImport
    <3>2. urls \in Made(got.ctx, DirOf(got)) BY <2>4, <2>5, <2>6, UrlsAreMade
    <3> HIDE DEF urls
    <3> QED BY <2>1, <2>2, <2>3, <3>1, <3>2, JoinedIs
  <2> QED BY <2>8, <2>9
<1> QED BY <1>4, <1>5

(* Whatever an import's turn does, what is prepared stays accounted for. *)
LEMMA PrepareTurns ==
  ASSUME NEW call \in SheetCall, NEW sheet \in Sheets, NEW depth, NEW inner,
         depth >= MaxImportDepth \/ inner \in Inliners,
         NEW n \in 1 .. Len(sheet.imports), NEW acc \in Prepared(call, sheet)
  PROVE  PrepareTurn(acc, n, sheet, call, depth, inner) \in Prepared(call, sheet)
<1> DEFINE i == sheet.imports[n]
           turn == PrepareTurn(acc, n, sheet, call, depth, inner)
           got == ReadBudgeted(acc.ctx, i.ref, FileOf(i.ref, call.base))
<1>1. i.ref \in Reference
  <2>1. i \in OfKind({"import"}) BY DEF Sheets
  <2> QED BY <2>1, RulesHaveRefs
<1>2. acc.ctx \in Context BY DEF Prepared
<1>3. CASE acc.failed # 0
  <2>1. turn = acc BY <1>3 DEF PrepareTurn
  <2> QED BY <2>1
<1>4. CASE acc.failed = 0 /\ ClassifyCssImport(i, call.base, depth) # "candidate"
  <2>1. turn = [acc EXCEPT !.failed = n] BY <1>4 DEF PrepareTurn
  <2>2. acc.cause = "other" BY <1>4 DEF Prepared
  <2>3. turn = [acc EXCEPT !.ctx = acc.ctx, !.failed = n, !.cause = "other"]
    BY <2>1, <2>2 DEF Prepared
  <2>4. Grows(acc.ctx, acc.ctx) BY <1>2, ContextsGrow
  <2>5. [acc EXCEPT !.ctx = acc.ctx, !.failed = n, !.cause = "other"] \in Prepared(call, sheet)
    BY <2>4, FailedIs
  <2> QED BY <2>3, <2>5
<1>5. CASE acc.failed = 0 /\ ClassifyCssImport(i, call.base, depth) = "candidate"
  <2>1. ~(depth >= MaxImportDepth) BY <1>5 DEF ClassifyCssImport
  <2>2. turn = PrepareRead(acc, n, i.ref, got, call.output, inner) BY <1>5 DEF PrepareTurn
  <2>3. Read(acc.ctx, i.ref, call.base, got) BY <1>1, <1>2, BudgetedReads
  <2> HIDE DEF got
  <2> QED BY <1>5, <2>1, <2>2, <2>3, PrepareReads
<1> QED BY <1>3, <1>4, <1>5

(* Before the first import. *)
LEMMA PrepareBegins ==
  ASSUME NEW call \in SheetCall, NEW sheet \in Sheets
  PROVE  PrepareStart(call, sheet) \in Prepared(call, sheet)
<1> DEFINE start == PrepareStart(call, sheet)
<1>1. call.ctx \in Context BY DEF SheetCall
<1>2. start.failed \in 0 .. Len(sheet.imports)
  <2>1. sheet.imports \in Seq(OfKind({"import"})) BY DEF Sheets
  <2>2. sheet.imports # <<>> => Len(sheet.imports) >= 1 BY <2>1
  <2>3. Len(sheet.imports) \in Nat BY <2>1
  <2> QED BY <2>2, <2>3 DEF PrepareStart
<1>3. /\ start.ctx = call.ctx /\ start.cause = "other" /\ start.pieces = <<>>
      /\ start \in [ctx : Context, failed : 0 .. Len(sheet.imports), cause : {"other", "load"},
                    pieces : Seq(Pieces)]
  <2> DEFINE failed == IF sheet.namespace /\ sheet.imports # <<>> THEN 1 ELSE 0
  <2>1. /\ start = [ctx |-> call.ctx, failed |-> failed, cause |-> "other", pieces |-> <<>>]
        /\ failed \in 0 .. Len(sheet.imports)
    BY <1>2 DEF PrepareStart
  <2>2. <<>> \in Seq(Pieces) BY NothingCounts
  <2>3. start.ctx = call.ctx /\ start.cause = "other" /\ start.pieces = <<>>
    BY DEF PrepareStart
  <2> HIDE DEF start, failed
  <2>4. start \in [ctx : Context, failed : 0 .. Len(sheet.imports), cause : {"other", "load"},
                   pieces : Seq(Pieces)]
    BY <1>1, <2>1, <2>2
  <2> QED BY <2>3, <2>4
<1> HIDE DEF start
<1>4. AllFine(start.pieces, start.ctx, call.base) BY <1>3, NothingCounts DEF AllFine
<1>5. start.ctx.bytes = call.ctx.bytes + InlinedBytes(start.pieces)
  BY <1>1, <1>3, NothingCounts, ContextsGrow
<1>6. start \in Prepared(call, sheet) BY <1>1, <1>3, <1>4, <1>5, ContextsGrow DEF Prepared
<1> QED BY <1>6 DEF start

(* All imports are gone through. *)
LEMMA PrepareLoop ==
  ASSUME NEW call \in SheetCall, NEW sheet \in Sheets, NEW depth, NEW inner,
         depth >= MaxImportDepth \/ inner \in Inliners
  PROVE  PrepareImports(call, sheet, depth, inner) \in Prepared(call, sheet)
<1> DEFINE N == Len(sheet.imports)
           Turn(n, x) == PrepareTurn(x, n, sheet, call, depth, inner)
           S == [n \in 0 .. N |-> Prepared(call, sheet)]
           step == [n \in 1 .. N |-> [x \in S[n - 1] |-> Turn(n, x)]]
           P(g) == g = [n \in 0 .. Len(sheet.imports) |->
                          IF n = 0 THEN PrepareStart(call, sheet)
                          ELSE PrepareTurn(g[n - 1], n, sheet, call, depth, inner)]
           loop == CHOOSE g : P(g)
<1>1. N \in Nat /\ 0 \in 0 .. N /\ N \in 0 .. N BY DEF Sheets
<1>2. \A n \in 1 .. N : n \in 0 .. N /\ n - 1 \in 0 .. N /\ n # 0 OBVIOUS
<1>3. \A n \in 1 .. N : \A x \in S[n - 1] : Turn(n, x) \in S[n]
  <2> SUFFICES ASSUME NEW n \in 1 .. N, NEW x \in S[n - 1] PROVE Turn(n, x) \in S[n] OBVIOUS
  <2>1. x \in Prepared(call, sheet) /\ S[n] = Prepared(call, sheet) BY <1>2
  <2>2. (PrepareTurn(x, n, sheet, call, depth, inner)) \in Prepared(call, sheet) BY <2>1, PrepareTurns
  <2> QED BY <2>1, <2>2
<1>4. PrepareStart(call, sheet) \in S[0] BY <1>1, PrepareBegins
<1>5. S[N] = Prepared(call, sheet) BY <1>1
<1> HIDE DEF S, Turn
<1>6. PICK f : Loops(f, N, S, PrepareStart(call, sheet), step)
  <2>1. \A n \in 1 .. N : \A x \in S[n - 1] : step[n][x] \in S[n] BY <1>3
  <2> HIDE DEF N, step
  <2> QED BY <1>1, <1>4, <2>1, LoopRuns
<1>7. P(f)
  <2>1. \A n \in 0 .. N : n = 0 \/ n \in 1 .. N OBVIOUS
  <2>2. \A n \in 1 .. N : step[n][f[n - 1]] = Turn(n, f[n - 1]) BY <1>2, <1>6 DEF Loops
  <2>3. \A n \in 0 .. N : f[n] = IF n = 0 THEN PrepareStart(call, sheet) ELSE Turn(n, f[n - 1])
    BY <1>2, <1>6, <2>1, <2>2 DEF Loops
  <2> HIDE DEF step
  <2> QED BY <1>6, <2>3 DEF Loops, Turn
<1>8. P(loop) BY <1>7
<1>9. loop[0] = PrepareStart(call, sheet) /\ \A n \in 1 .. N : loop[n] = Turn(n, loop[n - 1])
  <2> HIDE DEF loop
  <2> QED BY <1>1, <1>2, <1>8 DEF Turn
<1>10. PrepareImports(call, sheet, depth, inner) = loop[N] BY DEF PrepareImports, P
<1> HIDE DEF P
<1>11. \A n \in 0 .. N : loop[n] \in S[n]
  <2>1. loop[0] \in S[0] BY <1>4, <1>9
  <2>2. \A n \in 1 .. N : loop[n - 1] \in S[n - 1] => loop[n] \in S[n] BY <1>3, <1>9
  <2> HIDE DEF loop, N
  <2> QED BY <1>1, <2>1, <2>2, LoopHolds
<1> HIDE DEF loop
<1> QED BY <1>1, <1>5, <1>10, <1>11

(* Imports, then late imports, then urls: the sheet keeps the promise. *)
LEMMA FinishedIs ==
  ASSUME NEW call \in SheetCall, NEW sheet \in Sheets, NEW prelude \in Made(call.ctx, call.base),
         NEW complete \in BOOLEAN
  PROVE  /\ FinishSheet(prelude, sheet, complete) \in SheetResult
         /\ Inlines(call, FinishSheet(prelude, sheet, complete))
<1> DEFINE urls == [n \in DOMAIN sheet.urls |-> Piece(sheet.urls[n].ref, "url")]
           pieces == prelude.pieces \o urls
           finished == FinishSheet(prelude, sheet, complete)
<1>1. /\ prelude.ctx \in Context /\ prelude.pieces \in Seq(Pieces)
      /\ Grows(call.ctx, prelude.ctx) /\ AllFine(prelude.pieces, prelude.ctx, call.base)
      /\ prelude.ctx.bytes = call.ctx.bytes + InlinedBytes(prelude.pieces) BY DEF Made
<1>2. sheet.urls \in Seq(OfKind({"style"})) /\ sheet.namespace \in BOOLEAN BY DEF Sheets
<1>3. DOMAIN sheet.urls = 1 .. Len(sheet.urls) /\ Len(sheet.urls) \in Nat BY <1>2
<1>4. \A n \in DOMAIN sheet.urls :
        Piece(sheet.urls[n].ref, "url") \in Pieces /\ Piece(sheet.urls[n].ref, "url").as = "url"
  <2> SUFFICES ASSUME NEW n \in DOMAIN sheet.urls
               PROVE  /\ Piece(sheet.urls[n].ref, "url") \in Pieces
                      /\ Piece(sheet.urls[n].ref, "url").as = "url" OBVIOUS
  <2>1. sheet.urls[n].ref \in Reference BY <1>2, <1>3, RulesHaveRefs
  <2>2. "url" \in Treatment /\ "url" # "inlined" BY DEF Treatment
  <2> QED BY <2>1, <2>2, PieceIs
<1>5. /\ urls \in Seq(Pieces) /\ Len(urls) = Len(sheet.urls)
      /\ \A n \in 1 .. Len(urls) : urls[n].as = "url"
  <2>1. urls \in [1 .. Len(sheet.urls) -> Pieces] BY <1>3, <1>4
  <2>2. urls \in Seq(Pieces) /\ Len(urls) = Len(sheet.urls) BY <1>3, <2>1
  <2> QED BY <1>3, <1>4, <2>2
<1> HIDE DEF urls
<1>6. InlinedBytes(urls) = 0 BY <1>5, NoneCounts
<1>7. pieces \in Seq(Pieces) /\ InlinedBytes(pieces) = InlinedBytes(prelude.pieces)
  <2>1. InlinedBytes(pieces) = InlinedBytes(prelude.pieces) + InlinedBytes(urls)
    BY <1>1, <1>5, BothCount
  <2>2. InlinedBytes(prelude.pieces) \in Nat BY <1>1, InlinedBytesAre
  <2> QED BY <1>1, <1>5, <1>6, <2>1, <2>2
<1>8. ButUrlsFine(pieces, prelude.ctx, call.base)
  <2>1. ButUrlsFine(prelude.pieces, prelude.ctx, call.base) BY <1>1 DEF AllFine, ButUrlsFine
  <2>2. ButUrlsFine(urls, prelude.ctx, call.base) BY <1>5 DEF ButUrlsFine
  <2> QED BY <1>1, <1>5, <2>1, <2>2, BothFine
<1>9. finished = [ctx |-> prelude.ctx, pieces |-> pieces,
                  complete |-> complete /\ sheet.late = <<>>, namespace |-> sheet.namespace]
  BY DEF FinishSheet, pieces, urls
<1> HIDE DEF pieces, finished
<1>10. finished \in SheetResult
  <2>1. (complete /\ sheet.late = <<>>) \in BOOLEAN OBVIOUS
  <2> QED BY <1>1, <1>2, <1>7, <1>9, <2>1 DEF SheetResult
<1>11. Inlines(call, finished) BY <1>1, <1>7, <1>8, <1>9 DEF Inlines
<1> QED BY <1>10, <1>11 DEF finished

(* A sheet is gone through: with what a level down makes of its imports'   *)
(* sheets, or on the last level, where no import is read.                  *)
LEMMA SheetsAreInlined ==
  ASSUME NEW call \in SheetCall, NEW depth, NEW inner,
         depth >= MaxImportDepth \/ inner \in Inliners
  PROVE  InlineSheet(call, depth, inner) \in SheetResult /\ Inlines(call, InlineSheet(call, depth, inner))
<1> DEFINE sheet == CollectCssPrelude(call.rules)
           done == PrepareImports(call, sheet, depth, inner)
           imports == IF done.failed = 0 THEN [ctx |-> done.ctx, pieces |-> done.pieces]
                      ELSE ExternalizeImports(call.ctx, sheet, call.base, depth, call.output, done)
           prelude == RewriteLateCssImports(imports, sheet, call.base, call.output)
<1>1. /\ call.ctx \in Context /\ call.rules \in Seq(SheetRule)
      /\ call.base \in RefBase /\ call.output \in RefBase BY DEF SheetCall
<1>2. sheet \in Sheets BY <1>1, SheetsHaveParts
<1> HIDE DEF sheet
<1>3. done \in Prepared(call, sheet) BY <1>2, PrepareLoop
<1> HIDE DEF done
<1>4. imports \in Made(call.ctx, call.base)
  <2>1. CASE done.failed = 0
    <3>1. [ctx |-> done.ctx, pieces |-> done.pieces] \in Made(call.ctx, call.base)
      BY <1>3, <2>1 DEF Prepared, Made
    <3> QED BY <2>1, <3>1
  <2>2. CASE done.failed # 0 BY <1>2, <1>3, <2>2, ExternalizedAreMade
  <2> QED BY <2>1, <2>2
<1> HIDE DEF imports
<1>5. prelude \in Made(call.ctx, call.base) BY <1>1, <1>2, <1>4, LateLoop
<1> HIDE DEF prelude
<1>6. InlineSheet(call, depth, inner) = FinishSheet(prelude, sheet, done.failed = 0)
  BY DEF InlineSheet, EndImports, prelude, imports, done, sheet
<1>7. (done.failed = 0) \in BOOLEAN OBVIOUS
<1> QED BY <1>2, <1>5, <1>6, <1>7, FinishedIs

(* Each level inlines, from the innermost, which follows no import,        *)
(* outwards.                                                               *)
LEMMA SheetFunctions ==
  ASSUME NEW depth, NEW inner, depth >= MaxImportDepth \/ inner \in Inliners
  PROVE  InlineSheets(depth, inner) \in Inliners
<1>1. \A call \in SheetCall :
        /\ InlineSheet(call, depth, inner) \in SheetResult
        /\ Inlines(call, InlineSheet(call, depth, inner)) BY SheetsAreInlined
<1> QED BY <1>1 DEF InlineSheets, Inliners

LEMMA LevelTurns ==
  ASSUME NEW levels \in Nat, NEW n \in 1 .. levels, NEW x \in Inliners
  PROVE  InlineSheets(MaxImportDepth - n, x) \in Inliners
BY SheetFunctions

LEMMA LastLevel ==
  InlineSheets(MaxImportDepth, <<>>) \in Inliners
<1>1. MaxImportDepth >= MaxImportDepth BY ExportFilesAssumption
<1> QED BY <1>1, SheetFunctions

(* Level by level. *)
LEMMA LevelLoop ==
  ASSUME NEW levels \in Nat
  PROVE  InlineLevels(levels) \in Inliners
<1> DEFINE N == levels
           Turn(n, x) == InlineSheets(MaxImportDepth - n, x)
           S == [n \in 0 .. N |-> Inliners]
           step == [n \in 1 .. N |-> [x \in S[n - 1] |-> Turn(n, x)]]
           P(g) == g = [n \in 0 .. levels |->
                          IF n = 0 THEN InlineSheets(MaxImportDepth, <<>>)
                          ELSE InlineSheets(MaxImportDepth - n, g[n - 1])]
           loop == CHOOSE g : P(g)
<1>1. N \in Nat /\ 0 \in 0 .. N /\ N \in 0 .. N OBVIOUS
<1>2. \A n \in 1 .. N : n \in 0 .. N /\ n - 1 \in 0 .. N /\ n # 0 OBVIOUS
<1>3. \A n \in 1 .. N : \A x \in S[n - 1] : Turn(n, x) \in S[n]
  <2> SUFFICES ASSUME NEW n \in 1 .. N, NEW x \in S[n - 1] PROVE Turn(n, x) \in S[n] OBVIOUS
  <2>1. x \in Inliners /\ S[n] = Inliners BY <1>2
  <2>2. (InlineSheets(MaxImportDepth - n, x)) \in Inliners BY <2>1, LevelTurns
  <2> QED BY <2>1, <2>2
<1>4. InlineSheets(MaxImportDepth, <<>>) \in S[0] BY <1>1, LastLevel
<1>5. S[N] = Inliners BY <1>1
<1> HIDE DEF S, Turn
<1>6. PICK f : Loops(f, N, S, InlineSheets(MaxImportDepth, <<>>), step)
  <2>1. \A n \in 1 .. N : \A x \in S[n - 1] : step[n][x] \in S[n] BY <1>3
  <2> HIDE DEF N, step
  <2> QED BY <1>1, <1>4, <2>1, LoopRuns
<1>7. P(f)
  <2>1. \A n \in 0 .. N : n = 0 \/ n \in 1 .. N OBVIOUS
  <2>2. \A n \in 1 .. N : step[n][f[n - 1]] = Turn(n, f[n - 1]) BY <1>2, <1>6 DEF Loops
  <2>3. \A n \in 0 .. N : f[n] = IF n = 0 THEN InlineSheets(MaxImportDepth, <<>>) ELSE Turn(n, f[n - 1])
    BY <1>2, <1>6, <2>1, <2>2 DEF Loops
  <2> HIDE DEF step
  <2> QED BY <1>6, <2>3 DEF Loops, Turn
<1>8. P(loop) BY <1>7
<1>9. loop[0] = InlineSheets(MaxImportDepth, <<>>) /\ \A n \in 1 .. N : loop[n] = Turn(n, loop[n - 1])
  <2> HIDE DEF loop
  <2> QED BY <1>1, <1>2, <1>8 DEF Turn
<1>10. InlineLevels(levels) = loop[N] BY DEF InlineLevels, P
<1> HIDE DEF P
<1>11. \A n \in 0 .. N : loop[n] \in S[n]
  <2>1. loop[0] \in S[0] BY <1>4, <1>9
  <2>2. \A n \in 1 .. N : loop[n - 1] \in S[n - 1] => loop[n] \in S[n] BY <1>3, <1>9
  <2> HIDE DEF loop, N
  <2> QED BY <1>1, <2>1, <2>2, LoopHolds
<1> HIDE DEF loop
<1> QED BY <1>1, <1>5, <1>10, <1>11

(* So does a sheet of the document, however deep its imports go. *)
LEMMA ImportsAreInlined ==
  ASSUME NEW ctx \in Context, NEW rules \in Seq(SheetRule), NEW base \in RefBase,
         NEW output \in RefBase
  PROVE  LET call == Call(ctx, rules, base, output)
             result == InlineCssImports(ctx, rules, base, output)
         IN  call \in SheetCall /\ result \in SheetResult /\ Inlines(call, result)
<1>1. Call(ctx, rules, base, output) \in SheetCall BY DEF Call, SheetCall
<1>2. InlineLevels(MaxImportDepth) \in Inliners BY LevelLoop, ExportFilesAssumption
<1> HIDE DEF Call
<1> QED BY <1>1, <1>2 DEF InlineCssImports, Inliners

(* What is true of the file that is being made: its bytes are those of the *)
(* files that are in, and every reference is accounted for.                *)
Good(ctx, base) ==
  ctx \in Context /\ ctx.bytes = InlinedBytes(ctx.out) /\ AllFine(ctx.out, ctx, base)

(* The writes of an element: each keeps a context good. *)
LEMMA EmittingIsGood ==
  ASSUME NEW base \in RefBase, NEW ctx, Good(ctx, base), NEW after, Grows(ctx, after),
         NEW ref, NEW as, Piece(ref, as) \in Pieces, Fine(Piece(ref, as), after, base),
         after.bytes = ctx.bytes + SizeOf(Piece(ref, as))
  PROVE  /\ Good(Emit(after, ref, as), base)
         /\ after.warned \subseteq Emit(after, ref, as).warned
<1> DEFINE p == Piece(ref, as)
           emitted == Emit(after, ref, as)
<1>1. /\ after \in Context /\ after.out = ctx.out /\ ctx.out \in Seq(Pieces)
      /\ AllFine(ctx.out, after, base)
  BY AllFineStays DEF Good, Grows, Context
<1>2. /\ Append(after.out, p) \in Seq(Pieces)
      /\ InlinedBytes(Append(after.out, p)) = InlinedBytes(ctx.out) + SizeOf(p)
  BY <1>1, OneMoreCounts
<1>3. AllFine(Append(after.out, p), after, base) BY <1>1, OneMoreFine
<1>4. emitted = [after EXCEPT !.out = Append(after.out, p)] BY DEF Emit, Piece
<1> HIDE DEF p, emitted
<1>5. /\ emitted \in Context /\ emitted.out = Append(after.out, p)
      /\ emitted.bytes = after.bytes /\ emitted.warned = after.warned
  BY <1>1, <1>2, <1>4 DEF Context
<1>6. AllFine(emitted.out, emitted, base)
  BY <1>3, <1>5 DEF AllFine, Fine, Accounted, KnownIn
<1>7. emitted.bytes = InlinedBytes(emitted.out) BY <1>2, <1>5 DEF Good, p
<1>8. Good(emitted, base) BY <1>5, <1>6, <1>7 DEF Good
<1> QED BY <1>5, <1>8 DEF emitted

(* Of a reference that stays as it is, is erased, or loses its file URL.    *)
LEMMA LeavingIsGood ==
  ASSUME NEW base \in RefBase, NEW ctx, Good(ctx, base), NEW after, Grows(ctx, after),
         after.bytes = ctx.bytes, NEW ref \in Reference,
         NEW as \in {"left", "kept", "erased", "redacted"}, as = "left" => ~IsFileScheme(ref),
         as # "kept" => Accounted(after, ref, base)
  PROVE  /\ Good(Emit(after, ref, as), base)
         /\ after.warned \subseteq Emit(after, ref, as).warned
<1>1. as \in Treatment /\ as # "inlined" BY DEF Treatment
<1>2. /\ Piece(ref, as) \in Pieces /\ Piece(ref, as).ref = ref /\ Piece(ref, as).as = as
      /\ SizeOf(Piece(ref, as)) = 0 BY <1>1, PieceIs
<1>3. Fine(Piece(ref, as), after, base) BY <1>2 DEF Fine
<1>4. after.bytes = ctx.bytes + SizeOf(Piece(ref, as)) BY <1>2, ContextsGrow DEF Good
<1> QED BY <1>2, <1>3, <1>4, EmittingIsGood

(* What is loaded and written is counted. *)
LEMMA LoadedIsGood ==
  ASSUME NEW base \in RefBase, NEW ctx, Good(ctx, base), NEW ref \in Reference,
         NEW got, Read(ctx, ref, base, got)
  PROVE  /\ Good(EmitLoaded(got, ref), base)
         /\ ctx.warned \subseteq EmitLoaded(got, ref).warned
<1> DEFINE emitted == EmitLoaded(got, ref)
<1>1. Grows(ctx, got.ctx) /\ ctx.warned \subseteq got.ctx.warned BY DEF Read, Grows
<1>2. Nowhere \notin Asset BY ExportFilesAssumption
<1>3. CASE got.file \in Asset
  <2> DEFINE named == [ref EXCEPT !.file = got.file]
  <2>1. named \in Reference /\ named.file = got.file BY <1>3, NamingAFile DEF Same
  <2>2. emitted = Emit(got.ctx, named, "inlined") BY <1>2, <1>3 DEF EmitLoaded
  <2> HIDE DEF named, emitted
  <2>3. /\ Piece(named, "inlined") \in Pieces /\ Fine(Piece(named, "inlined"), got.ctx, base)
        /\ SizeOf(Piece(named, "inlined")) = AssetInfo[got.file].size
    BY <1>3, <2>1, InlinedPieceIs
  <2>4. got.ctx.bytes = ctx.bytes + SizeOf(Piece(named, "inlined")) BY <1>2, <1>3, <2>3 DEF Read
  <2>5. Good(emitted, base) /\ got.ctx.warned \subseteq emitted.warned
    BY <1>1, <2>2, <2>3, <2>4, EmittingIsGood
  <2> QED BY <1>1, <2>5 DEF emitted
<1>4. CASE got.file \notin Asset
  <2>1. got.file = Nowhere /\ got.ctx.bytes = ctx.bytes /\ Accounted(got.ctx, ref, base)
    BY <1>4 DEF Read
  <2>2. emitted = Emit(got.ctx, ref, Unresolved(ref)) BY <2>1 DEF EmitLoaded
  <2>3. /\ Unresolved(ref) \in {"left", "kept", "redacted"}
        /\ Unresolved(ref) = "left" => ~IsFileScheme(ref) BY DEF Unresolved
  <2> HIDE DEF emitted
  <2>4. Good(emitted, base) /\ got.ctx.warned \subseteq emitted.warned
    BY <1>1, <2>1, <2>2, <2>3, LeavingIsGood
  <2> QED BY <1>1, <2>4 DEF emitted
<1> QED BY <1>3, <1>4

(* A style sheet's pieces are settled. *)
SettledAs(p) == [p EXCEPT !.as = IF @ = "url" THEN "left" ELSE @]

(* A sheet's pieces written into the page. *)
LEMMA SettledPieces ==
  ASSUME NEW p \in Pieces, NEW ctx, NEW base, Fine(p, ctx, base)
  PROVE  /\ SettledAs(p) \in Pieces /\ SizeOf(SettledAs(p)) = SizeOf(p)
         /\ Fine(SettledAs(p), ctx, base)
<1>1. {"url", "left"} \subseteq Treatment BY DEF Treatment
<1>2. CASE p.as = "url"
  <2>1. SettledAs(p) = [p EXCEPT !.as = "left"] BY <1>2 DEF SettledAs
  <2>2. [p EXCEPT !.as = "left"] \in Pieces /\ [p EXCEPT !.as = "left"].as = "left"
        /\ [p EXCEPT !.as = "left"].ref = p.ref BY <1>1 DEF Pieces
  <2> QED BY <1>2, <2>1, <2>2 DEF SizeOf, Fine
<1>3. CASE p.as # "url"
  <2>1. SettledAs(p) = p BY <1>3 DEF SettledAs, Pieces
  <2> QED BY <2>1
<1> QED BY <1>2, <1>3

LEMMA SettlingIsGood ==
  ASSUME NEW base \in RefBase, NEW ctx, Good(ctx, base), NEW done \in Made(ctx, base)
  PROVE  Good(Settle(done), base) /\ ctx.warned \subseteq Settle(done).warned
<1> DEFINE pieces == [n \in DOMAIN done.pieces |-> SettledAs(done.pieces[n])]
           settled == Settle(done)
           out == done.ctx.out \o pieces
<1>1. /\ done.ctx \in Context /\ done.pieces \in Seq(Pieces)
      /\ Grows(ctx, done.ctx) /\ AllFine(done.pieces, done.ctx, base)
      /\ done.ctx.bytes = ctx.bytes + InlinedBytes(done.pieces) BY DEF Made
<1>2. DOMAIN done.pieces = 1 .. Len(done.pieces) /\ Len(done.pieces) \in Nat BY <1>1
<1>3. \A n \in 1 .. Len(done.pieces) :
        /\ SettledAs(done.pieces[n]) \in Pieces
        /\ SizeOf(SettledAs(done.pieces[n])) = SizeOf(done.pieces[n])
        /\ Fine(SettledAs(done.pieces[n]), done.ctx, base)
  <2> SUFFICES ASSUME NEW n \in 1 .. Len(done.pieces)
               PROVE  /\ SettledAs(done.pieces[n]) \in Pieces
                      /\ SizeOf(SettledAs(done.pieces[n])) = SizeOf(done.pieces[n])
                      /\ Fine(SettledAs(done.pieces[n]), done.ctx, base) OBVIOUS
  <2>1. done.pieces[n] \in Pieces /\ Fine(done.pieces[n], done.ctx, base) BY <1>1 DEF AllFine
  <2> QED BY <2>1, SettledPieces
<1>4. /\ pieces \in Seq(Pieces) /\ Len(pieces) = Len(done.pieces)
      /\ \A n \in 1 .. Len(done.pieces) : pieces[n] = SettledAs(done.pieces[n])
  <2>1. pieces \in [1 .. Len(done.pieces) -> Pieces] BY <1>2, <1>3
  <2>2. pieces \in Seq(Pieces) /\ Len(pieces) = Len(done.pieces) BY <1>2, <2>1
  <2> QED BY <1>2, <2>2
<1> HIDE DEF pieces
<1>5. InlinedBytes(done.pieces) = InlinedBytes(pieces) BY <1>1, <1>3, <1>4, SameCounts
<1>6. AllFine(pieces, done.ctx, base) BY <1>3, <1>4 DEF AllFine
<1>7. /\ done.ctx.out = ctx.out /\ ctx.out \in Seq(Pieces) /\ ctx.bytes = InlinedBytes(ctx.out)
      /\ AllFine(ctx.out, done.ctx, base)
  BY <1>1, AllFineStays DEF Good, Grows, Context
<1>8. out \in Seq(Pieces) /\ InlinedBytes(out) = InlinedBytes(ctx.out) + InlinedBytes(pieces)
  BY <1>4, <1>7, BothCount
<1>9. AllFine(out, done.ctx, base) BY <1>4, <1>6, <1>7, BothFine
<1>10. settled = [done.ctx EXCEPT !.out = out] BY DEF Settle, SettledAs, out, pieces
<1> HIDE DEF out, settled
<1>11. /\ settled \in Context /\ settled.out = out /\ settled.bytes = done.ctx.bytes
       /\ settled.warned = done.ctx.warned BY <1>1, <1>8, <1>10 DEF Context
<1>12. AllFine(settled.out, settled, base)
  BY <1>9, <1>11 DEF AllFine, Fine, Accounted, KnownIn
<1>13. settled.bytes = InlinedBytes(settled.out) BY <1>1, <1>5, <1>7, <1>8, <1>11
<1>14. Good(settled, base) BY <1>11, <1>12, <1>13 DEF Good
<1>15. ctx.warned \subseteq settled.warned BY <1>1, <1>11 DEF Grows
<1> QED BY <1>14, <1>15 DEF settled

(* A style sheet of the document, with all it imports. *)
LEMMA SheetsAreGood ==
  ASSUME NEW base \in RefBase, NEW ctx, Good(ctx, base), NEW rules \in Seq(SheetRule),
         NEW of \in RefBase, of = base \/ of.kind = "local", NEW output \in RefBase
  PROVE  /\ Good(InlineCss(ctx, rules, of, output), base)
         /\ ctx.warned \subseteq InlineCss(ctx, rules, of, output).warned
<1> DEFINE call == Call(ctx, rules, of, output)
           result == InlineCssImports(ctx, rules, of, output)
           urls == InlineCssUrls(result.ctx, result.pieces, of, output)
<1>1. ctx \in Context BY DEF Good
<1>2. call \in SheetCall /\ result \in SheetResult /\ Inlines(call, result)
  BY <1>1, ImportsAreInlined
<1>3. call.ctx = ctx /\ call.base = of BY DEF Call
<1> HIDE DEF call, result
<1>4. urls \in Made(ctx, of) BY <1>2, <1>3, UrlsAreMade
<1>5. InlineCss(ctx, rules, of, output) = Settle(urls) BY DEF InlineCss, urls, result
<1> HIDE DEF urls
<1>6. urls \in Made(ctx, base)
  <2>1. CASE of = base BY <1>4, <2>1
  <2>2. CASE of.kind = "local"
    <3>1. urls.pieces \in Seq(Pieces) /\ AllFine(urls.pieces, urls.ctx, of) BY <1>4 DEF Made
    <3>2. AllFine(urls.pieces, urls.ctx, base) BY <2>2, <3>1, LocalIsFineAnywhere
    <3> QED BY <1>4, <3>2 DEF Made
  <2> QED BY <2>1, <2>2
<1> QED BY <1>5, <1>6, SettlingIsGood

----------------------------------------------------------------------------
(* Loops that emit. *)
GoodFrom(ctx, base) == {c \in Context : Good(c, base) /\ ctx.warned \subseteq c.warned}

(* The loops over an inert style's rules and over a script's imports. *)
LEMMA GoodContexts ==
  ASSUME NEW base, NEW ctx, Good(ctx, base)
  PROVE  ctx \in Context /\ ctx \in GoodFrom(ctx, base) /\ Grows(ctx, ctx) /\ ctx.bytes \in Nat
BY ContextsGrow DEF Good, GoodFrom

LEMMA ScrubTurns ==
  ASSUME NEW base \in RefBase, NEW ctx, Good(ctx, base), NEW rules \in Seq(SheetRule),
         NEW kind \in WarningKind, NEW n \in 1 .. Len(RulesOf({"import", "style"}, rules)),
         NEW x \in GoodFrom(ctx, base)
  PROVE  ScrubTurn(x, RulesOf({"import", "style"}, rules)[n].ref, base, kind)
           \in GoodFrom(ctx, base)
<1> DEFINE ref == RulesOf({"import", "style"}, rules)[n].ref
           turn == ScrubTurn(x, ref, base, kind)
<1>1. ref \in Reference
  <2>1. RulesOf({"import", "style"}, rules) \in Seq(OfKind({"import", "style"})) BY RulesLoop
  <2>2. RulesOf({"import", "style"}, rules)[n] \in OfKind({"import", "style"}) BY <2>1
  <2> QED BY <2>2, RulesHaveRefs
<1> HIDE DEF ref
<1>2. x \in Context /\ Good(x, base) /\ ctx.warned \subseteq x.warned BY DEF GoodFrom
<1>3. "file-url-redacted" \in WarningKind BY DEF WarningKind
<1>4. CASE IsFileScheme(ref)
  <2> DEFINE first == IF kind = "srcdoc-resource" THEN Warn(x, kind, ref) ELSE x
             told == Warn(first, "file-url-redacted", ref)
  <2>1. Grows(x, first) /\ first.bytes = x.bytes
    <3>1. Grows(x, Warn(x, kind, ref)) /\ Warn(x, kind, ref).bytes = x.bytes BY <1>1, <1>2, Warning
    <3> QED BY <1>2, <3>1, ContextsGrow
  <2>2. first \in Context BY <2>1 DEF Grows
  <2>3. turn = Emit(told, ref, "redacted") BY <1>4 DEF ScrubTurn
  <2> HIDE DEF first
  <2>4. Grows(first, told) /\ told.bytes = first.bytes /\ KnownIn(told, ref)
    BY <1>1, <1>3, <2>2, Warning
  <2> HIDE DEF told
  <2>5. Grows(x, told) /\ told.bytes = x.bytes /\ Accounted(told, ref, base)
    BY <2>1, <2>4, GrowsOn DEF Accounted
  <2> HIDE DEF turn
  <2>6. Good(turn, base) /\ told.warned \subseteq turn.warned
    BY <1>1, <1>2, <2>3, <2>5, LeavingIsGood
  <2>7. turn \in GoodFrom(ctx, base) BY <1>2, <2>5, <2>6 DEF GoodFrom, Good, Grows
  <2> QED BY <2>7 DEF turn, ref
<1>5. CASE ~IsFileScheme(ref)
  <2> DEFINE told == WarnLeft(x, kind, ref, base)
  <2>1. turn = Emit(told, ref, "erased") BY <1>5 DEF ScrubTurn
  <2>2. Grows(x, told) /\ told.bytes = x.bytes /\ Accounted(told, ref, base)
    BY <1>1, <1>2, LeftIsAccounted
  <2> HIDE DEF told, turn
  <2>3. Good(turn, base) /\ told.warned \subseteq turn.warned
    BY <1>1, <1>2, <1>5, <2>1, <2>2, LeavingIsGood
  <2>4. turn \in GoodFrom(ctx, base) BY <1>2, <2>2, <2>3 DEF GoodFrom, Good, Grows
  <2> QED BY <2>4 DEF turn, ref
<1> QED BY <1>4, <1>5

LEMMA ImportTurns ==
  ASSUME NEW base \in RefBase, NEW ctx, Good(ctx, base), NEW refs \in Seq(Reference),
         NEW of \in RefBase, NEW n \in 1 .. Len(refs), NEW x \in GoodFrom(ctx, base)
  PROVE  ImportTurn(x, refs[n], of) \in GoodFrom(ctx, base)
<1> DEFINE ref == refs[n]
           told == IF IsLocalImport(ref) THEN WarnLeft(x, "inline-module-import", ref, of) ELSE x
           turn == ImportTurn(x, ref, of)
<1>1. ref \in Reference OBVIOUS
<1>2. x \in Context /\ Good(x, base) /\ ctx.warned \subseteq x.warned BY DEF GoodFrom
<1>3. "inline-module-import" \in WarningKind BY DEF WarningKind
<1> HIDE DEF ref
<1>4. Grows(x, told) /\ told.bytes = x.bytes
  <2>1. /\ Grows(x, WarnLeft(x, "inline-module-import", ref, of))
        /\ WarnLeft(x, "inline-module-import", ref, of).bytes = x.bytes
    BY <1>1, <1>2, <1>3, LeftIsAccounted
  <2> QED BY <1>2, <2>1, ContextsGrow
<1>5. turn = Emit(told, ref, "kept") BY DEF ImportTurn
<1> HIDE DEF told, turn
<1>6. Good(turn, base) /\ told.warned \subseteq turn.warned
  BY <1>1, <1>2, <1>4, <1>5, LeavingIsGood
<1>7. turn \in GoodFrom(ctx, base) BY <1>2, <1>4, <1>6 DEF GoodFrom, Good, Grows
<1> QED BY <1>7 DEF turn, ref

(* A whole sheet is scrubbed. *)
LEMMA ScrubLoop ==
  ASSUME NEW base \in RefBase, NEW ctx, Good(ctx, base), NEW rules \in Seq(SheetRule),
         NEW kind \in WarningKind
  PROVE  ScrubCss(ctx, rules, base, kind) \in GoodFrom(ctx, base)
<1> DEFINE N == Len(RulesOf({"import", "style"}, rules))
           Turn(n, x) == ScrubTurn(x, RulesOf({"import", "style"}, rules)[n].ref, base, kind)
           S == [n \in 0 .. N |-> GoodFrom(ctx, base)]
           step == [n \in 1 .. N |-> [x \in S[n - 1] |-> Turn(n, x)]]
           P(g) == g = [n \in 0 .. Len(RulesOf({"import", "style"}, rules)) |->
                          IF n = 0 THEN ctx
                          ELSE ScrubTurn(g[n - 1], RulesOf({"import", "style"}, rules)[n].ref, base, kind)]
           loop == CHOOSE g : P(g)
<1>1. N \in Nat /\ 0 \in 0 .. N /\ N \in 0 .. N
  <2>1. RulesOf({"import", "style"}, rules) \in Seq(OfKind({"import", "style"})) BY RulesLoop
  <2> QED BY <2>1
<1>2. \A n \in 1 .. N : n \in 0 .. N /\ n - 1 \in 0 .. N /\ n # 0 OBVIOUS
<1>3. \A n \in 1 .. N : \A x \in S[n - 1] : Turn(n, x) \in S[n]
  <2> SUFFICES ASSUME NEW n \in 1 .. N, NEW x \in S[n - 1] PROVE Turn(n, x) \in S[n] OBVIOUS
  <2>1. x \in GoodFrom(ctx, base) /\ S[n] = GoodFrom(ctx, base) BY <1>2
  <2>2. ScrubTurn(x, RulesOf({"import", "style"}, rules)[n].ref, base, kind)
          \in GoodFrom(ctx, base)
    BY <2>1, ScrubTurns
  <2> QED BY <2>1, <2>2
<1>4. ctx \in S[0] BY <1>1, GoodContexts
<1>5. S[N] = GoodFrom(ctx, base) BY <1>1
<1> HIDE DEF S, Turn
<1>6. PICK f : Loops(f, N, S, ctx, step)
  <2>1. \A n \in 1 .. N : \A x \in S[n - 1] : step[n][x] \in S[n] BY <1>3
  <2> HIDE DEF N, step
  <2> QED BY <1>1, <1>4, <2>1, LoopRuns
<1>7. P(f)
  <2>1. \A n \in 0 .. N : n = 0 \/ n \in 1 .. N OBVIOUS
  <2>2. \A n \in 1 .. N : step[n][f[n - 1]] = Turn(n, f[n - 1]) BY <1>2, <1>6 DEF Loops
  <2>3. \A n \in 0 .. N : f[n] = IF n = 0 THEN ctx ELSE Turn(n, f[n - 1])
    BY <1>2, <1>6, <2>1, <2>2 DEF Loops
  <2> HIDE DEF step
  <2> QED BY <1>6, <2>3 DEF Loops, Turn
<1>8. P(loop) BY <1>7
<1>9. loop[0] = ctx /\ \A n \in 1 .. N : loop[n] = Turn(n, loop[n - 1])
  <2> HIDE DEF loop
  <2> QED BY <1>1, <1>2, <1>8 DEF Turn
<1>10. ScrubCss(ctx, rules, base, kind) = loop[N] BY DEF ScrubCss, P
<1> HIDE DEF P
<1>11. \A n \in 0 .. N : loop[n] \in S[n]
  <2>1. loop[0] \in S[0] BY <1>4, <1>9
  <2>2. \A n \in 1 .. N : loop[n - 1] \in S[n - 1] => loop[n] \in S[n] BY <1>3, <1>9
  <2> HIDE DEF loop, N
  <2> QED BY <1>1, <2>1, <2>2, LoopHolds
<1> HIDE DEF loop
<1> QED BY <1>1, <1>5, <1>10, <1>11

(* All imports of a script are told about. *)
LEMMA ImportLoop ==
  ASSUME NEW base \in RefBase, NEW ctx, Good(ctx, base), NEW refs \in Seq(Reference),
         NEW of \in RefBase
  PROVE  WarnDynamicImports(ctx, refs, of) \in GoodFrom(ctx, base)
<1> DEFINE N == Len(refs)
           Turn(n, x) == ImportTurn(x, refs[n], of)
           S == [n \in 0 .. N |-> GoodFrom(ctx, base)]
           step == [n \in 1 .. N |-> [x \in S[n - 1] |-> Turn(n, x)]]
           P(g) == g = [n \in 0 .. Len(refs) |->
                          IF n = 0 THEN ctx
                          ELSE ImportTurn(g[n - 1], refs[n], of)]
           loop == CHOOSE g : P(g)
<1>1. N \in Nat /\ 0 \in 0 .. N /\ N \in 0 .. N OBVIOUS
<1>2. \A n \in 1 .. N : n \in 0 .. N /\ n - 1 \in 0 .. N /\ n # 0 OBVIOUS
<1>3. \A n \in 1 .. N : \A x \in S[n - 1] : Turn(n, x) \in S[n]
  <2> SUFFICES ASSUME NEW n \in 1 .. N, NEW x \in S[n - 1] PROVE Turn(n, x) \in S[n] OBVIOUS
  <2>1. x \in GoodFrom(ctx, base) /\ S[n] = GoodFrom(ctx, base) BY <1>2
  <2>2. (ImportTurn(x, refs[n], of)) \in GoodFrom(ctx, base) BY <2>1, ImportTurns
  <2> QED BY <2>1, <2>2
<1>4. ctx \in S[0] BY <1>1, GoodContexts
<1>5. S[N] = GoodFrom(ctx, base) BY <1>1
<1> HIDE DEF S, Turn
<1>6. PICK f : Loops(f, N, S, ctx, step)
  <2>1. \A n \in 1 .. N : \A x \in S[n - 1] : step[n][x] \in S[n] BY <1>3
  <2> HIDE DEF N, step
  <2> QED BY <1>1, <1>4, <2>1, LoopRuns
<1>7. P(f)
  <2>1. \A n \in 0 .. N : n = 0 \/ n \in 1 .. N OBVIOUS
  <2>2. \A n \in 1 .. N : step[n][f[n - 1]] = Turn(n, f[n - 1]) BY <1>2, <1>6 DEF Loops
  <2>3. \A n \in 0 .. N : f[n] = IF n = 0 THEN ctx ELSE Turn(n, f[n - 1])
    BY <1>2, <1>6, <2>1, <2>2 DEF Loops
  <2> HIDE DEF step
  <2> QED BY <1>6, <2>3 DEF Loops, Turn
<1>8. P(loop) BY <1>7
<1>9. loop[0] = ctx /\ \A n \in 1 .. N : loop[n] = Turn(n, loop[n - 1])
  <2> HIDE DEF loop
  <2> QED BY <1>1, <1>2, <1>8 DEF Turn
<1>10. WarnDynamicImports(ctx, refs, of) = loop[N] BY DEF WarnDynamicImports, P
<1> HIDE DEF P
<1>11. \A n \in 0 .. N : loop[n] \in S[n]
  <2>1. loop[0] \in S[0] BY <1>4, <1>9
  <2>2. \A n \in 1 .. N : loop[n - 1] \in S[n - 1] => loop[n] \in S[n] BY <1>3, <1>9
  <2> HIDE DEF loop, N
  <2> QED BY <1>1, <2>1, <2>2, LoopHolds
<1> HIDE DEF loop
<1> QED BY <1>1, <1>5, <1>10, <1>11

----------------------------------------------------------------------------
(* Elements.  What is left where it is fetches, and so does what is inlined. *)
LEMMA LeaveKinds ==
  ASSUME NEW e, LeaveKind(e) # "none"
  PROVE  /\ LeaveKind(e) \in WarningKind /\ Html(e) /\ IsFetched(e)
         /\ LeaveKind(e) = "module-external" => e.tag = "script" /\ e.attr = "src"
<1>1. Html(e) BY DEF LeaveKind
<1>2. e.within = "live" /\ e.namespace # "svg" BY <1>1 DEF Html
<1>3. CASE e.tag = "script" /\ e.attr = "src"
  <2>1. LeaveKind(e) \in {"unterminated-script-src", "module-external", "unsupported-script-type",
                          "unsupported-script-timing"}
    BY <1>1, <1>3 DEF LeaveKind, EmbedsDocument
  <2>2. LeaveKind(e) \in WarningKind BY <2>1 DEF WarningKind
  <2> QED BY <1>1, <1>2, <1>3, <2>2 DEF IsFetched
<1>4. CASE e.tag = "link"
  <2>1. LeaveKind(e) \in {"unsupported-stylesheet-type", "inactive-stylesheet",
                          "behavioral-stylesheet", "preload-stylesheet", "fetchable-link"}
    <3>1. CASE Has(e, "stylesheet") BY <1>1, <1>4, <3>1 DEF LeaveKind, EmbedsDocument
    <3>2. CASE ~Has(e, "stylesheet") BY <1>1, <1>4, <3>2 DEF LeaveKind, EmbedsDocument
    <3> QED BY <3>1, <3>2
  <2>2. LeaveKind(e) \in WarningKind /\ LeaveKind(e) # "module-external" BY <2>1 DEF WarningKind
  <2>3. Has(e, "stylesheet") \/ Has(e, "preload-style") \/ Has(e, "hint")
    BY <1>1, <1>4 DEF LeaveKind, EmbedsDocument
  <2>4. e.traits \cap {"stylesheet", "icon", "hint", "preload-style"} # {} BY <2>3 DEF Has
  <2> QED BY <1>1, <1>2, <1>4, <2>2, <2>4 DEF IsFetched
<1>5. CASE e.tag # "link" /\ ~(e.tag = "script" /\ e.attr = "src")
  <2>1. /\ LeaveKind(e) = "unsupported-frame"
        /\ (e.tag = "iframe" /\ e.attr = "src") \/ EmbedsDocument(e)
    BY <1>1, <1>5 DEF LeaveKind
  <2>2. LeaveKind(e) \in WarningKind /\ LeaveKind(e) # "module-external" BY <2>1 DEF WarningKind
  <2>3. IsFetched(e) BY <1>2, <2>1 DEF IsFetched, EmbedsDocument
  <2> QED BY <1>1, <2>2, <2>3
<1> QED BY <1>3, <1>4, <1>5

(* Elements that are embedded are elements that fetch. *)
LEMMA InlinedAreFetched ==
  ASSUME NEW e, IsEmbedded(e) \/ RunsText(e) \/ LinksSheet(e)
  PROVE  IsFetched(e) /\ LeaveKind(e) # "module-external"
<1>1. CASE IsEmbedded(e)
  <2>1. e.tag # "script" BY <1>1 DEF IsEmbedded, Media, SvgReferring, EmbedsDocument
  <2>2. LeaveKind(e) # "module-external" BY <2>1, LeaveKinds
  <2>3. CASE Html(e)
    <3>1. e.within = "live" /\ e.namespace # "svg" /\ e.namespace = "html" BY <2>3 DEF Html
    <3>2. CASE e.tag = "link"
      <4>1. Has(e, "icon")
        BY <1>1, <3>1, <3>2 DEF IsEmbedded, Media, SvgReferring, EmbedsDocument, Svg
      <4>2. e.traits \cap {"stylesheet", "icon", "hint", "preload-style"} # {} BY <4>1 DEF Has
      <4> QED BY <2>2, <3>1, <3>2, <4>2 DEF IsFetched
    <3>3. CASE e.tag # "link"
      BY <1>1, <2>2, <3>1, <3>3 DEF IsEmbedded, IsFetched, Media, EmbedsDocument, Svg
    <3> QED BY <3>2, <3>3
  <2>4. CASE ~Html(e) BY <1>1, <2>2, <2>4 DEF IsEmbedded, IsFetched, Svg
  <2> QED BY <2>3, <2>4
<1>2. CASE RunsText(e)
  <2>1. LeaveKind(e) # "module-external"
    <3>1. ~(Html(e) /\ Svg(e)) BY DEF Html, Svg
    <3> QED BY <1>2, <3>1, LeaveKinds DEF RunsText
  <2>2. IsFetched(e) BY <1>2 DEF RunsText, IsFetched, Html, Svg
  <2> QED BY <2>1, <2>2
<1>3. CASE LinksSheet(e)
  <2>1. e.traits \cap {"stylesheet", "icon", "hint", "preload-style"} # {}
    BY <1>3 DEF LinksSheet, Has
  <2>2. e.within = "live" /\ e.namespace # "svg" /\ e.tag = "link" BY <1>3 DEF LinksSheet, Html
  <2> QED BY <1>3, <2>1, <2>2 DEF IsFetched, LinksSheet
<1> QED BY <1>1, <1>2, <1>3

(***************************************************************************)
(* The inductive invariant of an export: the file that is being made is    *)
(* good, a module that was left has been told about by its own warning,    *)
(* and at the end so has every element that fetches from elsewhere.        *)
(***************************************************************************)
SlotsOf == exporting.slots

ExportInv ==
  /\ exporting \in Exports /\ slot \in 0 .. Len(SlotsOf) + 1
  /\ Good(bundle, exporting.base)
  /\ \A n \in 1 .. Len(SlotsOf) :
       /\ n <= slot /\ LeaveKind(SlotsOf[n]) = "module-external"
       /\ ResolveRef(SlotsOf[n].ref, exporting.base) = "file"
       => <<"module-external", SlotsOf[n].ref.is>> \in bundle.warned
  /\ Written => \A n \in 1 .. Len(SlotsOf) :
       SlotsOf[n].on = "attribute" /\ IsFetched(SlotsOf[n]) /\ SlotsOf[n].ref.form = "remote"
       => <<"remote-reference", SlotsOf[n].ref.is>> \in bundle.warned

(* Documents and their elements have their types. *)
LEMMA DocumentsAre ==
  ASSUME exporting \in Exports
  PROVE  exporting.base \in RefBase /\ SlotsOf \in Seq(SlotElement)
BY ExportsAssumption DEF SlotsOf

LEMMA ElementsAre ==
  ASSUME exporting \in Exports, NEW n \in 1 .. Len(SlotsOf)
  PROVE  LET e == SlotsOf[n] IN
         /\ e \in SlotElement
         /\ e.on \in {"attribute", "script"} => e.ref \in Reference
         /\ e.on = "style" => e.sheet \in Seq(SheetRule) /\ e.tag = "style"
         /\ e.on = "script" => e.tag \in {"classic", "module", "importmap"}
<1> DEFINE e == SlotsOf[n]
<1>1. SlotsOf \in Seq(SlotElement) BY DocumentsAre
<1>2. e \in SlotElement /\ e \in ToSet(SlotsOf) BY <1>1 DEF ToSet
<1>3. e.on = "script" => e.tag \in {"classic", "module", "importmap"}
  BY <1>2, ExportsAssumption DEF SlotsOf
<1> HIDE DEF e
<1>4. /\ e.on \in {"attribute", "script"} => e.ref \in Reference
      /\ e.on = "style" => e.sheet \in Seq(SheetRule) /\ e.tag = "style"
  BY <1>2 DEF SlotElement
<1> QED BY <1>2, <1>3, <1>4 DEF e

(* It holds before the first element. *)
LEMMA ExportBegins == ASSUME ExportInit PROVE ExportInv
<1>1. exporting \in Exports /\ slot = 0 /\ bundle = NoBundle BY DEF ExportInit
<1>2. SlotsOf \in Seq(SlotElement) /\ Len(SlotsOf) \in Nat
  <2>1. SlotsOf \in Seq(SlotElement) BY <1>1, DocumentsAre
  <2> QED BY <2>1
<1>3. Good(bundle, exporting.base)
  <2>1. bundle \in Context
    <3>1. 0 \in 0 .. MaxBundleBytes BY ExportFilesAssumption
    <3> QED BY <1>1, <3>1, NothingCounts DEF NoBundle, Context
  <2>2. bundle.bytes = 0 /\ bundle.out = <<>> BY <1>1 DEF NoBundle
  <2> QED BY <2>1, <2>2, NothingCounts DEF Good, AllFine
<1>4. ~Written BY <1>1, <1>2 DEF Written, SlotsOf
<1>5. \A n \in 1 .. Len(SlotsOf) : ~(n <= slot) BY <1>1, <1>2
<1> QED BY <1>1, <1>2, <1>3, <1>4, <1>5 DEF ExportInv

(* A slot's step. *)
LEMMA SlotStep ==
  ASSUME ExportInv, More, slot' = slot + 1, exporting' = exporting,
         Good(bundle', exporting.base), bundle.warned \subseteq bundle'.warned,
         /\ LeaveKind(Item) = "module-external" /\ ResolveRef(Item.ref, Base) = "file"
         => <<"module-external", Item.ref.is>> \in bundle'.warned
  PROVE  ExportInv'
<1>1. exporting \in Exports /\ slot \in 0 .. Len(SlotsOf) + 1 BY DEF ExportInv
<1>2. Len(SlotsOf) \in Nat
  <2>1. SlotsOf \in Seq(SlotElement) BY <1>1, DocumentsAre
  <2> QED BY <2>1
<1>3. slot < Len(SlotsOf) BY DEF More, SlotsOf
<1>4. SlotsOf' = SlotsOf BY DEF SlotsOf
<1>5. slot' \in 0 .. Len(SlotsOf) + 1 /\ ~Written' BY <1>1, <1>2, <1>3 DEF Written, SlotsOf
<1>6. ASSUME NEW n \in 1 .. Len(SlotsOf), n <= slot', LeaveKind(SlotsOf[n]) = "module-external",
             ResolveRef(SlotsOf[n].ref, exporting.base) = "file"
      PROVE  <<"module-external", SlotsOf[n].ref.is>> \in bundle'.warned
  <2>1. n <= slot \/ n = slot + 1 BY <1>1, <1>6
  <2>2. CASE n <= slot BY <1>6, <2>2 DEF ExportInv
  <2>3. CASE n = slot + 1
    <3>1. SlotsOf[n] = Item BY <2>3 DEF Item, SlotsOf
    <3> QED BY <1>6, <3>1 DEF Base
  <2> QED BY <2>1, <2>2, <2>3
<1> QED BY <1>1, <1>4, <1>5, <1>6 DEF ExportInv

(* Each action makes a good step. *)
LEMMA ItemIs ==
  ASSUME ExportInv, More
  PROVE  /\ Item \in SlotElement /\ Base \in RefBase /\ Base = exporting.base
         /\ Good(bundle, Base) /\ bundle \in Context /\ Grows(bundle, bundle)
         /\ Item.on \in {"attribute", "script"} => Item.ref \in Reference
         /\ Item.on = "style" => Item.sheet \in Seq(SheetRule) /\ Item.tag = "style"
         /\ Item.on = "script" => Item.tag \in {"classic", "module", "importmap"}
         /\ Item.on # "attribute" => LeaveKind(Item) # "module-external"
<1>1. exporting \in Exports /\ slot \in 0 .. Len(SlotsOf) + 1 /\ Good(bundle, exporting.base)
  BY DEF ExportInv
<1>2. Len(SlotsOf) \in Nat /\ exporting.base \in RefBase
  <2>1. SlotsOf \in Seq(SlotElement) BY <1>1, DocumentsAre
  <2> QED BY <1>1, <2>1, DocumentsAre
<1>3. slot + 1 \in 1 .. Len(SlotsOf) BY <1>1, <1>2 DEF More, SlotsOf
<1> DEFINE e == SlotsOf[slot + 1]
<1>4. /\ e \in SlotElement
      /\ e.on \in {"attribute", "script"} => e.ref \in Reference
      /\ e.on = "style" => e.sheet \in Seq(SheetRule) /\ e.tag = "style"
      /\ e.on = "script" => e.tag \in {"classic", "module", "importmap"}
  BY <1>1, <1>3, ElementsAre
<1>5. Item = e BY DEF Item, SlotsOf
<1> HIDE DEF e
<1>6. e.on \in {"attribute", "script", "style"} BY <1>4 DEF SlotElement
<1>7. e.on # "attribute" => LeaveKind(e) # "module-external"
  <2>1. e.on # "attribute" => e.tag # "script" BY <1>4, <1>6
  <2> QED BY <2>1, LeaveKinds
<1> QED BY <1>1, <1>2, <1>4, <1>5, <1>7, GoodContexts DEF Base

(* Each action keeps it: an image or the like. *)
LEMMA EmbedStep == ASSUME ExportInv, EmbedAsset PROVE ExportInv'
<1> DEFINE got == Load(bundle, Item.ref, Base)
<1>1. More /\ Item.on = "attribute" /\ IsEmbedded(Item) BY DEF EmbedAsset
<1>2. slot' = slot + 1 /\ exporting' = exporting /\ bundle' = EmitLoaded(got, Item.ref)
  BY DEF EmbedAsset, Done
<1>3. Item.ref \in Reference /\ Base \in RefBase /\ Good(bundle, Base) /\ bundle \in Context
  BY <1>1, ItemIs
<1>4. Read(bundle, Item.ref, Base, got) BY <1>3, Loads
<1> HIDE DEF got
<1>5. Good(bundle', Base) /\ bundle.warned \subseteq bundle'.warned
  BY <1>2, <1>3, <1>4, LoadedIsGood
<1>6. LeaveKind(Item) # "module-external" BY <1>1, InlinedAreFetched
<1> QED BY <1>1, <1>2, <1>5, <1>6, SlotStep DEF Base

(* A script with a source, and the modules it imports. *)
LEMMA ScriptStep == ASSUME ExportInv, InlineScript PROVE ExportInv'
<1> DEFINE got == Load(bundle, Item.ref, Base)
           emitted == EmitLoaded(got, Item.ref)
<1>1. More /\ Item.on = "attribute" /\ RunsText(Item) BY DEF InlineScript
<1>2. /\ slot' = slot + 1 /\ exporting' = exporting
      /\ bundle' = IF got.file = Nowhere THEN emitted
                   ELSE WarnDynamicImports(emitted, AssetInfo[got.file].imports, DirOf(got))
  BY DEF InlineScript, Done
<1>3. Item.ref \in Reference /\ Base \in RefBase /\ Good(bundle, Base) /\ bundle \in Context
  BY <1>1, ItemIs
<1>4. Read(bundle, Item.ref, Base, got) BY <1>3, Loads
<1> HIDE DEF got
<1>5. Good(emitted, Base) /\ bundle.warned \subseteq emitted.warned
  BY <1>3, <1>4, LoadedIsGood
<1> HIDE DEF emitted
<1>6. Good(bundle', Base) /\ bundle.warned \subseteq bundle'.warned
  <2>1. CASE got.file = Nowhere BY <1>2, <1>5, <2>1
  <2>2. CASE got.file # Nowhere
    <3>1. got.file \in Asset BY <1>4, <2>2 DEF Read
    <3>2. AssetInfo[got.file].imports \in Seq(Reference) BY <3>1, ExportFilesAssumption
    <3>3. DirOf(got) \in RefBase BY <3>1, DirsAreBases
    <3>4. bundle' \in GoodFrom(emitted, Base)
      BY <1>2, <1>3, <1>5, <2>2, <3>2, <3>3, ImportLoop
    <3> QED BY <1>5, <3>4 DEF GoodFrom
  <2> QED BY <2>1, <2>2
<1>7. LeaveKind(Item) # "module-external" BY <1>1, InlinedAreFetched
<1> QED BY <1>1, <1>2, <1>6, <1>7, SlotStep DEF Base

(* A linked style sheet. *)
LEMMA StylesheetStep == ASSUME ExportInv, InlineStylesheet PROVE ExportInv'
<1> DEFINE got == Load(bundle, Item.ref, Base)
           emitted == EmitLoaded(got, Item.ref)
<1>1. More /\ Item.on = "attribute" /\ LinksSheet(Item) BY DEF InlineStylesheet
<1>2. /\ slot' = slot + 1 /\ exporting' = exporting
      /\ bundle' = IF got.file = Nowhere THEN emitted
                   ELSE InlineCss(emitted, AssetInfo[got.file].sheet, DirOf(got), Base)
  BY DEF InlineStylesheet, Done
<1>3. Item.ref \in Reference /\ Base \in RefBase /\ Good(bundle, Base) /\ bundle \in Context
  BY <1>1, ItemIs
<1>4. Read(bundle, Item.ref, Base, got) BY <1>3, Loads
<1> HIDE DEF got
<1>5. Good(emitted, Base) /\ bundle.warned \subseteq emitted.warned
  BY <1>3, <1>4, LoadedIsGood
<1> HIDE DEF emitted
<1>6. Good(bundle', Base) /\ bundle.warned \subseteq bundle'.warned
  <2>1. CASE got.file = Nowhere BY <1>2, <1>5, <2>1
  <2>2. CASE got.file # Nowhere
    <3>1. got.file \in Asset BY <1>4, <2>2 DEF Read
    <3>2. AssetInfo[got.file].sheet \in Seq(SheetRule) BY <3>1, ExportFilesAssumption
    <3>3. DirOf(got) \in RefBase /\ DirOf(got).kind = "local" BY <3>1, DirsAreBases
    <3>4. Good(bundle', Base) /\ emitted.warned \subseteq bundle'.warned
      BY <1>2, <1>3, <1>5, <2>2, <3>2, <3>3, SheetsAreGood
    <3> QED BY <1>5, <3>4
  <2> QED BY <2>1, <2>2
<1>7. LeaveKind(Item) # "module-external" BY <1>1, InlinedAreFetched
<1> QED BY <1>1, <1>2, <1>6, <1>7, SlotStep DEF Base

(* A reference that is left, with its warning. *)
LEMMA LeaveStep == ASSUME ExportInv, LeaveReference PROVE ExportInv'
<1> DEFINE kind == LeaveKind(Item)
           told == WarnLeft(bundle, kind, Item.ref, Base)
<1>1. More /\ Item.on = "attribute" /\ kind # "none" BY DEF LeaveReference
<1>2. /\ slot' = slot + 1 /\ exporting' = exporting
      /\ bundle' = Emit(told, Item.ref, Unresolved(Item.ref))
  BY DEF LeaveReference, Done
<1>3. Item.ref \in Reference /\ Base \in RefBase /\ Good(bundle, Base) /\ bundle \in Context
  BY <1>1, ItemIs
<1>4. kind \in WarningKind BY <1>1, LeaveKinds
<1>5. /\ Grows(bundle, told) /\ told.bytes = bundle.bytes /\ Accounted(told, Item.ref, Base)
      /\ ResolveRef(Item.ref, Base) = "file" => <<kind, Item.ref.is>> \in told.warned
  <2> HIDE DEF kind
  <2> QED BY <1>3, <1>4, LeftIsAccounted
<1> HIDE DEF told
<1>6. /\ Unresolved(Item.ref) \in {"left", "kept", "redacted"}
      /\ Unresolved(Item.ref) = "left" => ~IsFileScheme(Item.ref) BY DEF Unresolved
<1>7. Good(bundle', Base) /\ told.warned \subseteq bundle'.warned
  BY <1>2, <1>3, <1>5, <1>6, LeavingIsGood
<1>8. bundle.warned \subseteq bundle'.warned BY <1>5, <1>7 DEF Grows
<1> QED BY <1>1, <1>2, <1>5, <1>7, <1>8, SlotStep DEF Base

(* A file URL is redacted and told about. *)
LEMMA RedactingIsGood ==
  ASSUME NEW base \in RefBase, NEW ctx, Good(ctx, base), NEW ref \in Reference
  PROVE  LET after == Emit(Warn(ctx, "file-url-redacted", ref), ref, "redacted") IN
         Good(after, base) /\ ctx.warned \subseteq after.warned
<1> DEFINE told == Warn(ctx, "file-url-redacted", ref)
<1>1. "file-url-redacted" \in WarningKind /\ ctx \in Context BY DEF WarningKind, Good
<1>2. Grows(ctx, told) /\ told.bytes = ctx.bytes /\ KnownIn(told, ref) BY <1>1, Warning
<1> HIDE DEF told
<1>3. Accounted(told, ref, base) BY <1>2 DEF Accounted
<1>4. /\ Good(Emit(told, ref, "redacted"), base)
      /\ told.warned \subseteq Emit(told, ref, "redacted").warned
  BY <1>2, <1>3, LeavingIsGood
<1> QED BY <1>2, <1>4 DEF told, Grows

(* What is kept as it is, and what is only warned of. *)
LEMMA KeepingIsGood ==
  ASSUME NEW base \in RefBase, NEW ctx, Good(ctx, base), NEW ref \in Reference
  PROVE  Good(Emit(ctx, ref, "kept"), base) /\ ctx.warned \subseteq Emit(ctx, ref, "kept").warned
<1>1. Grows(ctx, ctx) BY GoodContexts
<1> QED BY <1>1, LeavingIsGood

LEMMA TellingIsGood ==
  ASSUME NEW base \in RefBase, NEW ctx, Good(ctx, base), NEW ref \in Reference,
         NEW kind \in WarningKind, ~IsFileScheme(ref)
  PROVE  LET after == Emit(WarnLeft(ctx, kind, ref, base), ref, "left") IN
         Good(after, base) /\ ctx.warned \subseteq after.warned
<1> DEFINE told == WarnLeft(ctx, kind, ref, base)
<1>1. ctx \in Context BY DEF Good
<1>2. Grows(ctx, told) /\ told.bytes = ctx.bytes /\ Accounted(told, ref, base)
  BY <1>1, LeftIsAccounted
<1> HIDE DEF told
<1>3. /\ Good(Emit(told, ref, "left"), base)
      /\ told.warned \subseteq Emit(told, ref, "left").warned
  BY <1>2, LeavingIsGood
<1> QED BY <1>2, <1>3 DEF told, Grows

(* An attribute that fetches nothing. *)
LEMMA OtherStep == ASSUME ExportInv, OtherAttribute PROVE ExportInv'
<1>1. More /\ Item.on = "attribute" /\ LeaveKind(Item) = "none" BY DEF OtherAttribute
<1>2. /\ slot' = slot + 1 /\ exporting' = exporting
      /\ bundle' = IF IsFileScheme(Item.ref)
                   THEN Emit(Warn(bundle, "file-url-redacted", Item.ref), Item.ref, "redacted")
                   ELSE Emit(bundle, Item.ref, "kept")
  BY DEF OtherAttribute, Done
<1>3. Item.ref \in Reference /\ Base \in RefBase /\ Good(bundle, Base) BY <1>1, ItemIs
<1>4. Good(bundle', Base) /\ bundle.warned \subseteq bundle'.warned
  <2>1. CASE IsFileScheme(Item.ref) BY <1>2, <1>3, <2>1, RedactingIsGood
  <2>2. CASE ~IsFileScheme(Item.ref) BY <1>2, <1>3, <2>2, KeepingIsGood
  <2> QED BY <2>1, <2>2
<1>5. LeaveKind(Item) # "module-external" BY <1>1
<1> QED BY <1>1, <1>2, <1>4, <1>5, SlotStep DEF Base

(* An attribute inside a template, a noscript or a srcdoc. *)
LEMMA InertStep == ASSUME ExportInv, InertAttribute PROVE ExportInv'
<1> DEFINE kind == IF Item.within = "srcdoc" THEN "srcdoc-resource" ELSE "inert-resource"
<1>1. More /\ Item.on = "attribute" /\ Item.within # "live" BY DEF InertAttribute
<1>2. /\ slot' = slot + 1 /\ exporting' = exporting
      /\ bundle' = IF IsFileScheme(Item.ref)
                   THEN Emit(Warn(bundle, "file-url-redacted", Item.ref), Item.ref, "redacted")
                   ELSE IF IsToldInert(Item)
                   THEN Emit(WarnLeft(bundle, kind, Item.ref, Base), Item.ref, "left")
                   ELSE Emit(bundle, Item.ref, "kept")
  BY DEF InertAttribute, Done
<1>3. Item.ref \in Reference /\ Base \in RefBase /\ Good(bundle, Base) BY <1>1, ItemIs
<1>4. kind \in WarningKind BY DEF WarningKind
<1> HIDE DEF kind
<1>5. Good(bundle', Base) /\ bundle.warned \subseteq bundle'.warned
  <2>1. CASE IsFileScheme(Item.ref) BY <1>2, <1>3, <2>1, RedactingIsGood
  <2>2. CASE ~IsFileScheme(Item.ref) /\ IsToldInert(Item)
    BY <1>2, <1>3, <1>4, <2>2, TellingIsGood
  <2>3. CASE ~IsFileScheme(Item.ref) /\ ~IsToldInert(Item)
    BY <1>2, <1>3, <2>3, KeepingIsGood
  <2> QED BY <2>1, <2>2, <2>3
<1>6. LeaveKind(Item) # "module-external" BY <1>1, LeaveKinds DEF Html
<1> QED BY <1>1, <1>2, <1>5, <1>6, SlotStep DEF Base

(* A style element. *)
LEMMA StyleStep == ASSUME ExportInv, StyleText PROVE ExportInv'
<1>1. More /\ Item.on = "style" BY DEF StyleText
<1>2. /\ Item.sheet \in Seq(SheetRule) /\ Base \in RefBase /\ Good(bundle, Base)
      /\ Item.within \in {"live", "template", "srcdoc"}
      /\ LeaveKind(Item) # "module-external"
  <2>1. Item \in SlotElement BY <1>1, ItemIs
  <2>2. Item.within \in {"live", "template", "srcdoc"} BY <2>1 DEF SlotElement
  <2> QED BY <1>1, <2>2, ItemIs
<1>3. /\ slot' = slot + 1 /\ exporting' = exporting
      /\ bundle' = CASE Item.within = "srcdoc" ->
                          ScrubCss(bundle, Item.sheet, Base, "srcdoc-resource")
                     [] Item.within = "template" ->
                          ScrubCss(bundle, Item.sheet, Base, "inert-resource")
                     [] Item.within = "live" ->
                          IF Has(Item, "other-type")
                          THEN ScrubCss(bundle, Item.sheet, Base, "unsupported-style-type")
                          ELSE InlineCss(bundle, Item.sheet, Base, Base)
  BY DEF StyleText, Done
<1>4. \/ \E kind \in WarningKind : bundle' = ScrubCss(bundle, Item.sheet, Base, kind)
      \/ bundle' = InlineCss(bundle, Item.sheet, Base, Base)
  <2>1. {"srcdoc-resource", "inert-resource", "unsupported-style-type"} \subseteq WarningKind
    BY DEF WarningKind
  <2> QED BY <1>2, <1>3, <2>1
<1>5. Good(bundle', Base) /\ bundle.warned \subseteq bundle'.warned
  <2>1. CASE \E kind \in WarningKind : bundle' = ScrubCss(bundle, Item.sheet, Base, kind)
    <3>1. bundle' \in GoodFrom(bundle, Base) BY <1>2, <2>1, ScrubLoop
    <3> QED BY <3>1 DEF GoodFrom
  <2>2. CASE bundle' = InlineCss(bundle, Item.sheet, Base, Base)
    BY <1>2, <2>2, SheetsAreGood
  <2> QED BY <1>4, <2>1, <2>2
<1> QED BY <1>1, <1>2, <1>3, <1>5, SlotStep DEF Base

(* A script's text. *)
LEMMA ScriptTextStep == ASSUME ExportInv, ScriptText PROVE ExportInv'
<1> DEFINE ref == Item.ref
           kind == IF Item.tag = "importmap" THEN "inline-importmap-local-ref"
                   ELSE "inline-module-import"
           first == Warn(bundle, kind, ref)
           told == Warn(first, "file-url-redacted", ref)
<1>1. More /\ Item.on = "script" BY DEF ScriptText
<1>2. /\ slot' = slot + 1 /\ exporting' = exporting
      /\ bundle' = IF Item.tag = "classic" THEN WarnDynamicImports(bundle, <<ref>>, Base)
                   ELSE IF IsFileScheme(ref) THEN Emit(told, ref, "redacted")
                   ELSE Emit(IF IsLocalImport(ref) THEN WarnLeft(bundle, kind, ref, Base)
                             ELSE bundle, ref, "left")
  BY DEF ScriptText, Done
<1>3. /\ ref \in Reference /\ Base \in RefBase /\ Good(bundle, Base)
      /\ LeaveKind(Item) # "module-external" /\ bundle \in Context BY <1>1, ItemIs
<1>4. kind \in WarningKind BY DEF WarningKind
<1> HIDE DEF ref, kind
<1>5. Good(bundle', Base) /\ bundle.warned \subseteq bundle'.warned
  <2>1. CASE Item.tag = "classic"
    <3>1. <<ref>> \in Seq(Reference) BY <1>3
    <3>2. bundle' \in GoodFrom(bundle, Base) BY <1>2, <1>3, <2>1, <3>1, ImportLoop
    <3> QED BY <3>2 DEF GoodFrom
  <2>2. CASE Item.tag # "classic" /\ IsFileScheme(ref)
    <3>1. Grows(bundle, first) /\ first.bytes = bundle.bytes BY <1>3, <1>4, Warning
    <3>2. bundle' = Emit(told, ref, "redacted") BY <1>2, <2>2
    <3> HIDE DEF first
    <3>3. Grows(first, told) /\ told.bytes = first.bytes /\ KnownIn(told, ref)
      <4>1. "file-url-redacted" \in WarningKind /\ first \in Context
        BY <3>1 DEF WarningKind, Grows
      <4> QED BY <1>3, <4>1, Warning
    <3> HIDE DEF told
    <3>4. Grows(bundle, told) /\ told.bytes = bundle.bytes /\ Accounted(told, ref, Base)
      BY <3>1, <3>3, GrowsOn DEF Accounted
    <3>5. Good(bundle', Base) /\ told.warned \subseteq bundle'.warned
      BY <1>3, <3>2, <3>4, LeavingIsGood
    <3> QED BY <3>4, <3>5 DEF Grows
  <2>3. CASE Item.tag # "classic" /\ ~IsFileScheme(ref) /\ IsLocalImport(ref)
    BY <1>2, <1>3, <1>4, <2>3, TellingIsGood
  <2>4. CASE Item.tag # "classic" /\ ~IsFileScheme(ref) /\ ~IsLocalImport(ref)
    <3>1. bundle' = Emit(bundle, ref, "left") BY <1>2, <2>4
    <3>2. ref.form \notin LocalForm BY <2>4 DEF IsLocalImport, IsFileScheme, LocalForm
    <3>3. Accounted(bundle, ref, Base) BY <1>3, <3>2, ReferencesDescribed DEF Accounted
    <3>4. Grows(bundle, bundle) BY <1>3, GoodContexts
    <3> QED BY <1>3, <2>4, <3>1, <3>3, <3>4, LeavingIsGood
  <2> QED BY <2>1, <2>2, <2>3, <2>4
<1> QED BY <1>1, <1>2, <1>3, <1>5, SlotStep DEF Base

(* The last pass. *)
LEMMA LastStep == ASSUME ExportInv, FindRemoteReferences PROVE ExportInv'
<1> DEFINE remote == {s \in ToSet(SlotsOf) :
                        s.on = "attribute" /\ IsFetched(s) /\ s.ref.form = "remote"}
           added == {<<"remote-reference", s.ref.is>> : s \in remote}
<1>1. /\ slot = Len(SlotsOf) /\ slot' = slot + 1 /\ exporting' = exporting
      /\ bundle' = [bundle EXCEPT !.warned = @ \cup added]
  BY DEF FindRemoteReferences, Done, SlotsOf
<1>2. exporting \in Exports /\ Good(bundle, exporting.base) /\ bundle \in Context
  BY DEF ExportInv, Good
<1>3. SlotsOf \in Seq(SlotElement) /\ Len(SlotsOf) \in Nat /\ SlotsOf' = SlotsOf
  <2>1. SlotsOf \in Seq(SlotElement) BY <1>2, DocumentsAre
  <2> QED BY <1>1, <2>1 DEF SlotsOf
<1>4. \A n \in 1 .. Len(SlotsOf) : SlotsOf[n] \in ToSet(SlotsOf) BY <1>3 DEF ToSet
<1>5. \A s \in remote : s.ref.is \in STRING
  <2> SUFFICES ASSUME NEW s \in remote PROVE s.ref.is \in STRING OBVIOUS
  <2>1. PICK n \in 1 .. Len(SlotsOf) : s = SlotsOf[n] BY <1>3 DEF ToSet
  <2>2. s.ref \in Reference BY <1>2, <2>1, ElementsAre
  <2> QED BY <2>2 DEF Reference
<1>6. \A n \in 1 .. Len(SlotsOf) :
        SlotsOf[n].on = "attribute" /\ IsFetched(SlotsOf[n]) /\ SlotsOf[n].ref.form = "remote"
        => <<"remote-reference", SlotsOf[n].ref.is>> \in added
  BY <1>4
<1>7. added \subseteq WarningKind \X STRING
  <2>1. "remote-reference" \in WarningKind BY DEF WarningKind
  <2> HIDE DEF remote
  <2> QED BY <1>5, <2>1
<1> HIDE DEF added
<1>8. /\ bundle' \in Context /\ bundle'.warned = bundle.warned \cup added
      /\ bundle'.bytes = bundle.bytes /\ bundle'.out = bundle.out
  BY <1>1, <1>2, <1>7 DEF Context
<1>9. Good(bundle', exporting.base)
  <2>1. Grows(bundle, bundle') BY <1>8 DEF Grows
  <2>2. AllFine(bundle.out, bundle', exporting.base) BY <1>2, <2>1, AllFineStays DEF Good
  <2> QED BY <1>2, <1>8, <2>2 DEF Good
<1>10. slot' \in 0 .. Len(SlotsOf) + 1 BY <1>1, <1>3
<1>11. ASSUME NEW n \in 1 .. Len(SlotsOf), LeaveKind(SlotsOf[n]) = "module-external",
              ResolveRef(SlotsOf[n].ref, exporting.base) = "file"
       PROVE  <<"module-external", SlotsOf[n].ref.is>> \in bundle'.warned
  <2>1. n <= slot BY <1>1
  <2> QED BY <1>8, <1>11, <2>1 DEF ExportInv
<1>12. \A n \in 1 .. Len(SlotsOf) :
        SlotsOf[n].on = "attribute" /\ IsFetched(SlotsOf[n]) /\ SlotsOf[n].ref.form = "remote"
        => <<"remote-reference", SlotsOf[n].ref.is>> \in bundle'.warned BY <1>6, <1>8
<1> QED BY <1>1, <1>2, <1>3, <1>9, <1>10, <1>11, <1>12 DEF ExportInv

(* Every step of an export keeps it. *)
LEMMA ExportStep == ASSUME ExportInv, [ExportNext]_exportVars PROVE ExportInv'
<1>1. CASE UNCHANGED exportVars
  <2>1. exporting' = exporting /\ slot' = slot /\ bundle' = bundle BY <1>1 DEF exportVars
  <2> QED BY <2>1 DEF ExportInv, SlotsOf, Written
<1>2. CASE ExportNext
  BY <1>2, EmbedStep, ScriptStep, StylesheetStep, LeaveStep, OtherStep, InertStep, StyleStep,
     ScriptTextStep, LastStep DEF ExportNext
<1> QED BY <1>1, <1>2

(* What it says of the end is the property. *)
LEMMA ExportAccountsFor == ASSUME ExportInv PROVE ExportAccounts
<1> DEFINE out == bundle.out
<1>1. exporting \in Exports /\ Good(bundle, Base) /\ bundle \in Context /\ Base \in RefBase
  BY DocumentsAre DEF ExportInv, Good, Base
<1>2. SlotsOf \in Seq(SlotElement) BY <1>1, DocumentsAre
<1>3. bundle.bytes = InlinedBytes(out) /\ bundle.bytes <= MaxBundleBytes
  BY <1>1, ExportFilesAssumption DEF Good, Context
<1>4. ASSUME NEW p \in ToSet(out)
      PROVE  /\ IsFileScheme(p.ref) => p.as # "left"
             /\ p.as \notin {"inlined", "kept"} =>
                  \/ Told(p.ref)
                  \/ p.ref.form \notin LocalForm
                  \/ Base.kind = "remote" /\ ~IsFileScheme(p.ref)
  <2>1. out \in Seq(Pieces) BY <1>1 DEF Context
  <2>2. PICK n \in 1 .. Len(out) : p = out[n] BY <2>1 DEF ToSet
  <2>3. p \in Pieces /\ Fine(p, bundle, Base) BY <1>1, <2>1, <2>2 DEF Good, AllFine
  <2>4. p.ref \in Reference BY <2>3, PiecesHaveRefs
  <2>5. ASSUME p.as \notin {"inlined", "kept"}
        PROVE  \/ Told(p.ref)
               \/ p.ref.form \notin LocalForm
               \/ Base.kind = "remote" /\ ~IsFileScheme(p.ref)
    <3>1. Accounted(bundle, p.ref, Base) BY <2>3, <2>5 DEF Fine
    <3>2. ResolveRef(p.ref, Base) = "skip" =>
            p.ref.form \notin LocalForm \/ (Base.kind = "remote" /\ ~IsFileScheme(p.ref))
      BY <1>1, <2>4, ReferencesDescribed
    <3>3. KnownIn(bundle, p.ref) => Told(p.ref) BY DEF KnownIn, Told
    <3> QED BY <3>1, <3>2, <3>3 DEF Accounted
  <2> QED BY <2>3, <2>5 DEF Fine
<1>5. ASSUME Written, NEW s \in ToSet(exporting.slots),
             \/ /\ s.on = "attribute" /\ s.ref.form = "remote"
                /\ IsEmbedded(s) \/ RunsText(s) \/ LinksSheet(s) \/ LeaveKind(s) # "none"
             \/ LeaveKind(s) = "module-external" /\ ResolveRef(s.ref, Base) = "file"
      PROVE  Told(s.ref) /\ ExitCode = 1
  <2>1. PICK n \in 1 .. Len(SlotsOf) : s = SlotsOf[n] BY <1>2 DEF ToSet, SlotsOf
  <2>2. n <= slot
    <3>1. Len(SlotsOf) \in Nat /\ slot \in 0 .. Len(SlotsOf) + 1 BY <1>2 DEF ExportInv
    <3> QED BY <1>5, <3>1 DEF Written, SlotsOf
  <2>3. \E w \in bundle.warned : w[1] \in {"remote-reference", "module-external"} /\ w[2] = s.ref.is
    <3>1. CASE /\ s.on = "attribute" /\ s.ref.form = "remote"
               /\ IsEmbedded(s) \/ RunsText(s) \/ LinksSheet(s) \/ LeaveKind(s) # "none"
      <4>1. IsFetched(s) BY <3>1, LeaveKinds, InlinedAreFetched
      <4>2. <<"remote-reference", s.ref.is>> \in bundle.warned
        BY <1>5, <2>1, <3>1, <4>1 DEF ExportInv
      <4> QED BY <4>2
    <3>2. CASE LeaveKind(s) = "module-external" /\ ResolveRef(s.ref, Base) = "file"
      <4>1. <<"module-external", s.ref.is>> \in bundle.warned
        BY <2>1, <2>2, <3>2 DEF ExportInv, Base
      <4> QED BY <4>1
    <3> QED BY <1>5, <3>1, <3>2
  <2> QED BY <2>3 DEF Told, ExitCode
<1> QED BY <1>3, <1>4, <1>5 DEF ExportAccounts

(* Of every export, whatever the document, the files and the limits: a     *)
(* local reference is inlined, told about or, in a script's code and where *)
(* nothing fetches it, kept; the bytes that were counted are those of the  *)
(* files that are in; and the command does not exit with 0 when an         *)
(* element's own attribute fetches over http or a module was left beside   *)
(* the file.                                                               *)
THEOREM ExportAccountsForAll == ExportSpec => []ExportAccounts
<1>1. ExportInit => ExportInv BY ExportBegins
<1>2. ExportInv /\ [ExportNext]_exportVars => ExportInv' BY ExportStep
<1>3. ExportInv => ExportAccounts BY ExportAccountsFor
<1> QED BY <1>1, <1>2, <1>3, PTL DEF ExportSpec

============================================================================
