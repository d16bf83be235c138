------------------------------ MODULE HtmlWalk ------------------------------
(***************************************************************************)
(* The three walks the export makes over a document's tokens: for the base *)
(* that references are resolved against (refs.ts), for the transform, and  *)
(* for the references that are still remote afterwards (inline-html.ts).   *)
(* Each keeps a stack of open elements of its own (tokenize.ts) and steps  *)
(* over contents that are text or inert.                                   *)
(*                                                                         *)
(* A token is a tag: a start, perhaps with a slash, or a close.  What it   *)
(* carries is modelled in ExportTransform.                                 *)
(***************************************************************************)
EXTENDS Integers, FiniteSets, Sequences, SequencesExt, FiniteSetsExt

CONSTANT
  MaxTokens \* length of the documents

ASSUME WalkAssumption == MaxTokens \in Nat

VARIABLE walked \* the document

Void == {"img", "base"}
RawText == {"script", "style"}
Inert == {"template", "noscript"}
IntegrationPoints == {"foreignobject"}

Start(tag) == [kind |-> "start", tag |-> tag]
Slashed(tag) == [kind |-> "slashed", tag |-> tag]
Close(tag) == [kind |-> "close", tag |-> tag]

Token ==
  {Start(t) : t \in {"img", "base", "script", "template", "noscript", "plaintext", "svg",
                     "foreignobject"}}
  \cup {Slashed(t) : t \in {"script", "svg"}}
  \cup {Close(t) : t \in {"script", "template", "noscript", "svg"}}

----------------------------------------------------------------------------
(* Namespaces and the stack. *)

CurrentNamespace(stack) == IF stack = <<>> THEN "html" ELSE Last(stack).namespace
HtmlParent(stack) == IF stack = <<>> THEN "" ELSE Last(stack).tag

ElementNamespace(tag, stack) ==
  IF CurrentNamespace(stack) = "html" /\ tag = "svg" THEN "svg" ELSE CurrentNamespace(stack)

ChildNamespace(tag, namespace) ==
  IF namespace = "svg" /\ tag \in IntegrationPoints THEN "html" ELSE namespace

SelfClosing(token, namespace) ==
  token.kind = "slashed" /\ (token.tag \in Void \/ namespace = "svg")

(* A close ends the last open element of its name and all that is in it;   *)
(* one without an open element is ignored.                                 *)
Pop(stack, tag) ==
  LET open == {i \in DOMAIN stack : stack[i].tag = tag} IN
  IF open = {} THEN stack ELSE SubSeq(stack, 1, Max(open) - 1)

Push(stack, token, namespace) ==
  IF token.tag \in Void \/ SelfClosing(token, namespace)
  THEN stack
  ELSE Append(stack, [tag |-> token.tag, namespace |-> ChildNamespace(token.tag, namespace)])

IsRaw(tag) == tag \in RawText
IsInert(tag, namespace) == tag \in Inert /\ namespace = "html"
IsPlain(tag, namespace) == tag = "plaintext" /\ namespace = "html"

----------------------------------------------------------------------------
(* Where an element's content ends: the first close of its name, and for a *)
(* template the close that matches, templates and texts within it stepped  *)
(* over.                                                                   *)
Never(tokens) == Len(tokens) + 1

RawTextClose(tokens, from, tag) ==
  Min({i \in from .. Len(tokens) : tokens[i] = Close(tag)} \cup {Never(tokens)})

Scan(at, depth) == [at |-> at, depth |-> depth]

TemplateTurn(tokens, scan) ==
  LET token == tokens[scan.at]
      next == scan.at + 1
  IN
  IF scan.depth = 0 \/ scan.at > Len(tokens) THEN scan
  ELSE IF token = Close("template")
  THEN IF scan.depth = 1 THEN Scan(scan.at, 0) ELSE Scan(next, scan.depth - 1)
  ELSE IF token.kind = "close" THEN Scan(next, scan.depth)
  ELSE IF token.tag = "template" THEN Scan(next, scan.depth + 1)
  ELSE IF token.tag = "plaintext" THEN Scan(Never(tokens), scan.depth)
  ELSE IF token.tag \in RawText
  THEN Scan(RawTextClose(tokens, next, token.tag) + 1, scan.depth)
  ELSE Scan(next, scan.depth)

TemplateClose(tokens, from) ==
  LET scan[n \in 0 .. Len(tokens) + 1] ==
        IF n = 0 THEN Scan(from, 1) ELSE TemplateTurn(tokens, scan[n - 1])
      last == scan[Len(tokens) + 1]
  IN  IF last.depth = 0 THEN last.at ELSE Never(tokens)

ContentClose(tokens, from, tag) ==
  IF tag = "template" THEN TemplateClose(tokens, from) ELSE RawTextClose(tokens, from, tag)

Visit(at, namespace, stack) == [at |-> at, namespace |-> namespace, parent |-> HtmlParent(stack)]

----------------------------------------------------------------------------
(* A walk goes on from a position with a stack of open elements, and knows *)
(* the start tags it has seen.  A turn takes the token at the position, and *)
(* there is no turn without one.                                           *)
WalkStart == [at |-> 1, stack |-> <<>>, seen |-> {}]

TokensLeft(tokens, walk) == walk.at \in DOMAIN tokens

Goes(walk, at) == [walk EXCEPT !.at = at]
Sees(walk, namespace) == [walk EXCEPT !.seen = @ \cup {Visit(walk.at, namespace, walk.stack)}]
Closes(walk, tag) == [walk EXCEPT !.at = @ + 1, !.stack = Pop(@, tag)]
Opens(walk, token, namespace) == [walk EXCEPT !.at = @ + 1, !.stack = Push(@, token, namespace)]
StepsOver(tokens, walk, tag) == Goes(walk, ContentClose(tokens, walk.at + 1, tag) + 1)

(* transformMarkup: the start tags whose references are inlined. *)
TransformTurn(tokens, walk) ==
  LET token == tokens[walk.at]
      tag == token.tag
      namespace == ElementNamespace(tag, walk.stack)
      closed == SelfClosing(token, namespace)
      seeing == Sees(walk, namespace)
  IN
  IF token.kind = "close" THEN Closes(walk, tag)
  ELSE IF IsPlain(tag, namespace) /\ ~closed THEN Goes(seeing, Never(tokens))
  ELSE IF IsInert(tag, namespace) /\ ~closed THEN StepsOver(tokens, walk, tag)
  ELSE IF IsRaw(tag) /\ ~closed THEN StepsOver(tokens, seeing, tag)
  ELSE Opens(seeing, token, namespace)

TransformMarkup(tokens) ==
  LET walk[n \in 0 .. Len(tokens)] ==
        IF n = 0 THEN WalkStart
        ELSE IF TokensLeft(tokens, walk[n - 1]) THEN TransformTurn(tokens, walk[n - 1]) ELSE walk[n - 1]
  IN  walk[Len(tokens)]

(* Slip: closes are stepped over. *)
RemoteTurnUnpopped(tokens, walk) ==
  LET token == tokens[walk.at]
      tag == token.tag
      namespace == ElementNamespace(tag, walk.stack)
      seeing == Sees(walk, namespace)
      skips == (IsInert(tag, namespace) \/ IsRaw(tag)) /\ ~SelfClosing(token, namespace)
  IN
  IF token.kind = "close" THEN Goes(walk, walk.at + 1)
  ELSE IF skips THEN StepsOver(tokens, seeing, tag)
  ELSE Opens(seeing, token, namespace)

(* findRemoteReferenceWarnings: the start tags whose references are looked *)
(* at again, those of inert elements and after a plaintext among them.     *)
RemoteTurn(tokens, walk) ==
  LET token == tokens[walk.at]
      tag == token.tag
      namespace == ElementNamespace(tag, walk.stack)
      seeing == Sees(walk, namespace)
      skips == (IsInert(tag, namespace) \/ IsRaw(tag)) /\ ~SelfClosing(token, namespace)
  IN
  IF token.kind = "close" THEN Closes(walk, tag)
  ELSE IF skips THEN StepsOver(tokens, seeing, tag)
  ELSE Opens(seeing, token, namespace)

RemoteScan(tokens) ==
  LET walk[n \in 0 .. Len(tokens)] ==
        IF n = 0 THEN WalkStart
        ELSE IF TokensLeft(tokens, walk[n - 1]) THEN RemoteTurn(tokens, walk[n - 1]) ELSE walk[n - 1]
  IN  walk[Len(tokens)]

(* findFirstDocumentBaseHref: the first base element that is one ends the  *)
(* walk, and is all that it has seen.                                      *)
IsBase(tag, namespace) == tag = "base" /\ namespace = "html"

BaseTurn(tokens, walk) ==
  LET token == tokens[walk.at]
      tag == token.tag
      namespace == ElementNamespace(tag, walk.stack)
      closed == SelfClosing(token, namespace)
  IN
  IF token.kind = "close" THEN Closes(walk, tag)
  ELSE IF IsBase(tag, namespace) THEN Goes(Sees(walk, namespace), Never(tokens))
  ELSE IF IsPlain(tag, namespace) /\ ~closed THEN Goes(walk, Never(tokens))
  ELSE IF (IsInert(tag, namespace) \/ IsRaw(tag)) /\ ~closed THEN StepsOver(tokens, walk, tag)
  ELSE Opens(walk, token, namespace)

FirstBase(tokens) ==
  LET walk[n \in 0 .. Len(tokens)] ==
        IF n = 0 THEN WalkStart
        ELSE IF TokensLeft(tokens, walk[n - 1]) THEN BaseTurn(tokens, walk[n - 1]) ELSE walk[n - 1]
  IN  walk[Len(tokens)]

----------------------------------------------------------------------------
WalkInit == walked \in UNION {[1 .. n -> Token] : n \in 0 .. MaxTokens}

(* The walks agree on every document: each comes to the end of it; an      *)
(* element whose references are inlined is also looked at for what is      *)
(* still remote, in the same namespace and under the same parent, and the  *)
(* base that resolves those references is the first live HTML base element, *)
(* never one in a text, a template or an image.                            *)
WalksAgree ==
  LET inlined == TransformMarkup(walked)
      scanned == RemoteScan(walked)
      based == FirstBase(walked)
      bases == {v \in inlined.seen : IsBase(walked[v.at].tag, v.namespace)}
      first == {v \in bases : \A w \in bases : v.at <= w.at}
  IN
  /\ \A walk \in {inlined, scanned, based} : ~TokensLeft(walked, walk)
  /\ inlined.seen \subseteq scanned.seen
  /\ based.seen = first

============================================================================
