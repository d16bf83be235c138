--------------------------- MODULE ExportTransform --------------------------
(***************************************************************************)
(* `illuminate export`: an artifact is made one file, its references       *)
(* inlined within a budget or left and warned about (export/refs.ts,       *)
(* export/inline-html.ts, the command in cli.ts).                          *)
(*                                                                         *)
(* A document is a sequence of slots, the places that carry a reference: an *)
(* attribute of an element, or an import in the body of a script.  A       *)
(* reference has a form and, if local, the file it names and the directory *)
(* it is relative to.  What the tokenizer makes of a text is in HtmlWalk.  *)
(***************************************************************************)
EXTENDS Integers, FiniteSets, Sequences, SequencesExt, FiniteSetsExt

CONSTANTS
  AssetInfo,      \* of each file: its size, where it is, its directory, its sheet
  Exports,        \* documents: a base and slots
  MaxAssetBytes,
  MaxBundleBytes,
  MaxImportDepth  \* maxDepth

VARIABLES
  exporting, \* the document
  slot,      \* slots done
  bundle     \* inlinedBytes, the warnings, and what became of each reference

exportVars == <<exporting, slot, bundle>>

Asset == DOMAIN AssetInfo
DocumentDir == "doc"
Nowhere == "nowhere" \* no file has this name

(* References, the rules of style sheets, and what became of references.   *)
LocalForm == {"relative", "absolute", "file-url", "bad-file-url"}
Reference ==
  [is : STRING, form : LocalForm \cup {"inert", "remote", "protocol-relative", "scheme"},
   file : STRING \cup {Nowhere}, from : STRING]

SheetRule ==
  [kind : {"import"}, ref : Reference, media : STRING] \cup [kind : {"style"}, ref : Reference]
  \cup [kind : {"namespace", "layer"}]

RefBase == [kind : {"local", "remote", "root"}, dir : STRING]

(* An import or a url of a sheet is that until the pass over the sheet's    *)
(* urls; an erased reference is the empty text.                            *)
Treatment == {"inlined", "url", "import", "left", "erased", "kept", "redacted"}
Pieces == {p \in [ref : Reference, as : Treatment] : p.as = "inlined" => p.ref.file \in Asset}

(* What references are told of.  Of the other two kinds, the code never    *)
(* uses nested-svg-resource; unterminated-raw-text is of an element.       *)
WarningKind ==
  {"load-failed", "outside-root", "too-large", "unmapped-root-absolute", "file-url-unresolved",
   "file-url-redacted", "remote-reference", "module-external", "unsupported-script-type",
   "unsupported-script-timing", "unterminated-script-src", "unsupported-stylesheet-type",
   "unsupported-style-type", "inactive-stylesheet", "behavioral-stylesheet", "preload-stylesheet",
   "fetchable-link", "unsupported-frame", "inert-resource", "srcdoc-resource",
   "css-import-order", "css-import-depth", "unsupported-css-import", "late-css-import",
   "inline-module-import", "inline-importmap-local-ref"}

Context ==
  [bytes : 0 .. MaxBundleBytes, warned : SUBSET (WarningKind \X STRING), out : Seq(Pieces)]

ASSUME ExportFilesAssumption ==
  /\ AssetInfo \in [Asset -> [size : Nat, where : {"inside", "outside"}, dir : STRING,
                              sheet : Seq(SheetRule), imports : Seq(Reference)]]
  /\ Asset \subseteq STRING /\ Nowhere \notin Asset
  /\ MaxAssetBytes \in Nat /\ MaxBundleBytes \in Nat /\ MaxImportDepth \in Nat

Warn(ctx, kind, ref) == [ctx EXCEPT !.warned = @ \cup {<<kind, ref.is>>}]
Emit(ctx, ref, as) == [ctx EXCEPT !.out = Append(@, [ref |-> ref, as |-> as])]

----------------------------------------------------------------------------
(* refs.ts. *)

LocalBase(dir) == [kind |-> "local", dir |-> dir]
IsFileScheme(ref) == ref.form \in {"file-url", "bad-file-url"}

(* The base element's href: a local directory, another site, or the root.  *)
RefBaseFromHref(href, dir) ==
  CASE href \in {"none", "inert"} -> LocalBase(DocumentDir)
    [] href \in {"remote", "scheme", "bad-file-url"} -> [kind |-> "remote", dir |-> DocumentDir]
    [] href = "absolute" -> [kind |-> "root", dir |-> DocumentDir]
    [] href \in {"relative", "file-url"} -> LocalBase(dir)

(* A relative reference names its file only from the directory it is of.   *)
ResolveRef(ref, base) ==
  CASE ref.form \in {"inert", "remote", "protocol-relative", "scheme"} -> "skip"
    [] ref.form = "file-url" -> "file"
    [] ref.form = "bad-file-url" -> "unparseable-file-url"
    [] ref.form \in {"relative", "absolute"} /\ base.kind = "remote" -> "skip"
    [] ref.form \in {"relative", "absolute"} /\ base.kind = "root" -> "unmapped-root"
    [] ref.form = "absolute" /\ base.kind = "local" -> "unmapped-root"
    [] ref.form = "relative" /\ base.kind = "local" -> "file"

FileOf(ref, base) ==
  IF ref.form = "file-url" \/ ref.from = base.dir THEN ref.file ELSE Nowhere

WarnUnresolvedDescriptor(ctx, descriptor, ref) ==
  CASE descriptor = "unparseable-file-url" ->
         Warn(Warn(ctx, "file-url-unresolved", ref), "file-url-redacted", ref)
    [] descriptor = "unmapped-root" -> Warn(ctx, "unmapped-root-absolute", ref)
    [] OTHER -> ctx

Got(ctx, file) == [ctx |-> ctx, file |-> file]

(* readBudgeted, and readLocalAsset with the confinement check it is behind. *)
ReadBudgeted(ctx, ref, file) ==
  LET left == MaxBundleBytes - ctx.bytes IN
  IF left <= 0 THEN Got(Warn(ctx, "too-large", ref), Nowhere)
  ELSE IF file \notin Asset THEN Got(Warn(ctx, "load-failed", ref), Nowhere)
  ELSE IF AssetInfo[file].where = "outside" THEN Got(Warn(ctx, "outside-root", ref), Nowhere)
  ELSE IF AssetInfo[file].size > Min({MaxAssetBytes, left})
  THEN Got(Warn(ctx, "too-large", ref), Nowhere)
  ELSE Got([ctx EXCEPT !.bytes = @ + AssetInfo[file].size], file)

(* loadText and loadDataUri: the file, or Nowhere and a warning. *)
Load(ctx, ref, base) ==
  LET d == ResolveRef(ref, base) IN
  IF d = "file"
  THEN ReadBudgeted(ctx, ref, FileOf(ref, base))
  ELSE Got(WarnUnresolvedDescriptor(ctx, d, ref), Nowhere)

Unresolved(ref) == IF IsFileScheme(ref) THEN "redacted" ELSE "left"

(* What a reference that is left gets: a warning of the element's own when *)
(* it is a local file, else whatever its descriptor earns.                 *)
WarnLeft(ctx, kind, ref, base) ==
  IF ResolveRef(ref, base) = "file" THEN Warn(ctx, kind, ref)
  ELSE WarnUnresolvedDescriptor(ctx, ResolveRef(ref, base), ref)

----------------------------------------------------------------------------
(* Style sheets.  A sheet is a sequence of rules: imports, a namespace,    *)
(* statements that leave imports in force (@charset, @layer) and rules     *)
(* with a url.  What it becomes is a sequence of pieces, each a reference  *)
(* and what was done with it.                                              *)

RulesOf(kinds, rules) ==
  LET kept[n \in 0 .. Len(rules)] ==
        IF n = 0 THEN <<>>
        ELSE IF rules[n].kind \in kinds THEN Append(kept[n - 1], rules[n]) ELSE kept[n - 1]
  IN  kept[Len(rules)]

(* Imports count only before the first rule of the body. *)
BodyStart(rules) ==
  Min({n \in DOMAIN rules : rules[n].kind = "style"} \cup {Len(rules) + 1})

CollectCssPrelude(rules) ==
  LET prelude == SubSeq(rules, 1, BodyStart(rules) - 1)
      body == SubSeq(rules, BodyStart(rules), Len(rules))
  IN  [imports |-> RulesOf({"import"}, prelude),
       namespace |-> \E n \in DOMAIN prelude : prelude[n].kind = "namespace",
       late |-> RulesOf({"import"}, body),
       urls |-> RulesOf({"style"}, body)]

Piece(ref, as) == [ref |-> ref, as |-> as]

SheetCall == [ctx : Context, rules : Seq(SheetRule), base : RefBase, output : RefBase]
Call(ctx, rules, base, output) == [ctx |-> ctx, rules |-> rules, base |-> base, output |-> output]

DirOf(ref) == LocalBase(AssetInfo[ref.file].dir)

(* rebaseCssUrlToken: the url that no file was found for. *)
Redact(ref) == Piece(ref, IF IsFileScheme(ref) THEN "redacted" ELSE "url")

(* rebaseLocalCssRef: the same file, named from the output's directory. *)
Rebase(ref, base, output) ==
  IF ref.form = "relative" /\ base.kind = "local" /\ output.kind = "local"
  THEN [ref EXCEPT !.file = FileOf(ref, base), !.from = output.dir]
  ELSE ref

ClassifyCssImport(i, base, depth) ==
  IF depth >= MaxImportDepth THEN "depth"
  ELSE IF i.media = "tail" THEN "unsupported"
  ELSE LET d == ResolveRef(i.ref, base) IN IF d = "file" THEN "candidate" ELSE d

WarnExternalizedCssImport(ctx, i, base, depth, failedToLoad) ==
  LET c == ClassifyCssImport(i, base, depth) IN
  CASE c = "candidate" -> IF failedToLoad THEN ctx ELSE Warn(ctx, "css-import-order", i.ref)
    [] c = "depth" -> WarnLeft(ctx, "css-import-depth", i.ref, base)
    [] c = "unsupported" -> WarnLeft(ctx, "unsupported-css-import", i.ref, base)
    [] OTHER -> WarnUnresolvedDescriptor(ctx, c, i.ref)

(* inlineCssUrls goes over every piece, those of inlined imports and their *)
(* rebased urls too; url(), image-set() and style attributes are alike.    *)
RewrittenUrl(pieces, p, got, base, output) ==
  [ctx |-> got.ctx,
   pieces |-> Append(pieces, IF got.file # Nowhere
                             THEN Piece([p.ref EXCEPT !.file = got.file], "inlined")
                             ELSE Redact(Rebase(p.ref, base, output)))]

(* An import that is still there loses its reference, told or not. *)
ScrubCopiedCssImportRule(p) == [p EXCEPT !.as = IF @ = "import" THEN "erased" ELSE @]

UrlTurn(acc, p, base, output) ==
  IF p.as # "url" \/ p.ref.form = "inert"
  THEN [acc EXCEPT !.pieces = Append(@, ScrubCopiedCssImportRule(p))]
  ELSE RewrittenUrl(acc.pieces, p, Load(acc.ctx, p.ref, base), base, output)

InlineCssUrls(ctx, pieces, base, output) ==
  LET done[n \in 0 .. Len(pieces)] ==
        IF n = 0 THEN [ctx |-> ctx, pieces |-> <<>>]
        ELSE UrlTurn(done[n - 1], pieces[n], base, output)
  IN  done[Len(pieces)]

(* An import that does not go in is rebased, and erased by the pass over   *)
(* urls.  The blank that a file URL is rebased to is not told of.          *)
RebaseCssImportRule(ref, base, output) == Piece(Rebase(ref, base, output), "import")

LateTurn(acc, i, base, output) ==
  [ctx |-> WarnLeft(acc.ctx, "late-css-import", i.ref, base),
   pieces |-> Append(acc.pieces, RebaseCssImportRule(i.ref, base, output))]

RewriteLateCssImports(prelude, sheet, base, output) ==
  LET done[n \in 0 .. Len(sheet.late)] ==
        IF n = 0 THEN prelude ELSE LateTurn(done[n - 1], sheet.late[n], base, output)
  IN  done[Len(sheet.late)]

(* Slip: bytes of imports that were given up stay counted. *)
KeepBytes(ctx, before) == ctx

(* Imports are inlined all or none: the bytes of those that were are given *)
(* back.                                                                   *)
RollBack(ctx, before) == [ctx EXCEPT !.bytes = before]

(* An import's sheet goes in with its urls, or fails all of them. *)
JoinUrls(acc, ref, urls) ==
  [acc EXCEPT !.ctx = urls.ctx, !.pieces = @ \o <<Piece(ref, "inlined")>> \o urls.pieces]

JoinImport(acc, n, ref, inner, output) ==
  IF ~inner.complete \/ inner.namespace
  THEN [acc EXCEPT !.ctx = inner.ctx, !.failed = n]
  ELSE JoinUrls(acc, ref, InlineCssUrls(inner.ctx, inner.pieces, DirOf(ref), output))

(* One import failed: none is inlined, and each is told about. *)
ExternalizeTurn(ctx, n, sheet, base, depth, done) ==
  WarnExternalizedCssImport(ctx, sheet.imports[n], base, depth,
                            n = done.failed /\ done.cause = "load")

ExternalizeImports(ctx, sheet, base, depth, output, done) ==
  LET told[n \in 0 .. Len(sheet.imports)] ==
        IF n = 0 THEN RollBack(done.ctx, ctx.bytes)
        ELSE ExternalizeTurn(told[n - 1], n, sheet, base, depth, done)
  IN  [ctx |-> told[Len(sheet.imports)],
       pieces |-> [n \in DOMAIN sheet.imports |->
                     RebaseCssImportRule(sheet.imports[n].ref, base, output)]]

FinishSheet(prelude, sheet, complete) ==
  [ctx |-> prelude.ctx,
   pieces |-> prelude.pieces \o [n \in DOMAIN sheet.urls |-> Piece(sheet.urls[n].ref, "url")],
   complete |-> complete /\ sheet.late = <<>>,
   namespace |-> sheet.namespace]

EndImports(ctx, sheet, base, depth, output, done) ==
  FinishSheet(
    RewriteLateCssImports(
      IF done.failed = 0 THEN [ctx |-> done.ctx, pieces |-> done.pieces]
      ELSE ExternalizeImports(ctx, sheet, base, depth, output, done),
      sheet, base, output),
    sheet, done.failed = 0)

(* An import that was read: its own sheet is gone through, a level down.   *)
PrepareRead(acc, n, ref, got, output, inner) ==
  IF got.file = Nowhere
  THEN [acc EXCEPT !.ctx = got.ctx, !.failed = n, !.cause = "load"]
  ELSE JoinImport(acc, n, [ref EXCEPT !.file = got.file],
                  inner[Call(got.ctx, AssetInfo[got.file].sheet, DirOf(got), output)], output)

PrepareTurn(acc, n, sheet, call, depth, inner) ==
  LET i == sheet.imports[n] IN
  IF acc.failed # 0 THEN acc
  ELSE IF ClassifyCssImport(i, call.base, depth) # "candidate" THEN [acc EXCEPT !.failed = n]
  ELSE PrepareRead(acc, n, i.ref, ReadBudgeted(acc.ctx, i.ref, FileOf(i.ref, call.base)),
                   call.output, inner)

PrepareStart(call, sheet) ==
  [ctx |-> call.ctx, failed |-> IF sheet.namespace /\ sheet.imports # <<>> THEN 1 ELSE 0,
   cause |-> "other", pieces |-> <<>>]

PrepareImports(call, sheet, depth, inner) ==
  LET done[n \in 0 .. Len(sheet.imports)] ==
        IF n = 0 THEN PrepareStart(call, sheet)
        ELSE PrepareTurn(done[n - 1], n, sheet, call, depth, inner)
  IN  done[Len(sheet.imports)]

InlineSheet(call, depth, inner) ==
  LET sheet == CollectCssPrelude(call.rules) IN
  EndImports(call.ctx, sheet, call.base, depth, call.output,
             PrepareImports(call, sheet, depth, inner))

(* As a function of the sheet: no import is read at the last level, and at *)
(* the others with what is made of a sheet one level down.                 *)
InlineSheets(depth, inner) == [call \in SheetCall |-> InlineSheet(call, depth, inner)]

InlineLevels(levels) ==
  LET inline[left \in 0 .. levels] ==
        IF left = 0 THEN InlineSheets(MaxImportDepth, <<>>)
        ELSE InlineSheets(MaxImportDepth - left, inline[left - 1])
  IN  inline[levels]

InlineCssImports(ctx, rules, base, output) ==
  InlineLevels(MaxImportDepth)[Call(ctx, rules, base, output)]

(* A url that no file was found for keeps its text. *)
Settle(done) ==
  [done.ctx EXCEPT !.out = @ \o [n \in DOMAIN done.pieces |->
     [done.pieces[n] EXCEPT !.as = IF @ = "url" THEN "left" ELSE @]]]

InlineCss(ctx, rules, base, output) ==
  LET Urls(imported) == InlineCssUrls(imported.ctx, imported.pieces, base, output)
  IN  Settle(Urls(InlineCssImports(ctx, rules, base, output)))

(* scrubCssRefsWithoutInlining: a sheet that is not a live one loses every *)
(* reference; the local ones are told about.                               *)
ScrubTurn(ctx, ref, base, kind) ==
  IF IsFileScheme(ref)
  THEN Emit(Warn(IF kind = "srcdoc-resource" THEN Warn(ctx, kind, ref) ELSE ctx,
                 "file-url-redacted", ref),
            ref, "redacted")
  ELSE Emit(WarnLeft(ctx, kind, ref, base), ref, "erased")

ScrubCss(ctx, rules, base, kind) ==
  LET scrubbed == RulesOf({"import", "style"}, rules)
      done[n \in 0 .. Len(scrubbed)] ==
        IF n = 0 THEN ctx ELSE ScrubTurn(done[n - 1], scrubbed[n].ref, base, kind)
  IN  done[Len(scrubbed)]

----------------------------------------------------------------------------
(* What the transform does with the reference of a slot, by its element.   *)

Media == {"img", "source", "video", "audio", "track"}
SvgReferring == {"use", "image", "feimage"}
Plays(e) == e.parent \in {"video", "audio"}
Html(e) == e.namespace = "html" /\ e.within = "live"
Svg(e) == e.namespace = "svg" /\ e.within = "live"
Has(e, trait) == trait \in e.traits

EmbedsDocument(e) ==
  (e.tag = "object" /\ e.attr = "data") \/ (e.tag = "embed" /\ e.attr = "src")

(* Why an element's reference is left where it is. *)
LeaveKind(e) ==
  IF ~Html(e) THEN "none"
  ELSE CASE e.tag = "script" /\ e.attr = "src" ->
         IF Has(e, "unterminated") THEN "unterminated-script-src"
         ELSE IF Has(e, "module") THEN "module-external"
         ELSE IF Has(e, "other-type") THEN "unsupported-script-type"
         ELSE IF Has(e, "deferred") THEN "unsupported-script-timing"
         ELSE "none"
    [] e.tag = "link" /\ Has(e, "stylesheet") ->
         IF Has(e, "other-type") THEN "unsupported-stylesheet-type"
         ELSE IF Has(e, "disabled") THEN "inactive-stylesheet"
         ELSE IF Has(e, "handler") THEN "behavioral-stylesheet"
         ELSE "none"
    [] e.tag = "link" /\ ~Has(e, "stylesheet") ->
         IF Has(e, "preload-style") THEN "preload-stylesheet"
         ELSE IF Has(e, "hint") /\ ~Has(e, "icon") THEN "fetchable-link"
         ELSE "none"
    [] e.tag = "iframe" /\ e.attr = "src" -> "unsupported-frame"
    [] EmbedsDocument(e) /\ Has(e, "html") -> "unsupported-frame"
    [] OTHER -> "none"

(* inlineMediaAttrs, inlineRenderResourceAttrs and the icon of inlineLink. *)
IsEmbedded(e) ==
  \/ Html(e) /\ e.tag \in Media /\ e.attr = "src" /\ (e.tag \in {"source", "track"} => Plays(e))
  \/ Html(e) /\ e.tag = "video" /\ e.attr = "poster"
  \/ Html(e) /\ e.attr = "srcset" /\ (e.tag = "img" \/ (e.tag = "source" /\ e.parent = "picture"))
  \/ Svg(e) /\ e.tag \in SvgReferring /\ e.attr = "href"
  \/ Html(e) /\ EmbedsDocument(e) /\ ~Has(e, "html")
  \/ Html(e) /\ e.tag = "input" /\ Has(e, "image")
  \/ Html(e) /\ e.tag = "link" /\ Has(e, "icon") /\ ~Has(e, "stylesheet") /\ ~Has(e, "preload-style")

RunsText(e) ==
  \/ Html(e) /\ e.tag = "script" /\ e.attr = "src" /\ LeaveKind(e) = "none"
  \/ Svg(e) /\ e.tag = "script" /\ e.attr = "href"

LinksSheet(e) == Html(e) /\ e.tag = "link" /\ Has(e, "stylesheet") /\ LeaveKind(e) = "none"

(* warnInertStartTagRefs: the references of a template's or a srcdoc's     *)
(* elements that are told about.                                           *)
IsToldInert(e) ==
  IF e.namespace = "svg" THEN e.attr = "href" /\ e.tag \in SvgReferring \cup {"script"}
  ELSE \/ e.tag \in Media \cup {"embed", "script", "iframe"} /\ e.attr = "src"
       \/ e.tag = "video" /\ e.attr = "poster"
       \/ e.tag \in {"img", "source"} /\ e.attr = "srcset"
       \/ e.tag = "object"
       \/ e.tag = "input" /\ Has(e, "image")
       \/ e.tag = "link" /\ e.traits \cap {"stylesheet", "icon", "hint", "preload-style"} # {}

(* fetchableRefsForTag: what the last pass looks at, for remote references. *)
IsFetched(e) ==
  IF e.within # "live" THEN FALSE
  ELSE IF e.namespace = "svg" THEN e.attr = "href" /\ e.tag \in SvgReferring \cup {"script"}
  ELSE \/ e.tag \in Media /\ e.attr = "src" /\ (e.tag = "track" => Plays(e))
       \/ e.tag = "video" /\ e.attr = "poster"
       \/ e.attr = "srcset" /\ (e.tag = "img" \/ (e.tag = "source" /\ e.parent = "picture"))
       \/ e.tag = "object"
       \/ e.tag \in {"embed", "script", "iframe"} /\ e.attr = "src"
       \/ e.tag = "input" /\ Has(e, "image")
       \/ e.tag = "link" /\ e.traits \cap {"stylesheet", "icon", "hint", "preload-style"} # {}

----------------------------------------------------------------------------
(* The slots of a document. *)
SlotElement ==
  [on : {"attribute", "script"}, tag : STRING, attr : STRING, traits : SUBSET STRING,
   namespace : {"html", "svg"}, parent : STRING, within : {"live", "template", "srcdoc"},
   ref : Reference]
  \cup [on : {"style"}, tag : {"style"}, attr : STRING, traits : SUBSET STRING,
        namespace : {"html", "svg"}, parent : STRING, within : {"live", "template", "srcdoc"},
        sheet : Seq(SheetRule)]

ASSUME ExportsAssumption ==
  /\ Exports \subseteq [base : RefBase, slots : Seq(SlotElement)]
  /\ \A e \in Exports : \A s \in ToSet(e.slots) :
       s.on = "script" => s.tag \in {"classic", "module", "importmap"}

NoBundle == [bytes |-> 0, warned |-> {}, out |-> <<>>]

ExportInit ==
  /\ exporting \in Exports
  /\ slot = 0
  /\ bundle = NoBundle

More == slot < Len(exporting.slots)
Item == exporting.slots[slot + 1]
Base == exporting.base

Done(ctx) ==
  /\ slot' = slot + 1
  /\ bundle' = ctx
  /\ UNCHANGED exporting

(* A reference that is inlined names the file that was read for it. *)
EmitLoaded(got, ref) ==
  IF got.file = Nowhere
  THEN Emit(got.ctx, ref, Unresolved(ref))
  ELSE Emit(got.ctx, [ref EXCEPT !.file = got.file], "inlined")

(* inlineAttr, inlineSrcset. *)
EmbedAsset ==
  /\ More /\ Item.on = "attribute" /\ IsEmbedded(Item)
  /\ Done(EmitLoaded(Load(bundle, Item.ref, Base), Item.ref))

IsLocalImport(ref) == ref.form \in {"relative", "absolute"}

(* The imports a script's text makes are told about and stay. *)
ImportTurn(ctx, ref, base) ==
  Emit(IF IsLocalImport(ref) THEN WarnLeft(ctx, "inline-module-import", ref, base) ELSE ctx,
       ref, "kept")

WarnDynamicImports(ctx, refs, base) ==
  LET done[n \in 0 .. Len(refs)] == IF n = 0 THEN ctx ELSE ImportTurn(done[n - 1], refs[n], base)
  IN  done[Len(refs)]

(* inlineScript with a src, inlineSvgScriptAttr. *)
InlineScript ==
  /\ More /\ Item.on = "attribute" /\ RunsText(Item)
  /\ \E got \in {Load(bundle, Item.ref, Base)} :
       \E emitted \in {EmitLoaded(got, Item.ref)} :
         Done(IF got.file = Nowhere THEN emitted
              ELSE WarnDynamicImports(emitted, AssetInfo[got.file].imports, DirOf(got)))

(* inlineLink: a style sheet becomes a style element. *)
InlineStylesheet ==
  /\ More /\ Item.on = "attribute" /\ LinksSheet(Item)
  /\ \E got \in {Load(bundle, Item.ref, Base)} :
       \E emitted \in {EmitLoaded(got, Item.ref)} :
         Done(IF got.file = Nowhere THEN emitted
              ELSE InlineCss(emitted, AssetInfo[got.file].sheet, DirOf(got), Base))

LeaveReference ==
  /\ More /\ Item.on = "attribute" /\ LeaveKind(Item) # "none"
  /\ Done(Emit(WarnLeft(bundle, LeaveKind(Item), Item.ref, Base), Item.ref, Unresolved(Item.ref)))

(* An attribute that fetches nothing loses a file URL and nothing else. *)
OtherAttribute ==
  /\ More /\ Item.on = "attribute" /\ Item.within = "live"
  /\ ~IsEmbedded(Item) /\ ~RunsText(Item) /\ ~LinksSheet(Item) /\ LeaveKind(Item) = "none"
  /\ Done(IF IsFileScheme(Item.ref)
          THEN Emit(Warn(bundle, "file-url-redacted", Item.ref), Item.ref, "redacted")
          ELSE Emit(bundle, Item.ref, "kept"))

(* transformInertMarkup: nothing is inlined in a template or a srcdoc. *)
InertAttribute ==
  /\ More /\ Item.on = "attribute" /\ Item.within # "live"
  /\ LET kind == IF Item.within = "srcdoc" THEN "srcdoc-resource" ELSE "inert-resource"
         ref == Item.ref
     IN  Done(IF IsFileScheme(ref) THEN Emit(Warn(bundle, "file-url-redacted", ref), ref, "redacted")
              ELSE IF IsToldInert(Item) THEN Emit(WarnLeft(bundle, kind, ref, Base), ref, "left")
              ELSE Emit(bundle, ref, "kept"))

(* transformRawTextElement with a style, and the style attribute. *)
StyleText ==
  /\ More /\ Item.on = "style"
  /\ Done(CASE Item.within = "srcdoc" -> ScrubCss(bundle, Item.sheet, Base, "srcdoc-resource")
            [] Item.within = "template" -> ScrubCss(bundle, Item.sheet, Base, "inert-resource")
            [] Item.within = "live" ->
                 IF Has(Item, "other-type")
                 THEN ScrubCss(bundle, Item.sheet, Base, "unsupported-style-type")
                 ELSE InlineCss(bundle, Item.sheet, Base, Base))

(* redactInlineModuleFileRefs, warnInlineModuleImports and the same for an *)
(* import map; a classic script is read for its dynamic imports only.      *)
ScriptText ==
  /\ More /\ Item.on = "script"
  /\ LET ref == Item.ref
         kind == IF Item.tag = "importmap" THEN "inline-importmap-local-ref" ELSE "inline-module-import"
         told == Warn(Warn(bundle, kind, ref), "file-url-redacted", ref)
     IN  Done(IF Item.tag = "classic" THEN WarnDynamicImports(bundle, <<ref>>, Base)
              ELSE IF IsFileScheme(ref) THEN Emit(told, ref, "redacted")
              ELSE Emit(IF IsLocalImport(ref) THEN WarnLeft(bundle, kind, ref, Base) ELSE bundle,
                        ref, "left"))

(* findRemoteReferenceWarnings; the file is then written. *)
FindRemoteReferences ==
  /\ slot = Len(exporting.slots)
  /\ LET remote == {s \in ToSet(exporting.slots) :
                      s.on = "attribute" /\ IsFetched(s) /\ s.ref.form = "remote"}
     IN  Done([bundle EXCEPT !.warned = @ \cup {<<"remote-reference", s.ref.is>> : s \in remote}])

ExportNext ==
  \/ EmbedAsset \/ InlineScript \/ InlineStylesheet \/ LeaveReference
  \/ OtherAttribute \/ InertAttribute \/ StyleText \/ ScriptText
  \/ FindRemoteReferences

ExportSpec == ExportInit /\ [][ExportNext]_exportVars

(* Of the command, without --allow-remote. *)
ExitCode ==
  IF \E w \in bundle.warned : w[1] \in {"remote-reference", "module-external"} THEN 1 ELSE 0

----------------------------------------------------------------------------
Written == slot > Len(exporting.slots)
Told(ref) == \E w \in bundle.warned : w[2] = ref.is

(* The bytes of the files that are in. *)
SizeOf(p) == IF p.as = "inlined" THEN AssetInfo[p.ref.file].size ELSE 0

Counted(pieces) ==
  LET bytes[n \in 0 .. Len(pieces)] == IF n = 0 THEN 0 ELSE bytes[n - 1] + SizeOf(pieces[n])
  IN  bytes

InlinedBytes(pieces) == Counted(pieces)[Len(pieces)]

(* What is written accounts for every reference: a local one is inlined,   *)
(* told about or, in a script's code and where nothing fetches it, kept; no *)
(* file URL is left where the transform looks; and the bytes that were     *)
(* counted are those of the files that are in, within the caps, whatever   *)
(* imports were begun and given up.  A reference that is not local may go  *)
(* without a word: a sheet's imports, and a sheet that is not live, lose   *)
(* theirs (inline-html.ts:1474), though no-remote-refs.test.ts:72 says     *)
(* that author content is never silently deleted; and what is told of      *)
(* there as "left as a reference" is erased too.  The command does not     *)
(* exit with 0 when an element's own attribute fetches over http, or a     *)
(* module was left beside the file (cli.ts, "no outbound requests"); it    *)
(* may when a url in a sheet, or a protocol-relative reference, does.      *)
ExportAccounts ==
  LET out == bundle.out IN
  /\ bundle.bytes = InlinedBytes(out) /\ bundle.bytes <= MaxBundleBytes
  /\ \A p \in ToSet(out) :
       /\ IsFileScheme(p.ref) => p.as # "left"
       /\ p.as \notin {"inlined", "kept"} =>
            \/ Told(p.ref)
            \/ p.ref.form \notin LocalForm
            \/ Base.kind = "remote" /\ ~IsFileScheme(p.ref)
  /\ Written => \A s \in ToSet(exporting.slots) :
       \/ /\ s.on = "attribute" /\ s.ref.form = "remote"
          /\ IsEmbedded(s) \/ RunsText(s) \/ LinksSheet(s) \/ LeaveKind(s) # "none"
       \/ LeaveKind(s) = "module-external" /\ ResolveRef(s.ref, Base) = "file"
       => Told(s.ref) /\ ExitCode = 1

============================================================================
