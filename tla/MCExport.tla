------------------------------ MODULE MCExport ------------------------------
EXTENDS ExportTransform

Ref(is, form, file, from) == [is |-> is, form |-> form, file |-> file, from |-> from]
Local(file, from) == Ref(file, "relative", file, from)
Import(file, from, media) == [kind |-> "import", ref |-> Local(file, from), media |-> media]
Style(ref) == [kind |-> "style", ref |-> ref]
Namespace == [kind |-> "namespace"]
Layer == [kind |-> "layer"]

File(size, where, dir) ==
  [size |-> size, where |-> where, dir |-> dir, sheet |-> <<>>, imports |-> <<>>]
Css(size, dir, sheet) == [File(size, "inside", dir) EXCEPT !.sheet = sheet]

MCAssets ==
  [ pic |-> File(2, "inside", "doc"), big |-> File(6, "inside", "doc"),
    far |-> File(1, "outside", "out"),
    script |-> [File(1, "inside", "doc") EXCEPT !.imports = <<Local("pic", "doc"), Ref("x", "remote", "x", "x")>>],
    plain |-> Css(1, "css", <<Style(Ref("up", "relative", "pic", "css")), Style(Local("gone", "css"))>>),
    outer |-> Css(1, "css", <<Import("plain", "css", "none"), Layer, Import("pic", "css", "print")>>),
    nested |-> Css(1, "deep", <<Import("outer", "deep", "none"), Style(Local("pic", "deep"))>>),
    cyclic |-> Css(1, "css", <<Import("cyclic", "css", "none")>>),
    failing |-> Css(1, "css", <<Import("plain", "css", "none"), Import("gone", "css", "none"), Style(Local("pic", "css"))>>),
    tail |-> Css(1, "css", <<Import("plain", "css", "tail")>>),
    spaced |-> Css(1, "css", <<Namespace, Import("plain", "css", "none")>>),
    fonts |-> Css(1, "css", <<[Import("x", "css", "none") EXCEPT !.ref = Ref("web", "remote", "x", "x")],
                              Style(Ref("mark", "inert", "x", "x")), Style(Ref("web", "remote", "x", "x"))>>),
    late |-> Css(1, "css", <<Layer, Import("plain", "css", "none"), Style(Local("pic", "css")), Import("plain", "css", "none")>>),
    overLate |-> Css(1, "css", <<Import("plain", "css", "none"), Import("late", "css", "none")>>) ]

Forms == {"inert", "remote", "protocol-relative", "scheme", "file-url", "bad-file-url", "absolute"}
Hrefs == {"none", "remote", "absolute", "relative"}

OnTag(tag, attr, traits) ==
  [on |-> "attribute", tag |-> tag, attr |-> attr, traits |-> traits, namespace |-> "html",
   parent |-> "", within |-> "live"]
Under(e, parent) == [e EXCEPT !.parent = parent]
InSvg(e) == [e EXCEPT !.namespace = "svg"]

Elements ==
  {OnTag(t, "src", {}) : t \in {"img", "video", "embed", "script", "iframe", "a"}}
  \cup {OnTag("img", "srcset", {}), OnTag("video", "poster", {}), OnTag("object", "data", {}),
        OnTag("object", "data", {"html"}), OnTag("input", "src", {"image"}), OnTag("input", "src", {})}
  \cup {Under(OnTag(t, a, {}), p) : t \in {"source", "track"}, a \in {"src", "srcset"}, p \in {"video", "picture"}}
  \cup {OnTag("script", "src", {t}) : t \in {"unterminated", "module", "other-type", "deferred"}}
  \cup {OnTag("link", "href", {"stylesheet"} \cup t) : t \in {{}, {"other-type"}, {"disabled"}, {"handler"}}}
  \cup {OnTag("link", "href", {t}) : t \in {"icon", "hint", "preload-style", "canonical"}}
  \cup {InSvg(OnTag(t, "href", {})) : t \in {"use", "script", "a"}}
  \cup {[OnTag(t, "src", {}) EXCEPT !.within = w] : t \in {"img", "a"}, w \in {"template", "srcdoc"}}
  \cup {[OnTag(t, "", {}) EXCEPT !.on = "script"] : t \in {"classic", "module", "importmap"}}

Slots(e, from) ==
  {e @@ [ref |-> Local(f, from)] : f \in {"pic", "big", "far", "gone"}}
  \cup {e @@ [ref |-> Ref(f, f, "pic", from)] : f \in Forms}
SheetSlots(from) ==
  {OnTag("link", "href", {"stylesheet"}) @@ [ref |-> Local(f, from)] : f \in DOMAIN MCAssets}
  \cup {[OnTag("style", "", t) EXCEPT !.on = "style", !.within = w] @@ [sheet |-> MCAssets[f].sheet] :
          f \in {"failing", "plain", "late", "fonts"}, t \in {{}, {"other-type"}}, w \in {"live", "template", "srcdoc"}}

(* Every element and form under every base; then sheets before and after   *)
(* an asset that takes part of the budget.                                 *)
MCExports ==
  UNION {LET base == RefBaseFromHref(h, "sub") IN
         {[base |-> base, slots |-> <<s>>] :
            s \in UNION {Slots(e, base.dir) : e \in Elements} \cup SheetSlots(base.dir)} : h \in Hrefs}
  \cup {[base |-> LocalBase("doc"), slots |-> <<p, s>>] :
          p \in Slots(OnTag("img", "src", {}), "doc") \cup SheetSlots("doc"), s \in SheetSlots("doc")}
============================================================================
