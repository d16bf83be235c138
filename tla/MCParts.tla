------------------------------ MODULE MCParts ------------------------------
(***************************************************************************)
(* Parts that share no state, side by side: a behaviour is one of one      *)
(* part, and the others stay as they are.  Calls of pure code are initial  *)
(* states.                                                                 *)
(***************************************************************************)
EXTENDS ArtifactCards, StateGc, AnchorResolution, HtmlWalk, MCExport, AssetServing

VARIABLE part

Parts == {"cards", "gc", "resolution", "walk", "export", "serving"}

partsVars == <<cardVars, gcVars, resolving, walked, exportVars, assetVars, part>>

(* Where a part does not run, it stays in one state. *)
CardsAside == doc = CHOOSE D \in Documents : TRUE
GcAside ==
  daemon = "none" /\ lock = "absent" /\ saved = "absent" /\ onDisk = {}

PartsInit ==
  /\ part \in Parts
  /\ (part # "cards" => CardsAside) /\ CardsInit
  /\ (part # "gc" => GcAside) /\ GcInit
  /\ IF part = "resolution" THEN ResolutionInit ELSE resolving = Case(<<"x">>, <<>>, WholeFile, "no")
  /\ IF part = "walk" THEN WalkInit ELSE walked = <<>>
  /\ (part # "export" => exporting = [base |-> LocalBase(DocumentDir), slots |-> <<>>])
  /\ (part = "export" => exporting \in Exports)
  /\ slot = 0 /\ bundle = NoBundle
  /\ (part # "serving" => asset = Closed) /\ (part = "serving" => asset \in FirstVersions)
  /\ copy = NoCopy /\ answer = NoAnswer /\ opened = Closed

(* The values of the constants. *)
At(start, stop) == [file |-> "f", start |-> start, stop |-> stop]
El(node, path, anchor, text, context) ==
  [node |-> node, path |-> path, anchor |-> anchor, text |-> text, context |-> context]
Twin1 == El(1, "p1", At(1, 3), "x", "c1")
Twin2 == El(2, "p2", At(2, 4), "x", "c2")
Picture == El(3, "p3", NoAnchor, "", "c1")
Chart == El(4, "p2", At(5, 6), "", "c2")
Same1 == El(5, "p4", NoAnchor, "z", "c1")
Same2 == El(6, "p4", NoAnchor, "z", "c1")
PartsDocuments == {{Twin1, Twin2, Picture}, {Chart, Same1, Same2}}
\* Of Twin1, Chart and Same2 nothing is ever asked.
PartsCited ==
  [e \in UNION PartsDocuments |->
    CASE e = Twin2 -> {e.anchor, At(4, 6)}
      [] e \in {Picture, Same1} -> {e.anchor}
      [] OTHER -> {}]

SmallFiles == UNION {[1 .. n -> {"x", ""}] : n \in 1 .. 3}
PartsInsertions == {<<>>, <<"x">>, <<"y">>}

Aside(p, vars) == part # p => UNCHANGED vars

PartsNext ==
  /\ part \in {"cards", "gc", "export", "serving"}
  /\ UNCHANGED <<part, resolving, walked>>
  /\ \/ part = "cards" /\ CardsNext
     \/ part = "gc" /\ GcNext
     \/ part = "export" /\ ExportNext
     \/ part = "serving" /\ AssetNext
  /\ Aside("cards", cardVars) /\ Aside("gc", gcVars) /\ Aside("export", exportVars)
  /\ Aside("serving", assetVars)

PartsSpec == PartsInit /\ [][PartsNext]_partsVars

----------------------------------------------------------------------------
(* The cards and the sweep have their types. *)
PartsTypeOK == CardsTypeOK /\ GcTypeOK
============================================================================
