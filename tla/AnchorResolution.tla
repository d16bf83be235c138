-------------------------- MODULE AnchorResolution --------------------------
(***************************************************************************)
(* What `resolve` (provenance/resolve.ts) says of one anchored region: the *)
(* refusals that come first, then drift.ts, which compares the file at the *)
(* anchor's revision with the file at HEAD, and relocate.ts, which looks   *)
(* for a region that is no longer where it was.                            *)
(*                                                                         *)
(* A file is a sequence of lines.  A hash is the normalised text it is of. *)
(* The diff between the two files is git's: hunks in the lines of the old  *)
(* one, from which the new one is built.  Each case is one call.           *)
(***************************************************************************)
EXTENDS Integers, FiniteSets, Sequences, SequencesExt, FiniteSetsExt

CONSTANTS
  OldFiles,    \* files as they were at the anchor's revision
  Insertions,  \* what an edit may put in
  SearchLimit, \* WINDOWED_SEARCH_WHOLE_FILE_LIMIT
  BudgetLines  \* FILE_LEVEL_MAX_LINES

(* splitLines makes at least one line of any text. *)
ASSUME ResolutionAssumption ==
  /\ OldFiles \subseteq Seq(STRING) \ {<<>>}
  /\ \E f \in OldFiles : \A g \in OldFiles : Len(g) <= Len(f)
  /\ Insertions \subseteq Seq(STRING)
  /\ SearchLimit \in Nat /\ BudgetLines \in Nat

VARIABLE resolving \* the call

Blank == ""
NoFile == <<"no file">>
NoRange == <<0, 0>>
WholeFile == <<0, 0>>

----------------------------------------------------------------------------
(* hash.ts: blank lines at either edge do not count. *)
Normalized(text) ==
  LET lines == {i \in DOMAIN text : text[i] # Blank} IN
  IF lines = {} THEN <<>> ELSE SubSeq(text, Min(lines), Max(lines))

Fits(range, file) == range[1] >= 1 /\ range[1] <= range[2] /\ range[2] <= Len(file)
Slice(file, range) == SubSeq(file, range[1], range[2])

(* git diff -U0: a hunk that only inserts names the line it comes after. *)
Kept(h) == IF h.del = 0 THEN h.start ELSE h.start - 1

ApplyHunk(file, h) ==
  SubSeq(file, 1, Kept(h)) \o h.ins \o SubSeq(file, Kept(h) + h.del + 1, Len(file))

(* From the last hunk to the first. *)
Edit(file, hunks) ==
  LET after[n \in 0 .. Len(hunks)] ==
        IF n = 0 THEN file ELSE ApplyHunk(after[n - 1], hunks[n])
  IN  after[Len(hunks)]

----------------------------------------------------------------------------
(* Stage A: the shift of the hunks before a region none of them touches,   *)
(* trusted when the hash confirms it.                                      *)
HunkOverlapsRange(h, range) ==
  IF h.del = 0
  THEN h.start >= range[1] /\ h.start < range[2]
  ELSE h.start <= range[2] /\ range[1] <= h.start + h.del - 1

Delta(hunks, range) ==
  FoldLeft(LAMBDA d, h : IF h.start < range[1] THEN d + Len(h.ins) - h.del ELSE d, 0, hunks)

TryStageA(hunks, new, range, hash) ==
  LET d == Delta(hunks, range)
      shifted == <<range[1] + d, range[2] + d>>
  IN  IF \/ \E h \in ToSet(hunks) : HunkOverlapsRange(h, range)
         \/ ~Fits(shifted, new)
         \/ Normalized(Slice(new, shifted)) # hash
      THEN NoRange
      ELSE shifted

(* Stage B: the same text elsewhere, then the window most like it. *)
SearchBounds(total, center) ==
  IF total <= SearchLimit
  THEN <<1, total>>
  ELSE LET from == Max({1, center - SearchLimit \div 2}) IN <<from, Min({total, from + SearchLimit})>>

(* The longest common subsequence, by the rows of its table. *)
LcsLength(a, b) ==
  LET Row(prev, x) ==
        FoldLeft(LAMBDA row, j :
                   Append(row, IF x = b[j] THEN (IF j = 1 THEN 0 ELSE prev[j - 1]) + 1
                               ELSE Max({prev[j], IF j = 1 THEN 0 ELSE row[j - 1]})),
                 <<>>, [j \in DOMAIN b |-> j])
      last == FoldLeft(Row, [j \in DOMAIN b |-> 0], a)
  IN  IF b = <<>> THEN 0 ELSE last[Len(b)]

(* A ratio, as numerator and denominator. *)
LineSimilarity(a, b) ==
  LET longer == Max({Len(a), Len(b)}) IN
  IF longer = 0 THEN <<1, 1>> ELSE <<LcsLength(a, b), longer>>

Above(s, t) == s[1] * t[2] > t[1] * s[2]
LostThreshold == <<3, 10>>

Windows(bounds, size) == {<<s, s + size - 1>> : s \in bounds[1] .. bounds[2] - size + 1}

(* Slip: the last window is left out. *)
ExactWindowsButLast(original, new, range, hash) ==
  LET bounds == SearchBounds(Len(new), range[1]) IN
  {w \in Windows(<<bounds[1], bounds[2] - 1>>, Len(original)) :
     Normalized(Slice(new, w)) = hash}

ExactWindows(original, new, range, hash) ==
  {w \in Windows(SearchBounds(Len(new), range[1]), Len(original)) :
     Normalized(Slice(new, w)) = hash}

FuzzyWindows(original, new, range) ==
  LET n == Len(original)
      bounds == SearchBounds(Len(new), range[1])
  IN  UNION {Windows(bounds, size) : size \in Max({1, (8 * n) \div 10}) .. (12 * n + 9) \div 10}

Scores(original, new, windows) == [w \in windows |-> LineSimilarity(original, Slice(new, w))]
Best(score) == {w \in DOMAIN score : \A v \in DOMAIN score : ~Above(score[v], score[w])}

(* Smaller windows come first, then earlier ones. *)
First(windows) ==
  CHOOSE w \in windows : \A v \in windows :
    \/ w[2] - w[1] < v[2] - v[1]
    \/ w[2] - w[1] = v[2] - v[1] /\ w[1] <= v[1]

Verdict(state, range, content) ==
  [state |-> state, range |-> range, content |-> content, eligible |-> FALSE]
NoContent == <<"no content">>
ContentAt(file, range) == IF Fits(range, file) THEN Slice(file, range) ELSE NoContent

Found(state, new, w) == Verdict(state, w, ContentAt(new, w))

Likeness(original, new, best) ==
  IF Above(LostThreshold, LineSimilarity(original, Slice(new, best)))
  THEN Verdict("lost", NoRange, NoContent)
  ELSE Found("touched", new, best)

SearchedFor(original, new, exact, fuzzy) ==
  CASE exact # {} -> Found("moved", new, First(exact))
    [] exact = {} /\ fuzzy = {} -> Verdict("lost", NoRange, NoContent)
    [] OTHER -> Likeness(original, new, First(Best(Scores(original, new, fuzzy))))

StageB(original, new, range, hash) ==
  SearchedFor(original, new, ExactWindows(original, new, range, hash),
              FuzzyWindows(original, new, range))

Shifted(old, new, range, hash, shifted) ==
  IF shifted # NoRange
  THEN Found("moved", new, shifted)
  ELSE StageB(SubSeq(old, range[1], Min({range[2], Len(old)})), new, range, hash)

RelocateWithinFile(hunks, old, new, range, hash) ==
  Shifted(old, new, range, hash, TryStageA(hunks, new, range, hash))

----------------------------------------------------------------------------
(* drift.ts. *)

(* A file that went away: to one other place, to several, or for good. *)
ClassifyMissingAtHead(rename, new, range, hash) ==
  CASE rename = "ambiguous" -> Verdict("cannot-determine", NoRange, NoContent)
    [] rename = "none" -> Verdict("lost", NoRange, NoContent)
    [] OTHER ->
         LET fits == range[1] >= 1 /\ range[2] <= Len(new) IN
         IF fits /\ Normalized(Slice(new, range)) = hash
         THEN Verdict("moved", range, Slice(new, range))
         ELSE Verdict("touched", range, IF fits THEN Slice(new, range) ELSE NoContent)

(* An anchor without a range is of the whole file as it was. *)
ResolveOriginalRange(old, range) == IF range = WholeFile THEN <<1, Len(old)>> ELSE range

Drift(c, range, new) ==
  IF c.gone # "no"
  THEN ClassifyMissingAtHead(c.gone, new, range, c.hash)
  ELSE IF Fits(range, new) /\ Normalized(Slice(new, range)) = c.hash
  THEN Verdict("unchanged", range, Slice(new, range))
  ELSE RelocateWithinFile(c.hunks, c.old, new, range, c.hash)

ClassifyDrift(c) == Drift(c, ResolveOriginalRange(c.old, c.range), Edit(c.old, c.hunks))

----------------------------------------------------------------------------
(* resolve.ts.  The working tree is the file at HEAD or an edit of it.     *)

Refused == Verdict("refused", NoRange, NoContent)
CannotDetermine == Verdict("cannot-determine", NoRange, NoContent)

ApplyBudget(file) ==
  IF Len(file) > BudgetLines THEN Append(SubSeq(file, 1, BudgetLines), "truncated") ELSE file

(* Without a hash, or without git, the working tree is served as it is; of *)
(* the two only the first has a budget.                                    *)
ServeFileLevel(c) ==
  IF c.path # "confined" THEN Refused
  ELSE IF c.tree = NoFile THEN Verdict("file-level", NoRange, NoContent)
  ELSE IF Fits(c.range, c.tree) THEN Verdict("file-level", c.range, Slice(c.tree, c.range))
  ELSE Verdict("file-level", NoRange, ApplyBudget(c.tree))

ServeNoGit(c) ==
  IF c.tree = NoFile THEN Verdict("no-git", NoRange, NoContent)
  ELSE IF Fits(c.range, c.tree) THEN Verdict("no-git", c.range, Slice(c.tree, c.range))
  ELSE Verdict("no-git", NoRange, c.tree)

CoreStates == {"unchanged", "moved", "touched", "lost"}

(* A path that is a submodule or lies in one, at either revision. *)
IsSubmodulePath(c) == c.submodule

(* Slip: a file with uncommitted changes is classified like any other. *)
TreeIsCleanOrUnknown(c) == c.tree # NoFile

(* `git hash-object` of the working tree against the blob at HEAD; a file  *)
(* that HEAD has not got is not checked.                                   *)
TreeIsClean(c) == c.gone # "no" \/ (c.tree = Edit(c.old, c.hunks) /\ ~c.hashFails)

Eligible(c, v) == [v EXCEPT !.eligible = c.pinned /\ v.state \in CoreStates]

ResolveGitPresent(c) ==
  IF ~c.reachable \/ ~c.head \/ IsSubmodulePath(c) \/ ~TreeIsClean(c)
  THEN CannotDetermine
  ELSE Eligible(c, ClassifyDrift(c))

Resolve(c) ==
  IF c.anchor = "none" THEN Verdict("unanchored", NoRange, NoContent)
  ELSE IF c.anchor = "no hash" THEN ServeFileLevel(c)
  ELSE IF c.path # "confined" THEN Refused
  ELSE IF ~c.git THEN ServeNoGit(c)
  ELSE ResolveGitPresent(c)

----------------------------------------------------------------------------
(* The cases: every small file and diff with everything else in order, and *)
(* one file and diff with everything that may be out of order.             *)

Hunk(s, d, i) == [start |-> s, del |-> d, ins |-> i]
HunksOf(file) ==
  {h \in [start : 0 .. Len(file), del : 0 .. Len(file), ins : Insertions] :
     /\ h.del > 0 => h.start >= 1 /\ h.start + h.del - 1 <= Len(file)
                     /\ SubSeq(file, h.start, h.start + h.del - 1) # h.ins
     /\ h.del = 0 => h.ins # <<>>}

(* Later hunks first, as Edit applies them; a second one goes in on top.   *)
Diffs(file) ==
  {<<>>} \cup {<<h>> : h \in HunksOf(file)}
         \cup {<<h, Hunk(0, 0, i)>> : h \in {g \in HunksOf(file) : g.start > 1}, i \in Insertions \ {<<>>}}

Ranges(file) == {r \in (1 .. Len(file)) \X (1 .. Len(file) + 1) : r[1] <= r[2]} \cup {WholeFile}

Case(old, hunks, range, gone) ==
  [old |-> old, hunks |-> hunks, range |-> range, gone |-> gone, anchor |-> "hash",
   hash |-> LET r == ResolveOriginalRange(old, range)
            IN  Normalized(SubSeq(old, r[1], Min({r[2], Len(old)}))),
   tree |-> IF gone = "no" THEN Edit(old, hunks) ELSE NoFile,
   path |-> "confined", git |-> TRUE, pinned |-> TRUE, reachable |-> TRUE, head |-> TRUE,
   submodule |-> FALSE, hashFails |-> FALSE]

DriftCases ==
  UNION { UNION { {Case(old, hunks, range, gone) : hunks \in Diffs(old)} : range \in Ranges(old) } :
          old \in OldFiles, gone \in {"no", "single"} }

LongestFile == CHOOSE f \in OldFiles : \A g \in OldFiles : Len(g) <= Len(f)

OutOfOrder ==
  LET c == Case(LongestFile, <<Hunk(1, 1, <<"z">>)>>, <<1, 1>>, "no")
  IN  [old : {c.old}, hunks : {c.hunks}, range : {c.range}, hash : {c.hash}, head : {TRUE},
       gone : {"no", "none", "ambiguous"}, anchor : {"none", "no hash", "hash"},
       tree : {NoFile, c.old, c.tree}, path : {"confined", "escapes"},
       git : BOOLEAN, pinned : BOOLEAN, reachable : BOOLEAN, submodule : BOOLEAN,
       hashFails : BOOLEAN]

ResolutionInit == resolving \in DriftCases \cup OutOfOrder

----------------------------------------------------------------------------
VerdictIsTrue(c, v, new, searched) ==
  /\ v.state \in {"unchanged", "moved"} =>
       Fits(v.range, new) /\ v.content = Slice(new, v.range) /\ Normalized(v.content) = c.hash
  /\ v.state \in {"touched", "lost"} /\ c.gone = "no" =>
       \A w \in searched : Normalized(Slice(new, w)) # c.hash
  /\ v.eligible => /\ c.pinned /\ c.reachable /\ ~c.submodule /\ c.path = "confined" /\ c.git
                   /\ c.gone = "no" => c.tree = new

SearchedLines(c, new, range) ==
  {w \in Windows(SearchBounds(Len(new), range[1]), Min({range[2], Len(c.old)}) - range[1] + 1) :
     Fits(w, new)}

(* Verdicts are true: "unchanged" and "moved" show a region with the text  *)
(* that was anchored, and "touched" and "lost" are said only when that     *)
(* text is nowhere in the lines that are searched, across every diff and   *)
(* rename; a verdict counts for staleness only for a pinned region of a    *)
(* reachable revision in a clean file outside submodules.                  *)
VerdictsHold ==
  LET c == resolving
      new == Edit(c.old, c.hunks)
  IN  VerdictIsTrue(c, Resolve(c), new, SearchedLines(c, new, ResolveOriginalRange(c.old, c.range)))

============================================================================
