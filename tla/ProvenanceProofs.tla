-------------------------- MODULE ProvenanceProofs --------------------------
(***************************************************************************)
(* Theorems about what looks at the sources: FindingsScan, for any         *)
(* regions, commits and budgets, and any number of incarnations; and       *)
(* GitPool, for any lookups, processes and faults.                         *)
(***************************************************************************)
EXTENDS FindingsScan, GitPool, SequenceTheorems, TLAPS

----------------------------------------------------------------------------
(***************************************************************************)
(* Scanning for staleness.                                                 *)
(***************************************************************************)

Dismissal ==
  [at : {"lock", "write"}, via : Incarnation \cup {Nobody}, fingerprint : Fingerprint,
   read : [Fingerprint -> Finding]]

ScanBudget == [starts : Nat, changes : Nat, faults : Nat, dismissals : Nat]

(* What the type invariant leaves open: the store's copies, the requests,  *)
(* and that there are no more incarnations than the budget allows.         *)
RestTypeOK ==
  /\ owed \subseteq Incarnation
  /\ copy \in [Incarnation -> [Fingerprint -> Finding]]
  /\ dismissal \in [Request -> Dismissal \cup {NoDismissal}]

Affordable ==
  /\ left \in ScanBudget
  /\ born \in Nat /\ born + left.starts <= MaxStarts

TypeInv == ScanTypeOK /\ RestTypeOK /\ Affordable

(* Only the tracked incarnation watches. *)
TrackedWatches ==
  \A i \in Incarnation :
     /\ dirs[i] # {} \/ i \in armed => Live(i)
     /\ Live(i) => i = tracked

(* What came after a pass began is waited for: word is left, or the next   *)
(* pass has begun and not read yet.                                        *)
TriggersWait ==
  \A i \in Incarnation : i \in owed =>
     loop[i] = "read" \/ (loop[i] \in Running /\ i \in requested)

(* Short of the excuses one instance works on the file, and its mutex      *)
(* keeps scan and dismissals apart: whoever is inside has the file.        *)
OneInstance ==
  excuse = "none" =>
    /\ \A i \in Incarnation : loop[i] \in Running => i = tracked
    /\ \A r \in UnderWay : dismissal[r].via = tracked \/ tracked = Nobody
    /\ \A q, r \in UnderWay : q # r => /\ dismissal[q].via = dismissal[r].via
                                       /\ dismissal[q].via # Nobody

Writing(r) == dismissal[r].at = "write"

MutexKeeps ==
  excuse = "none" =>
    /\ \A i \in Incarnation :
          /\ holder[i] = "scan" <=> loop[i] = "apply"
          /\ loop[i] = "apply" => copy[i] = findings
          /\ \A r \in Request : holder[i] = r <=> Writing(r) /\ dismissal[r].via = i
    /\ \A r \in Request : Writing(r) => dismissal[r].read = findings

ScanInv == TypeInv /\ TrackedWatches /\ TriggersWait /\ OneInstance /\ MutexKeeps

-----------------------------------------------------------------------------
(* What the helpers return *)
LEMMA ReducersTyped ==
  ASSUME NEW store \in [Fingerprint -> Finding], NEW i \in Incarnation, revision[i] \in Revision
  PROVE  ApplyScanObservations(store, i) \in [Fingerprint -> Finding]
<1> SUFFICES ASSUME NEW f \in Fingerprint PROVE ApplyScanObservations(store, i)[f] \in Finding
  BY DEF ApplyScanObservations
<1>1. RecordDetection(store[f], revision[i]) \in Finding
  BY DEF RecordDetection, Open, Finding
<1>2. RecordAbsence(store[f], revision[i]) \in Finding
  BY DEF RecordAbsence, Finding
<1> QED
  BY <1>1, <1>2 DEF ApplyScanObservations

-----------------------------------------------------------------------------
(* The initial state *)
LEMMA ScanInitInv == ScanInit => ScanInv
<1> SUFFICES ASSUME ScanInit PROVE ScanInv
  OBVIOUS
<1>1. NoFindings \in [Fingerprint -> Finding]
  BY DEF NoFindings, NoFinding, Finding
<1>2. ScanTypeOK
  BY <1>1, ScanAssumption
  DEF ScanInit, ScanTypeOK, Finding, NoDismissal, Unpinned, Unclassified, Revision, Nobody
<1>3. left \in [starts : 0 .. MaxStarts, changes : Nat, faults : Nat, dismissals : Nat]
  BY ScanAssumption DEF ScanInit
<1>4. TypeInv
  BY <1>1, <1>2, <1>3, ScanAssumption DEF TypeInv, RestTypeOK, Affordable, ScanInit, ScanBudget
<1>5. UnderWay = {} /\ \A r \in Request : ~Writing(r)
  BY DEF ScanInit, UnderWay, Writing, NoDismissal
<1>6. \A i \in Incarnation : holder[i] = "none" /\ loop[i] = "none"
  BY DEF ScanInit
<1>7. "none" \notin Request
  BY ScanAssumption
<1>8. TrackedWatches /\ TriggersWait /\ OneInstance
  BY <1>5, <1>6 DEF ScanInit, TrackedWatches, Live, TriggersWait, OneInstance, Running
<1>9. MutexKeeps
  BY <1>5, <1>6, <1>7 DEF MutexKeeps
<1> QED
  BY <1>4, <1>8, <1>9 DEF ScanInv

LEMMA Spent ==
  ASSUME TypeInv, NEW what \in {"starts", "changes", "faults", "dismissals"}, Spend(what),
         born' = born
  PROVE  Affordable'
<1>1. CASE what = "starts"
  BY <1>1, ScanAssumption DEF TypeInv, RestTypeOK, Affordable, ScanBudget, Spend
<1>2. CASE what = "changes"
  BY <1>2, ScanAssumption DEF TypeInv, RestTypeOK, Affordable, ScanBudget, Spend
<1>3. CASE what = "faults"
  <2>1. left' \in ScanBudget /\ left'.starts = left.starts /\ left.starts \in Nat
    BY <1>3 DEF TypeInv, RestTypeOK, Affordable, ScanBudget, Spend
  <2> QED
    BY <2>1, ScanAssumption DEF TypeInv, RestTypeOK, Affordable
<1>4. CASE what = "dismissals"
  <2>1. left' \in ScanBudget /\ left'.starts = left.starts /\ left.starts \in Nat
    BY <1>4 DEF TypeInv, Affordable, ScanBudget, Spend
  <2> QED
    BY <2>1, ScanAssumption DEF TypeInv, Affordable
<1> QED
  BY <1>1, <1>2, <1>3, <1>4

LEMMA Started ==
  ASSUME TypeInv, Spend("starts")
  PROVE  /\ left' \in ScanBudget
         /\ born + 1 \in Incarnation /\ born + 1 \in Nat
         /\ (born + 1) + left'.starts <= MaxStarts
<1>1. left' \in ScanBudget /\ left'.starts = left.starts - 1 /\ left.starts \in Nat \ {0}
  BY DEF TypeInv, RestTypeOK, Affordable, ScanBudget, Spend
<1> QED
  BY <1>1, ScanAssumption DEF TypeInv, RestTypeOK, Affordable, Incarnation

LEMMA FindingsTyped ==
  ASSUME TypeInv
  PROVE  /\ findings \in [Fingerprint -> Finding]
         /\ NoFindings \in [Fingerprint -> Finding]
  BY DEF TypeInv, RestTypeOK, Affordable, ScanTypeOK, Finding, NoFindings, NoFinding

LEMMA DismissFindingTyped ==
  ASSUME NEW f \in Finding
  PROVE  DismissFinding(f) \in Finding
  BY DEF DismissFinding, Finding

LEMMA ClassAtTyped ==
  ASSUME NEW c, NEW pin, NEW a
  PROVE  ClassAt(c, pin, a) \in Class
  BY DEF ClassAt, Class

LEMMA RequestMovesOn ==
  ASSUME TypeInv, NEW r \in Request, DismissReads(r)
  PROVE  dismissal' \in [Request -> Dismissal \cup {NoDismissal}]
<1>1. dismissal \in [Request -> Dismissal \cup {NoDismissal}] /\ dismissal[r] \in Dismissal
  BY DEF TypeInv, RestTypeOK, NoDismissal, DismissReads
<1>2. [dismissal[r] EXCEPT !.at = "write", !.read = findings] \in Dismissal
  BY <1>1, FindingsTyped DEF Dismissal
<1>3. dismissal' = [dismissal EXCEPT ![r] = [dismissal[r] EXCEPT !.at = "write", !.read = findings]]
  BY <1>1 DEF DismissReads
<1> QED
  BY <1>1, <1>2, <1>3

LEMMA RequestIsMade ==
  ASSUME TypeInv, NEW r \in Request, NEW f \in Fingerprint, Dismiss(r, f)
  PROVE  /\ dismissal' \in [Request -> Dismissal \cup {NoDismissal}]
         /\ dismissal[r].at = "none"
         /\ dismissal'[r].at = "lock" /\ dismissal'[r].via = tracked
         /\ \A q \in Request \ {r} : dismissal'[q] = dismissal[q]
<1> DEFINE made == [at |-> "lock", via |-> tracked, fingerprint |-> f, read |-> NoFindings]
<1>1. dismissal \in [Request -> Dismissal \cup {NoDismissal}]
  BY DEF TypeInv, RestTypeOK
<1>2. made \in Dismissal
  BY FindingsTyped DEF Dismissal, TypeInv, ScanTypeOK
<1>3. dismissal' = [dismissal EXCEPT ![r] = made] /\ dismissal[r].at = "none"
  BY DEF Dismiss, BeginDismissal
<1> QED
  BY <1>1, <1>2, <1>3

LEMMA HeadIsARevision ==
  ASSUME TypeInv
  PROVE  head \in Revision /\ 0 \in Revision
  BY ScanAssumption DEF TypeInv, RestTypeOK, Affordable, ScanTypeOK, Revision

LEMMA PassEndsTyped ==
  ASSUME TypeInv, NEW i \in Incarnation, PassEnds(i)
  PROVE  /\ loop' \in [Incarnation -> {"none", "idle"} \cup Running]
         /\ requested' \subseteq Incarnation
         /\ inputs' \in [Incarnation -> [Anchor -> Revision]]
         /\ class' \in [Incarnation -> [Anchor -> Class \cup {"todo"}]]
         /\ revision' \in [Incarnation -> Revision]
<1>1. Unpinned \in [Anchor -> Revision] /\ Unclassified \in [Anchor -> Class \cup {"todo"}]
  BY HeadIsARevision DEF Unpinned, Unclassified
<1> QED
  BY <1>1, HeadIsARevision DEF PassEnds, Forget, TypeInv, ScanTypeOK, Running

-----------------------------------------------------------------------------
(* Types, one step per action *)
LEMMA TypeStep ==
  TypeInv /\ [ScanNext]_scanVars => TypeInv'
<1> SUFFICES ASSUME TypeInv, [ScanNext]_scanVars PROVE TypeInv'
  OBVIOUS
<1> USE DEF source, looping, watching, storing, registry, TypeInv, RestTypeOK, Affordable,
            ScanTypeOK, Running
<1>1. ASSUME NEW i \in Incarnation, DebounceFires(i) PROVE TypeInv'
  <2>1. Affordable'
    BY <1>1 DEF DebounceFires
  <2>2. ScanTypeOK'
    BY <1>1 DEF DebounceFires, Trigger
  <2>3. RestTypeOK'
    BY <1>1 DEF DebounceFires, Trigger
  <2> QED
    BY <2>1, <2>2, <2>3
<1>2. ASSUME NEW i \in Incarnation, Reconcile(i) PROVE TypeInv'
  <2>1. Affordable'
    BY <1>2 DEF Reconcile
  <2>2. ScanTypeOK'
    BY <1>2 DEF Reconcile, Trigger
  <2>3. RestTypeOK'
    BY <1>2 DEF Reconcile, Trigger
  <2> QED
    BY <2>1, <2>2, <2>3
<1>3. ASSUME NEW i \in Incarnation, WatchFails(i) PROVE TypeInv'
  <2>1. Affordable'
    BY <1>3, Spent DEF WatchFails, Fault
  <2>2. ScanTypeOK'
    BY <1>3 DEF WatchFails
  <2>3. RestTypeOK'
    BY <1>3 DEF WatchFails
  <2> QED
    BY <2>1, <2>2, <2>3
<1>4. ASSUME NEW i \in Incarnation, ReadArtifact(i) PROVE TypeInv'
  <2>1. Affordable'
    BY <1>4 DEF ReadArtifact
  <2>2. ScanTypeOK'
    BY <1>4 DEF ReadArtifact, Class
  <2>3. RestTypeOK'
    BY <1>4 DEF ReadArtifact, Class
  <2> QED
    BY <2>1, <2>2, <2>3
<1>5. ASSUME NEW i \in Incarnation, ReadArtifactFails(i) PROVE TypeInv'
  <2>1. Affordable'
    BY <1>5, Spent DEF ReadArtifactFails, Fault
  <2>2. ScanTypeOK'
    BY <1>5, PassEndsTyped DEF ReadArtifactFails
  <2>3. RestTypeOK'
    BY <1>5 DEF ReadArtifactFails
  <2> QED
    BY <2>1, <2>2, <2>3
<1>6. ASSUME NEW i \in Incarnation, NEW a \in Anchor, Classify(i, a) PROVE TypeInv'
  <2>1. Affordable'
    BY <1>6, Spent DEF Classify, Fault, NoFault
  <2>2. class' \in [Incarnation -> [Anchor -> Class \cup {"todo"}]]
    <3>1. PICK c \in Class : class' = [class EXCEPT ![i][a] = c]
      BY <1>6, ClassAtTyped DEF Classify, Class
    <3> QED
      BY <3>1
  <2>3. ScanTypeOK'
    BY <1>6, <2>2 DEF Classify
  <2>4. RestTypeOK'
    BY <1>6 DEF Classify
  <2> QED
    BY <2>1, <2>3, <2>4
<1>7. ASSUME NEW i \in Incarnation, ReadHeadRevision(i) PROVE TypeInv'
  <2>1. Affordable'
    BY <1>7, Spent DEF ReadHeadRevision, Fault, NoFault
  <2>2. ScanTypeOK'
    BY <1>7, HeadIsARevision DEF ReadHeadRevision
  <2>3. RestTypeOK'
    BY <1>7 DEF ReadHeadRevision, Revision
  <2> QED
    BY <2>1, <2>2, <2>3
<1>8. ASSUME NEW i \in Incarnation, ScanReads(i) PROVE TypeInv'
  <2>1. Affordable'
    BY <1>8 DEF ScanReads
  <2>2. ScanTypeOK'
    BY <1>8 DEF ScanReads, Finding
  <2>3. RestTypeOK'
    BY <1>8 DEF ScanReads, Finding
  <2> QED
    BY <2>1, <2>2, <2>3
<1>9. ASSUME NEW i \in Incarnation, ScanWrites(i) PROVE TypeInv'
  <2>1. Affordable'
    BY <1>9 DEF ScanWrites
  <2>2. ScanTypeOK'
    BY <1>9, ReducersTyped DEF ScanWrites, Finding
  <2>3. RestTypeOK'
    BY <1>9, FindingsTyped DEF ScanWrites
  <2> QED
    BY <2>1, <2>2, <2>3
<1>10. ASSUME NEW i \in Incarnation, ScanWriteFails(i) PROVE TypeInv'
  <2>1. Affordable'
    BY <1>10, Spent DEF ScanWriteFails, Fault
  <2>2. ScanTypeOK'
    BY <1>10, PassEndsTyped DEF ScanWriteFails
  <2>3. RestTypeOK'
    BY <1>10, FindingsTyped DEF ScanWriteFails
  <2> QED
    BY <2>1, <2>2, <2>3
<1>11. ASSUME NEW i \in Incarnation, Rewatch(i) PROVE TypeInv'
  <2>1. Affordable'
    BY <1>11, Spent DEF Rewatch, Fault, NoFault
  <2>2. dirs' \in [Incarnation -> SUBSET Anchor]
    BY <1>11 DEF Rewatch
  <2>3. ScanTypeOK'
    BY <1>11, <2>2, PassEndsTyped DEF Rewatch
  <2>4. RestTypeOK'
    BY <1>11 DEF Rewatch
  <2> QED
    BY <2>1, <2>3, <2>4
<1>12. CASE StartForSession
  <2>1. /\ left' \in ScanBudget /\ born' = born + 1
        /\ born + 1 \in Incarnation /\ born + 1 \in Nat
        /\ (born + 1) + left'.starts <= MaxStarts
    BY <1>12, Started DEF StartForSession
  <2>2. ScanTypeOK'
    BY <1>12, <2>1 DEF StartForSession
  <2> QED
    BY <1>12, <2>1, <2>2, ZenonT(30) DEF StartForSession
<1>13. CASE StopForSession
  <2>1. Affordable'
    BY <1>13 DEF StopForSession
  <2>2. ScanTypeOK'
    BY <1>13 DEF StopForSession, Nobody
  <2>3. RestTypeOK'
    BY <1>13 DEF StopForSession, Nobody
  <2> QED
    BY <2>1, <2>2, <2>3
<1>14. ASSUME NEW r \in Request, NEW f \in Fingerprint, Dismiss(r, f) PROVE TypeInv'
  <2>1. Affordable'
    BY <1>14, Spent DEF Dismiss, BeginDismissal
  <2>2. dismissal' \in [Request -> Dismissal \cup {NoDismissal}]
    BY <1>14, RequestIsMade
  <2>3. \A q \in Request : dismissal'[q].at \in {"none", "lock", "write"}
    BY <2>2 DEF Dismissal, NoDismissal
  <2>4. ScanTypeOK'
    BY <1>14, <2>3 DEF Dismiss, BeginDismissal
  <2>5. RestTypeOK'
    BY <1>14, <2>2 DEF Dismiss, BeginDismissal
  <2> QED
    BY <2>1, <2>4, <2>5
<1>15. ASSUME NEW r \in Request, DismissReads(r) PROVE TypeInv'
  <2>1. Affordable'
    BY <1>15 DEF DismissReads
  <2>2. dismissal' \in [Request -> Dismissal \cup {NoDismissal}]
    BY <1>15, RequestMovesOn
  <2>3. \A q \in Request : dismissal'[q].at \in {"none", "lock", "write"}
    BY <2>2 DEF Dismissal, NoDismissal
  <2>4. ScanTypeOK'
    BY <1>15, <2>3 DEF DismissReads, Hold
  <2>5. RestTypeOK'
    BY <1>15, <2>2 DEF DismissReads
  <2> QED
    BY <2>1, <2>4, <2>5
<1>16. ASSUME NEW r \in Request, DismissWrites(r) PROVE TypeInv'
  <2>1. Affordable'
    BY <1>16, Spent DEF DismissWrites, Fault, NoFault
  <2>2. findings' \in [Fingerprint -> Finding]
    <3>1. /\ dismissal[r].read \in [Fingerprint -> Finding]
          /\ dismissal[r].fingerprint \in Fingerprint
      BY <1>16 DEF DismissWrites, Dismissal, NoDismissal
    <3>2. CASE UNCHANGED findings
      BY <3>2, FindingsTyped
    <3>3. CASE findings' = [dismissal[r].read EXCEPT ![dismissal[r].fingerprint] =
                              DismissFinding(dismissal[r].read[dismissal[r].fingerprint])]
      BY <3>1, <3>3, DismissFindingTyped
    <3> QED
      BY <1>16, <3>2, <3>3 DEF DismissWrites
  <2>3. /\ dismissal' \in [Request -> Dismissal \cup {NoDismissal}]
        /\ \A q \in Request : dismissal'[q].at \in {"none", "lock", "write"}
    BY <1>16 DEF DismissWrites, NoDismissal, Dismissal
  <2>4. ScanTypeOK'
    BY <1>16, <2>2, <2>3 DEF DismissWrites, Hold, Finding
  <2>5. RestTypeOK'
    BY <1>16, <2>3, FindingsTyped DEF DismissWrites
  <2> QED
    BY <2>1, <2>4, <2>5
<1>17. ASSUME NEW a \in Anchor, Edit(a) PROVE TypeInv'
  <2>1. Affordable'
    BY <1>17, Spent DEF Edit, Change
  <2>2. ScanTypeOK'
    BY <1>17 DEF Edit, WatchEvent
  <2>3. RestTypeOK'
    BY <1>17 DEF Edit, WatchEvent
  <2> QED
    BY <2>1, <2>2, <2>3
<1>18. ASSUME NEW a \in Anchor, Regenerate(a) PROVE TypeInv'
  <2>1. Affordable'
    BY <1>18, Spent DEF Regenerate, Change
  <2>2. ScanTypeOK'
    BY <1>18 DEF Regenerate, Revision
  <2>3. RestTypeOK'
    BY <1>18 DEF Regenerate, Revision
  <2> QED
    BY <2>1, <2>2, <2>3
<1>19. ASSUME NEW c \in DOMAIN History, Commit(c) PROVE TypeInv'
  <2>1. Affordable'
    BY <1>19, Spent DEF Commit, Change
  <2>2. ScanTypeOK'
    BY <1>19, ScanAssumption DEF Commit
  <2>3. RestTypeOK'
    BY <1>19 DEF Commit
  <2> QED
    BY <2>1, <2>2, <2>3
<1>20. ASSUME NEW c \in DOMAIN History, Checkout(c) PROVE TypeInv'
  <2>1. Affordable'
    BY <1>20, Spent DEF Checkout, Change
  <2>2. ScanTypeOK'
    BY <1>20, ScanAssumption DEF Checkout, WatchEvent
  <2>3. RestTypeOK'
    BY <1>20 DEF Checkout, WatchEvent
  <2> QED
    BY <2>1, <2>2, <2>3
<1>21. CASE UNCHANGED scanVars
  BY <1>21 DEF scanVars
<1> QED
  BY <1>1, <1>2, <1>3, <1>4, <1>5, <1>6, <1>7, <1>8, <1>9, <1>10, <1>11,
     <1>12, <1>13, <1>14, <1>15, <1>16, <1>17, <1>18, <1>19, <1>20, <1>21 DEF
     ScanNext, Pass

LEMMA NobodyIsNone == Nobody \notin Incarnation
  BY ScanAssumption DEF Nobody, Incarnation

-----------------------------------------------------------------------------
(* The watcher *)
LEMMA WatchStep ==
  TypeInv /\ TrackedWatches /\ [ScanNext]_scanVars => TrackedWatches'
<1> SUFFICES ASSUME TypeInv /\ TrackedWatches, [ScanNext]_scanVars PROVE TrackedWatches'
  OBVIOUS
<1> USE DEF source, looping, watching, storing, registry, TypeInv, RestTypeOK, Affordable,
            ScanTypeOK, TrackedWatches, Live
<1>1. ASSUME NEW i \in Incarnation, DebounceFires(i) PROVE TrackedWatches'
  BY <1>1 DEF DebounceFires, Trigger
<1>2. ASSUME NEW i \in Incarnation, Reconcile(i) PROVE TrackedWatches'
  BY <1>2 DEF Reconcile, Trigger
<1>3. ASSUME NEW i \in Incarnation, WatchFails(i) PROVE TrackedWatches'
  BY <1>3 DEF WatchFails, Fault, Spend
<1>4. ASSUME NEW i \in Incarnation, ReadArtifact(i) PROVE TrackedWatches'
  BY <1>4 DEF ReadArtifact
<1>5. ASSUME NEW i \in Incarnation, ReadArtifactFails(i) PROVE TrackedWatches'
  BY <1>5 DEF ReadArtifactFails, PassEnds, Forget, Fault, Spend
<1>6. ASSUME NEW i \in Incarnation, NEW a \in Anchor, Classify(i, a) PROVE TrackedWatches'
  BY <1>6 DEF Classify, ClassAt, Fault, NoFault, Spend
<1>7. ASSUME NEW i \in Incarnation, ReadHeadRevision(i) PROVE TrackedWatches'
  BY <1>7 DEF ReadHeadRevision, Fault, NoFault, Spend
<1>8. ASSUME NEW i \in Incarnation, ScanReads(i) PROVE TrackedWatches'
  BY <1>8 DEF ScanReads
<1>9. ASSUME NEW i \in Incarnation, ScanWrites(i) PROVE TrackedWatches'
  BY <1>9 DEF ScanWrites
<1>10. ASSUME NEW i \in Incarnation, ScanWriteFails(i) PROVE TrackedWatches'
  BY <1>10 DEF ScanWriteFails, PassEnds, Forget, Fault, Spend
<1>11. ASSUME NEW i \in Incarnation, Rewatch(i) PROVE TrackedWatches'
  BY <1>11 DEF Rewatch, PassEnds, Forget, Fault, NoFault, Spend
<1>12. CASE StartForSession
  BY <1>12, NobodyIsNone DEF StartForSession, Spend
<1>13. CASE StopForSession
  BY <1>13 DEF StopForSession
<1>14. ASSUME NEW r \in Request, NEW f \in Fingerprint, Dismiss(r, f) PROVE TrackedWatches'
  BY <1>14 DEF Dismiss, BeginDismissal, Spend
<1>15. ASSUME NEW r \in Request, DismissReads(r) PROVE TrackedWatches'
  BY <1>15 DEF DismissReads, Hold
<1>16. ASSUME NEW r \in Request, DismissWrites(r) PROVE TrackedWatches'
  BY <1>16 DEF DismissWrites, Hold, Fault, NoFault, Spend
<1>17. ASSUME NEW a \in Anchor, Edit(a) PROVE TrackedWatches'
  BY <1>17 DEF Edit, Change, Spend, WatchEvent
<1>18. ASSUME NEW a \in Anchor, Regenerate(a) PROVE TrackedWatches'
  BY <1>18 DEF Regenerate, Change, Spend
<1>19. ASSUME NEW c \in DOMAIN History, Commit(c) PROVE TrackedWatches'
  BY <1>19 DEF Commit, Change, Spend
<1>20. ASSUME NEW c \in DOMAIN History, Checkout(c) PROVE TrackedWatches'
  BY <1>20 DEF Checkout, Change, Spend, WatchEvent
<1>21. CASE UNCHANGED scanVars
  BY <1>21 DEF scanVars
<1> QED
  BY <1>1, <1>2, <1>3, <1>4, <1>5, <1>6, <1>7, <1>8, <1>9, <1>10, <1>11,
     <1>12, <1>13, <1>14, <1>15, <1>16, <1>17, <1>18, <1>19, <1>20, <1>21 DEF
     ScanNext, Pass

-----------------------------------------------------------------------------
(* The triggers *)
LEMMA TriggersStep ==
  TypeInv /\ TriggersWait /\ [ScanNext]_scanVars => TriggersWait'
<1> SUFFICES ASSUME TypeInv /\ TriggersWait, [ScanNext]_scanVars PROVE TriggersWait'
  OBVIOUS
<1> USE DEF source, looping, watching, storing, registry, TypeInv, RestTypeOK, Affordable,
            ScanTypeOK, TriggersWait, Running
<1>1. ASSUME NEW i \in Incarnation, DebounceFires(i) PROVE TriggersWait'
  BY <1>1 DEF DebounceFires, Trigger
<1>2. ASSUME NEW i \in Incarnation, Reconcile(i) PROVE TriggersWait'
  BY <1>2 DEF Reconcile, Trigger
<1>3. ASSUME NEW i \in Incarnation, WatchFails(i) PROVE TriggersWait'
  BY <1>3 DEF WatchFails, Fault, Spend
<1>4. ASSUME NEW i \in Incarnation, ReadArtifact(i) PROVE TriggersWait'
  BY <1>4 DEF ReadArtifact
<1>5. ASSUME NEW i \in Incarnation, ReadArtifactFails(i) PROVE TriggersWait'
  BY <1>5 DEF ReadArtifactFails, PassEnds, Forget, Fault, Spend
<1>6. ASSUME NEW i \in Incarnation, NEW a \in Anchor, Classify(i, a) PROVE TriggersWait'
  BY <1>6 DEF Classify, ClassAt, Fault, NoFault, Spend
<1>7. ASSUME NEW i \in Incarnation, ReadHeadRevision(i) PROVE TriggersWait'
  BY <1>7 DEF ReadHeadRevision, Fault, NoFault, Spend
<1>8. ASSUME NEW i \in Incarnation, ScanReads(i) PROVE TriggersWait'
  BY <1>8 DEF ScanReads
<1>9. ASSUME NEW i \in Incarnation, ScanWrites(i) PROVE TriggersWait'
  BY <1>9 DEF ScanWrites
<1>10. ASSUME NEW i \in Incarnation, ScanWriteFails(i) PROVE TriggersWait'
  BY <1>10 DEF ScanWriteFails, PassEnds, Forget, Fault, Spend
<1>11. ASSUME NEW i \in Incarnation, Rewatch(i) PROVE TriggersWait'
  BY <1>11 DEF Rewatch, PassEnds, Forget, Fault, NoFault, Spend
<1>12. CASE StartForSession
  BY <1>12 DEF StartForSession, Spend
<1>13. CASE StopForSession
  BY <1>13 DEF StopForSession
<1>14. ASSUME NEW r \in Request, NEW f \in Fingerprint, Dismiss(r, f) PROVE TriggersWait'
  BY <1>14 DEF Dismiss, BeginDismissal, Spend
<1>15. ASSUME NEW r \in Request, DismissReads(r) PROVE TriggersWait'
  BY <1>15 DEF DismissReads, Hold
<1>16. ASSUME NEW r \in Request, DismissWrites(r) PROVE TriggersWait'
  BY <1>16 DEF DismissWrites, Hold, Fault, NoFault, Spend
<1>17. ASSUME NEW a \in Anchor, Edit(a) PROVE TriggersWait'
  BY <1>17 DEF Edit, Change, Spend, WatchEvent
<1>18. ASSUME NEW a \in Anchor, Regenerate(a) PROVE TriggersWait'
  BY <1>18 DEF Regenerate, Change, Spend
<1>19. ASSUME NEW c \in DOMAIN History, Commit(c) PROVE TriggersWait'
  BY <1>19 DEF Commit, Change, Spend
<1>20. ASSUME NEW c \in DOMAIN History, Checkout(c) PROVE TriggersWait'
  BY <1>20 DEF Checkout, Change, Spend, WatchEvent
<1>21. CASE UNCHANGED scanVars
  BY <1>21 DEF scanVars
<1> QED
  BY <1>1, <1>2, <1>3, <1>4, <1>5, <1>6, <1>7, <1>8, <1>9, <1>10, <1>11,
     <1>12, <1>13, <1>14, <1>15, <1>16, <1>17, <1>18, <1>19, <1>20, <1>21 DEF
     ScanNext, Pass

-----------------------------------------------------------------------------
(* The instances of the store and their mutexes *)
LEMMA OneInstanceStep ==
  TypeInv /\ TrackedWatches /\ OneInstance /\ [ScanNext]_scanVars => OneInstance'
<1> SUFFICES ASSUME TypeInv /\ TrackedWatches /\ OneInstance, [ScanNext]_scanVars
             PROVE  OneInstance'
  OBVIOUS
<1> USE DEF source, looping, watching, storing, registry, TypeInv, RestTypeOK, Affordable,
            ScanTypeOK, TrackedWatches, OneInstance, UnderWay, Running, NoDismissal, Dismissal
<1>1. ASSUME NEW i \in Incarnation, DebounceFires(i) PROVE OneInstance'
  BY <1>1 DEF DebounceFires, Trigger
<1>2. ASSUME NEW i \in Incarnation, Reconcile(i) PROVE OneInstance'
  BY <1>2 DEF Reconcile, Trigger
<1>3. ASSUME NEW i \in Incarnation, WatchFails(i) PROVE OneInstance'
  BY <1>3 DEF WatchFails, Fault, Spend
<1>4. ASSUME NEW i \in Incarnation, ReadArtifact(i) PROVE OneInstance'
  BY <1>4 DEF ReadArtifact
<1>5. ASSUME NEW i \in Incarnation, ReadArtifactFails(i) PROVE OneInstance'
  BY <1>5 DEF ReadArtifactFails, PassEnds, Forget, Fault, Spend
<1>6. ASSUME NEW i \in Incarnation, NEW a \in Anchor, Classify(i, a) PROVE OneInstance'
  BY <1>6 DEF Classify, ClassAt, Fault, NoFault, Spend
<1>7. ASSUME NEW i \in Incarnation, ReadHeadRevision(i) PROVE OneInstance'
  BY <1>7 DEF ReadHeadRevision, Fault, NoFault, Spend
<1>8. ASSUME NEW i \in Incarnation, ScanReads(i) PROVE OneInstance'
  BY <1>8 DEF ScanReads
<1>9. ASSUME NEW i \in Incarnation, ScanWrites(i) PROVE OneInstance'
  BY <1>9 DEF ScanWrites
<1>10. ASSUME NEW i \in Incarnation, ScanWriteFails(i) PROVE OneInstance'
  BY <1>10 DEF ScanWriteFails, PassEnds, Forget, Fault, Spend
<1>11. ASSUME NEW i \in Incarnation, Rewatch(i) PROVE OneInstance'
  BY <1>11 DEF Rewatch, PassEnds, Forget, Fault, NoFault, Spend
<1>12. CASE StartForSession
  BY <1>12, NobodyIsNone DEF StartForSession, Spend
<1>13. CASE StopForSession
  BY <1>13 DEF StopForSession
<1>14. ASSUME NEW r \in Request, NEW f \in Fingerprint, Dismiss(r, f) PROVE OneInstance'
  <2>1. UnderWay' = UnderWay \cup {r} /\ r \notin UnderWay
    BY <1>14, RequestIsMade
  <2>2. /\ dismissal'[r].via = tracked
        /\ \A q \in UnderWay : dismissal'[q].via = dismissal[q].via
    BY <1>14, RequestIsMade
  <2>3. loop' = loop /\ tracked' = tracked
    BY <1>14 DEF Dismiss, BeginDismissal
  <2>4. excuse' = "none" => excuse = "none" /\ (tracked = Nobody => UnderWay = {})
    BY <1>14 DEF Dismiss, BeginDismissal
  <2> HIDE DEF UnderWay
  <2> QED
    BY <2>1, <2>2, <2>3, <2>4
<1>15. ASSUME NEW r \in Request, DismissReads(r) PROVE OneInstance'
  BY <1>15 DEF DismissReads, Hold
<1>16. ASSUME NEW r \in Request, DismissWrites(r) PROVE OneInstance'
  BY <1>16 DEF DismissWrites, Hold, Fault, NoFault, Spend
<1>17. ASSUME NEW a \in Anchor, Edit(a) PROVE OneInstance'
  BY <1>17 DEF Edit, Change, Spend, WatchEvent
<1>18. ASSUME NEW a \in Anchor, Regenerate(a) PROVE OneInstance'
  BY <1>18 DEF Regenerate, Change, Spend
<1>19. ASSUME NEW c \in DOMAIN History, Commit(c) PROVE OneInstance'
  BY <1>19 DEF Commit, Change, Spend
<1>20. ASSUME NEW c \in DOMAIN History, Checkout(c) PROVE OneInstance'
  BY <1>20 DEF Checkout, Change, Spend, WatchEvent
<1>21. CASE UNCHANGED scanVars
  BY <1>21 DEF scanVars
<1> QED
  BY <1>1, <1>2, <1>3, <1>4, <1>5, <1>6, <1>7, <1>8, <1>9, <1>10, <1>11,
     <1>12, <1>13, <1>14, <1>15, <1>16, <1>17, <1>18, <1>19, <1>20, <1>21 DEF
     ScanNext, Pass

LEMMA MutexStep ==
  TypeInv /\ OneInstance /\ MutexKeeps /\ [ScanNext]_scanVars => MutexKeeps'
<1> SUFFICES ASSUME TypeInv /\ OneInstance /\ MutexKeeps, [ScanNext]_scanVars PROVE MutexKeeps'
  OBVIOUS
<1> USE DEF source, looping, watching, storing, registry, TypeInv, RestTypeOK, Affordable,
            ScanTypeOK, OneInstance, UnderWay, MutexKeeps, Writing, Running, NoDismissal, Dismissal
<1>0. {"none", "scan"} \cap Request = {}
  BY ScanAssumption
<1>1. ASSUME NEW i \in Incarnation, DebounceFires(i) PROVE MutexKeeps'
  BY <1>1 DEF DebounceFires, Trigger
<1>2. ASSUME NEW i \in Incarnation, Reconcile(i) PROVE MutexKeeps'
  BY <1>2 DEF Reconcile, Trigger
<1>3. ASSUME NEW i \in Incarnation, WatchFails(i) PROVE MutexKeeps'
  BY <1>3 DEF WatchFails, Fault, Spend
<1>4. ASSUME NEW i \in Incarnation, ReadArtifact(i) PROVE MutexKeeps'
  BY <1>4 DEF ReadArtifact
<1>5. ASSUME NEW i \in Incarnation, ReadArtifactFails(i) PROVE MutexKeeps'
  BY <1>5 DEF ReadArtifactFails, PassEnds, Forget, Fault, Spend
<1>6. ASSUME NEW i \in Incarnation, NEW a \in Anchor, Classify(i, a) PROVE MutexKeeps'
  BY <1>6 DEF Classify, ClassAt, Fault, NoFault, Spend
<1>7. ASSUME NEW i \in Incarnation, ReadHeadRevision(i) PROVE MutexKeeps'
  BY <1>7 DEF ReadHeadRevision, Fault, NoFault, Spend
<1>8. ASSUME NEW i \in Incarnation, ScanReads(i) PROVE MutexKeeps'
  <2> SUFFICES ASSUME excuse = "none" PROVE MutexKeeps'
    BY <1>8 DEF ScanReads
  <2>1. /\ dismissal' = dismissal /\ findings' = findings
        /\ holder[i] = "none" /\ holder'[i] = "scan" /\ loop'[i] = "apply" /\ copy'[i] = findings
        /\ \A j \in Incarnation \ {i} :
             holder'[j] = holder[j] /\ loop'[j] = loop[j] /\ copy'[j] = copy[j]
    BY <1>8 DEF ScanReads
  <2>2. \A q \in Request : ~(Writing(q) /\ dismissal[q].via = i)
    BY <2>1, <1>0
  <2> QED
    BY <2>1, <2>2, <1>0
<1>9. ASSUME NEW i \in Incarnation, ScanWrites(i) PROVE MutexKeeps'
  <2> SUFFICES ASSUME excuse = "none" PROVE MutexKeeps'
    BY <1>9 DEF ScanWrites
  <2>1. /\ dismissal' = dismissal /\ loop[i] = "apply"
        /\ holder'[i] = "none" /\ loop'[i] = "rewatch"
        /\ \A j \in Incarnation \ {i} : holder'[j] = holder[j] /\ loop'[j] = loop[j]
    BY <1>9 DEF ScanWrites
  <2>2. i = tracked /\ holder[i] = "scan" /\ i # Nobody
    BY <2>1, NobodyIsNone
  <2>3. \A j \in Incarnation \ {i} : loop[j] # "apply"
    BY <2>2
  <2>4. ASSUME NEW q \in Request, Writing(q) PROVE FALSE
    <3>1. dismissal[q].via = i
      BY <2>2, <2>4
    <3>2. holder[i] = q
      BY <2>4, <3>1
    <3> QED
      BY <2>2, <3>2, <1>0
  <2> QED
    BY <2>1, <2>3, <2>4, <1>0
<1>10. ASSUME NEW i \in Incarnation, ScanWriteFails(i) PROVE MutexKeeps'
  <2> SUFFICES ASSUME excuse = "none" PROVE MutexKeeps'
    BY <1>10 DEF ScanWriteFails
  <2>1. /\ dismissal' = dismissal /\ findings' = findings /\ loop[i] = "apply"
        /\ holder'[i] = "none" /\ loop'[i] \in {"read", "idle"}
        /\ \A j \in Incarnation \ {i} :
             holder'[j] = holder[j] /\ loop'[j] = loop[j] /\ copy'[j] = copy[j]
    BY <1>10 DEF ScanWriteFails, PassEnds
  <2>2. \A q \in Request : ~(Writing(q) /\ dismissal[q].via = i)
    BY <2>1, <1>0
  <2> QED
    BY <2>1, <2>2, <1>0
<1>11. ASSUME NEW i \in Incarnation, Rewatch(i) PROVE MutexKeeps'
  BY <1>11 DEF Rewatch, PassEnds, Forget, Fault, NoFault, Spend
<1>12. CASE StartForSession
  <2>1. CASE excuse' # "none"
    BY <2>1
  <2>2. CASE excuse' = "none"
    <3>1. excuse = "none" /\ UnderWay = {} /\ tracked = Nobody
      BY <1>12, <2>2 DEF StartForSession
    <3>2. \A i \in Incarnation : loop[i] # "apply"
      BY <3>1, NobodyIsNone
    <3>3. \A i \in Incarnation : loop'[i] # "apply"
      <4>1. loop' = [loop EXCEPT ![born'] = "read"]
        BY <1>12 DEF StartForSession
      <4>2. \A i \in Incarnation : loop'[i] \in {"read", loop[i]}
        BY <4>1
      <4> QED
        BY <3>2, <4>2
    <3>4. holder' = holder /\ dismissal' = dismissal
      BY <1>12 DEF StartForSession
    <3> QED
      BY <3>1, <3>2, <3>3, <3>4
  <2> QED
    BY <2>1, <2>2
<1>13. CASE StopForSession
  BY <1>13 DEF StopForSession
<1>14. ASSUME NEW r \in Request, NEW f \in Fingerprint, Dismiss(r, f) PROVE MutexKeeps'
  BY <1>14 DEF Dismiss, BeginDismissal, Spend
<1>15. ASSUME NEW r \in Request, DismissReads(r) PROVE MutexKeeps'
  <2> SUFFICES ASSUME excuse = "none" PROVE MutexKeeps'
    BY <1>15 DEF DismissReads
  <2> DEFINE via == dismissal[r].via
  <2>1. \A i \in Incarnation :
           /\ holder'[i] = IF i = via THEN r ELSE holder[i]
           /\ copy'[i] = copy[i] /\ loop'[i] = loop[i]
    BY <1>15 DEF DismissReads, Hold
  <2>2. /\ findings' = findings /\ ~Writing(r)
        /\ dismissal'[r].at = "write" /\ dismissal'[r].via = via /\ dismissal'[r].read = findings
        /\ \A q \in Request \ {r} : dismissal'[q] = dismissal[q]
    BY <1>15 DEF DismissReads
  <2>3. via \in Incarnation => holder[via] = "none"
    BY <1>15, NobodyIsNone DEF DismissReads
  <2>4. ASSUME NEW i \in Incarnation
        PROVE  /\ holder'[i] = "scan" <=> loop'[i] = "apply"
               /\ loop'[i] = "apply" => copy'[i] = findings'
               /\ \A q \in Request : holder'[i] = q <=> Writing(q)' /\ dismissal'[q].via = i
    <3> HIDE DEF via
    <3>1. CASE i = via
      BY <2>1, <2>2, <2>3, <3>1, <1>0
    <3>2. CASE i # via
      BY <2>1, <2>2, <3>2, <1>0
    <3> QED
      BY <3>1, <3>2
  <2>5. ASSUME NEW q \in Request, Writing(q)' PROVE dismissal'[q].read = findings'
    <3>1. CASE q = r
      BY <2>2, <3>1
    <3>2. CASE q # r
      <4>1. Writing(q) /\ dismissal'[q] = dismissal[q]
        BY <2>2, <2>5, <3>2
      <4>2. dismissal[q].read = findings
        BY <4>1
      <4> QED
        BY <2>2, <4>1, <4>2
    <3> QED
      BY <3>1, <3>2
  <2> QED
    BY <2>4, <2>5
<1>16. ASSUME NEW r \in Request, DismissWrites(r) PROVE MutexKeeps'
  <2> SUFFICES ASSUME excuse = "none" PROVE MutexKeeps'
    BY <1>16 DEF DismissWrites
  <2>1. /\ Writing(r) /\ dismissal'[r].at = "none"
        /\ \A q \in Request \ {r} : dismissal'[q] = dismissal[q]
    BY <1>16 DEF DismissWrites
  <2>2. \A i \in Incarnation :
           /\ holder'[i] = IF i = dismissal[r].via THEN "none" ELSE holder[i]
           /\ loop'[i] = loop[i]
    BY <1>16 DEF DismissWrites, Hold
  <2>3. \A i \in Incarnation : loop[i] # "apply"
    BY <2>1, NobodyIsNone, <1>0
  <2>4. \A q \in Request \ {r} : ~Writing(q)
    BY <2>1
  <2>5. \A q \in Request : ~Writing(q)'
    BY <2>1, <2>4
  <2> QED
    BY <2>1, <2>2, <2>3, <2>4, <2>5, <1>0
<1>17. ASSUME NEW a \in Anchor, Edit(a) PROVE MutexKeeps'
  BY <1>17 DEF Edit, Change, Spend, WatchEvent
<1>18. ASSUME NEW a \in Anchor, Regenerate(a) PROVE MutexKeeps'
  BY <1>18 DEF Regenerate, Change, Spend
<1>19. ASSUME NEW c \in DOMAIN History, Commit(c) PROVE MutexKeeps'
  BY <1>19 DEF Commit, Change, Spend
<1>20. ASSUME NEW c \in DOMAIN History, Checkout(c) PROVE MutexKeeps'
  BY <1>20 DEF Checkout, Change, Spend, WatchEvent
<1>21. CASE UNCHANGED scanVars
  BY <1>21 DEF scanVars
<1> QED
  BY <1>1, <1>2, <1>3, <1>4, <1>5, <1>6, <1>7, <1>8, <1>9, <1>10, <1>11,
     <1>12, <1>13, <1>14, <1>15, <1>16, <1>17, <1>18, <1>19, <1>20, <1>21 DEF
     ScanNext, Pass

LEMMA ScanInvariance == ScanSpec => []ScanInv
<1>1. ScanInv /\ [ScanNext]_scanVars => ScanInv'
  BY TypeStep, WatchStep, TriggersStep, OneInstanceStep, MutexStep DEF ScanInv
<1> QED
  BY ScanInitInv, <1>1, PTL DEF ScanSpec

-----------------------------------------------------------------------------
(* The theorems *)

(* Every variable keeps to its type, however often sessions start, stop    *)
(* and start again.                                                        *)
THEOREM ScanTypeCorrect == ScanSpec => []ScanTypeOK
<1>1. ScanInv => ScanTypeOK
  BY DEF ScanInv, TypeInv
<1> QED
  BY ScanInvariance, <1>1, PTL

(* A loop never rests on a trigger that came after its last pass began     *)
(* (`rescanRequested`), whichever way the pass ended.                      *)
THEOREM TriggersAreKept == ScanSpec => []NoTriggerDropped
<1>1. ScanInv => NoTriggerDropped
  BY DEF ScanInv, TriggersWait, NoTriggerDropped, Running
<1> QED
  BY ScanInvariance, <1>1, PTL

(* A closed watcher has no watch and no timer, also when a pass outlives   *)
(* it and points the watches anew.                                         *)
THEOREM StoppedIsSilent == ScanSpec => []ClosedIsSilent
<1>1. ScanInv => ClosedIsSilent
  BY DEF ScanInv, TrackedWatches, Live, ClosedIsSilent
<1> QED
  BY ScanInvariance, <1>1, PTL

(* No scan undoes a dismissal at the revision it was made for, as long as  *)
(* one instance of the store works on the file: then whoever is inside its *)
(* mutex has what the file says.                                           *)
THEOREM DismissalsAreKept == ScanSpec => DismissalKept
<1> DEFINE Kept(f) ==
      ( /\ findings[f].status = "dismissed"
        /\ findings'[f].status # "dismissed"
        /\ excuse = "none" )
      => findings'[f].seen # findings[f].dismissedAt
<1>1. ASSUME ScanInv, ScanNext, NEW f \in Fingerprint PROVE Kept(f)
  <2> SUFFICES ASSUME findings' # findings, excuse = "none" PROVE Kept(f)
    OBVIOUS
  <2>1. CASE \E i \in Incarnation : ScanWrites(i)
    <3>1. PICK i \in Incarnation : ScanWrites(i)
      BY <2>1
    <3>2. findings' = ApplyScanObservations(findings, i)
      BY <1>1, <3>1 DEF ScanWrites, ScanInv, MutexKeeps
    <3>3. findings'[f] \in {RecordDetection(findings[f], revision[i]),
                            RecordAbsence(findings[f], revision[i]), findings[f]}
      BY <3>2 DEF ApplyScanObservations
    <3> QED
      BY <3>3 DEF RecordDetection, RecordAbsence, Open
  <2>2. CASE \E r \in Request : DismissWrites(r)
    <3>1. PICK r \in Request : DismissWrites(r)
      BY <2>2
    <3>2. findings' = [findings EXCEPT ![dismissal[r].fingerprint] = DismissFinding(@)]
      BY <1>1, <3>1 DEF DismissWrites, ScanInv, MutexKeeps, Writing
    <3>3. findings'[f] \in {DismissFinding(findings[f]), findings[f]}
      BY <1>1, <3>2, FindingsTyped DEF ScanInv
    <3> QED
      BY <1>1, <3>3, FindingsTyped DEF DismissFinding, ScanInv, Finding
  <2> QED
    BY <1>1, <2>1, <2>2
    DEF ScanNext, Pass, storing, DebounceFires, Reconcile, WatchFails, ReadArtifact,
        ReadArtifactFails, Classify, ReadHeadRevision, ScanReads, ScanWriteFails, Rewatch,
        StartForSession, StopForSession, Dismiss, BeginDismissal, DismissReads, Edit, Regenerate, Commit,
        Checkout
<1>2. ScanInv /\ [ScanNext]_scanVars => [\A f \in Fingerprint : Kept(f)]_scanVars
  BY <1>1
<1> QED
  BY <1>2, ScanInvariance, PTL DEF ScanSpec, DismissalKept

----------------------------------------------------------------------------
(***************************************************************************)
(* The pool of git processes.                                              *)
(***************************************************************************)

Piece == Lookup \X {"header", "body"}
ProcessState == {"unborn", "running", "killed", "dead", "gone"}

StreamTypes ==
  /\ stdin \in [Process -> Seq(Lookup)]
  /\ stdout \in [Process -> Seq(Piece)]
  /\ buffer \in Seq(Piece)
  /\ poolFaults \in Nat

PoolTypes == PoolTypeOK /\ StreamTypes

(* Only the process the pool holds can be running, and it was not killed:  *)
(* if it died, it died by itself.                                          *)
OneRuns ==
  /\ \A p \in Process \ {proc} : process[p] # "running"
  /\ proc # NoProcess =>
       \/ process[proc] = "running"
       \/ process[proc] = "dead" /\ poolFaults > 0
  /\ \A p \in Process : process[p] = "unborn" => stdin[p] = <<>> /\ stdout[p] = <<>>

(* Nobody waits without a process, and while somebody does nothing of      *)
(* another one is still to come, unless history says so.                   *)
OthersSilent ==
  /\ proc = NoProcess => lookups = <<>> /\ (buffer = <<>> \/ "output" \in stray)
  /\ lookups # <<>> => \A p \in Process \ {proc} :
       /\ stdout[p] = <<>> \/ "output" \in stray
       /\ process[p] \in {"unborn", "gone"} \/ "exit" \in stray

Size(r) == IF r \in Contents \cap Bodied THEN 2 ELSE 1

(* The first k lookups have their answers in the buffer and in what git    *)
(* has written, the i-th up to at[i]; the rest is still to be read by git. *)
InStep(k, at) ==
  /\ at[0] = 0 - Len(buffer) /\ at[k] = Len(stdout[proc])
  /\ \A i, j \in 0 .. k : i < j => at[i] < at[j]
  /\ \A i \in 1 .. k :
       /\ at[i] = at[i - 1] + Size(lookups[i])
       /\ at[i - 1] >= 0 => stdout[proc][at[i - 1] + 1] = <<lookups[i], "header">>
       /\ Size(lookups[i]) = 2 => stdout[proc][at[i - 1] + 2] = <<lookups[i], "body">>
  /\ buffer # <<>> =>
       k > 0 /\ buffer = <<<<lookups[1], "header">>>> /\ Size(lookups[1]) = 2
  /\ process[proc] = "running" =>
       /\ Len(stdin[proc]) = Len(lookups) - k
       /\ \A j \in 1 .. Len(stdin[proc]) : stdin[proc][j] = lookups[k + j]

AnswersInOrder ==
  proc # NoProcess /\ "output" \notin stray =>
    \E k \in 0 .. Len(lookups) : \E at \in [0 .. k -> Int] : InStep(k, at)

(* What every step keeps, beside the types. *)
Matched == OneRuns /\ OthersSilent /\ AnswersInOrder /\ OwnAnswer /\ OnlyFaultsReject

----------------------------------------------------------------------------
(* What git writes for one lookup. *)
LEMMA PiecesOf ==
  ASSUME NEW r \in Lookup
  PROVE  /\ Pieces(r) \in Seq(Piece) /\ Len(Pieces(r)) = Size(r) /\ Size(r) \in {1, 2}
         /\ Pieces(r)[1] = <<r, "header">>
         /\ Size(r) = 2 => Pieces(r)[2] = <<r, "body">>
         /\ Size(r) = 2 <=> r \in Contents /\ r \in Bodied
<1>1. CASE r \in Contents \cap Bodied
  <2>1. Pieces(r) = <<<<r, "header">>, <<r, "body">>>> /\ Size(r) = 2
    BY <1>1 DEF Pieces, Size
  <2>2. <<r, "header">> \in Piece /\ <<r, "body">> \in Piece
    BY DEF Piece
  <2> QED
    BY <1>1, <2>1, <2>2
<1>2. CASE r \notin Contents \cap Bodied
  <2>1. Pieces(r) = <<<<r, "header">>>> /\ Size(r) = 1
    BY <1>2 DEF Pieces, Size
  <2>2. <<r, "header">> \in Piece
    BY DEF Piece
  <2> QED
    BY <1>2, <2>1, <2>2
<1> QED
  BY <1>1, <1>2

(* Every variable stays within its set. *)
LEMMA TypesInit == PoolInit => PoolTypes
BY PoolAssumption DEF PoolInit, PoolTypes, PoolTypeOK, StreamTypes, Process, NoProcess, Nothing, ProcessState

LEMMA TypesFatal ==
  ASSUME PoolTypes, NEW dies \in [Process -> ProcessState], OnFatal(dies)
  PROVE  /\ proc' \in Process \cup {NoProcess}
         /\ process' \in [Process -> ProcessState]
         /\ lookups' \in Seq(Lookup)
         /\ buffer' \in Seq(Piece) /\ Len(buffer') <= 1
         /\ promise' \in [Lookup -> {"new", "pending", "checking", "resolved", "rejected"}]
         /\ got' \in [Lookup -> Lookup \cup {Nothing, "garbage"}]
BY DEF PoolTypes, PoolTypeOK, StreamTypes, OnFatal, ProcessState

LEMMA TypesResolve ==
  ASSUME PoolTypes, lookups # <<>>, NEW with \in Lookup \cup {"garbage"},
         Resolves(Head(lookups), with)
  PROVE  /\ proc' \in Process \cup {NoProcess}
         /\ process' \in [Process -> ProcessState]
         /\ lookups' \in Seq(Lookup)
         /\ buffer' \in Seq(Piece) /\ Len(buffer') <= 1
         /\ promise' \in [Lookup -> {"new", "pending", "checking", "resolved", "rejected"}]
         /\ got' \in [Lookup -> Lookup \cup {Nothing, "garbage"}]
<1>1. Head(lookups) \in Lookup /\ Tail(lookups) \in Seq(Lookup)
  BY DEF PoolTypes, PoolTypeOK
<1> QED
  BY <1>1 DEF PoolTypes, PoolTypeOK, StreamTypes, Resolves, ProcessState

LEMMA TypesEnqueue ==
  ASSUME PoolTypes, NEW r \in Lookup, Enqueue(r)
  PROVE  PoolTypes'
<1>1. stray' \subseteq {"output", "exit"}
  <2>1. \A p \in Process : Heard(p) \subseteq {"output", "exit"}
    BY DEF Heard
  <2>2. Strays \subseteq {"output", "exit"}
    BY <2>1 DEF Strays
  <2> QED
    BY <2>2 DEF PoolTypes, PoolTypeOK, Enqueue
<1>2. stdin' \in [Process -> Seq(Lookup)]
  <2>1. CASE proc # NoProcess
    <3>1. stdin' = [stdin EXCEPT ![proc] = Append(@, r)] /\ proc \in Process
      BY <2>1 DEF PoolTypes, PoolTypeOK, Enqueue
    <3>2. Append(stdin[proc], r) \in Seq(Lookup)
      BY <3>1 DEF PoolTypes, StreamTypes
    <3> QED
      BY <3>1, <3>2 DEF PoolTypes, StreamTypes
  <2>2. CASE proc = NoProcess
    <3>1. stdin' = [stdin EXCEPT ![proc'] = <<r>>] /\ proc' \in Process
      BY <2>2 DEF Enqueue
    <3>2. <<r>> \in Seq(Lookup)
      OBVIOUS
    <3> QED
      BY <3>1, <3>2 DEF PoolTypes, StreamTypes
  <2> QED
    BY <2>1, <2>2
<1>3. proc' \in Process \cup {NoProcess} /\ process' \in [Process -> ProcessState]
  BY DEF PoolTypes, PoolTypeOK, Enqueue, ProcessState
<1>4. resolvedMode' \in {"none"} \cup Modes
  BY DEF PoolTypes, PoolTypeOK, Enqueue
<1>5. lookups' \in Seq(Lookup)
  BY DEF PoolTypes, PoolTypeOK, Enqueue
<1>6. /\ promise' \in [Lookup -> {"new", "pending", "checking", "resolved", "rejected"}]
      /\ UNCHANGED <<stdout, buffer, got, checks, poolFaults>>
  BY DEF PoolTypes, PoolTypeOK, Enqueue
<1> QED
  BY <1>1, <1>2, <1>3, <1>4, <1>5, <1>6 DEF PoolTypes, PoolTypeOK, StreamTypes, ProcessState

LEMMA TypesAnswer ==
  ASSUME PoolTypes, NEW p \in Process, GitAnswers(p)
  PROVE  PoolTypes'
<1>1. Head(stdin[p]) \in Lookup /\ Tail(stdin[p]) \in Seq(Lookup)
  BY DEF PoolTypes, StreamTypes, GitAnswers
<1>2. Pieces(Head(stdin[p])) \in Seq(Piece)
  BY <1>1, PiecesOf
<1>3. stdout[p] \o Pieces(Head(stdin[p])) \in Seq(Piece)
  BY <1>2 DEF PoolTypes, StreamTypes
<1>4. stdout' \in [Process -> Seq(Piece)] /\ stdin' \in [Process -> Seq(Lookup)]
  BY <1>1, <1>3 DEF PoolTypes, StreamTypes, GitAnswers
<1> QED
  BY <1>4 DEF PoolTypes, PoolTypeOK, StreamTypes, GitAnswers, matching

LEMMA TypesData ==
  ASSUME PoolTypes, NEW p \in Process, OnData(p)
  PROVE  PoolTypes'
<1> DEFINE have == Append(buffer, Head(stdout[p]))
           first == Head(lookups)
           Rest == /\ proc' \in Process \cup {NoProcess}
                   /\ process' \in [Process -> ProcessState]
                   /\ lookups' \in Seq(Lookup)
                   /\ buffer' \in Seq(Piece) /\ Len(buffer') <= 1
                   /\ promise' \in [Lookup -> {"new", "pending", "checking", "resolved", "rejected"}]
                   /\ got' \in [Lookup -> Lookup \cup {Nothing, "garbage"}]
<1>1. stdout[p] # <<>> /\ stdout[p] \in Seq(Piece)
  BY DEF PoolTypes, StreamTypes, OnData
<1>2. stdout' \in [Process -> Seq(Piece)]
  BY <1>1 DEF PoolTypes, StreamTypes, OnData
<1>3. UNCHANGED <<resolvedMode, stdin, checks, stray, poolFaults>>
  BY DEF OnData
<1>4. have \in Seq(Piece) /\ Len(have) \in Nat \ {0}
  BY <1>1 DEF PoolTypes, StreamTypes
<1>5. have[1][1] \in Lookup
  BY <1>4 DEF Piece
<1>6. CASE OnFatal(process)
  BY <1>6, <1>2, <1>3, TypesFatal DEF PoolTypes, PoolTypeOK, StreamTypes, ProcessState
<1>7. CASE lookups # <<>> /\ buffer' = have /\ Len(have) = 1 /\ UNCHANGED <<process, proc, lookups, promise, got>>
  BY <1>7, <1>2, <1>3, <1>4 DEF PoolTypes, PoolTypeOK, StreamTypes
<1>8. ASSUME NEW with \in Lookup \cup {"garbage"}, lookups # <<>>, Resolves(first, with)
      PROVE  PoolTypes'
  <2>1. Rest
    BY <1>8, TypesResolve
  <2> QED
    BY <2>1, <1>2, <1>3 DEF PoolTypes, PoolTypeOK, StreamTypes, ProcessState
<1>9. \/ OnFatal(process)
      \/ lookups # <<>> /\ buffer' = have /\ Len(have) = 1 /\ UNCHANGED <<process, proc, lookups, promise, got>>
      \/ \E with \in Lookup \cup {"garbage"} : lookups # <<>> /\ Resolves(first, with)
  <2> HIDE DEF have, first
  <2>1. \/ OnFatal(process)
        \/ lookups # <<>> /\ buffer' = have /\ Len(have) = 1 /\ UNCHANGED <<process, proc, lookups, promise, got>>
        \/ lookups # <<>> /\ Resolves(first, "garbage")
        \/ lookups # <<>> /\ Resolves(first, IF have[Len(have)][1] = have[1][1] THEN have[1][1] ELSE "garbage")
    BY Zenon DEF OnData, have, first
  <2> QED
    BY <2>1, <1>5
<1> QED
  BY <1>6, <1>7, <1>8, <1>9

LEMMA TypesKept == PoolTypes /\ [PoolNext]_poolVars => PoolTypes'
<1> SUFFICES ASSUME PoolTypes, [PoolNext]_poolVars PROVE PoolTypes'
  OBVIOUS
<1>1. ASSUME NEW r \in Lookup, Enqueue(r) PROVE PoolTypes'
  BY <1>1, TypesEnqueue
<1>2. ASSUME NEW r \in Lookup, InfoViaBatchCheck(r) PROVE PoolTypes'
  <2>1. resolvedMode' \in {"none"} \cup Modes
    BY <1>2 DEF InfoViaBatchCheck, PoolTypes, PoolTypeOK
  <2>2. promise' \in [Lookup -> {"new", "pending", "checking", "resolved", "rejected"}]
    BY <1>2 DEF InfoViaBatchCheck, PoolTypes, PoolTypeOK
  <2>4. got' \in [Lookup -> Lookup \cup {Nothing, "garbage"}]
    BY <1>2 DEF InfoViaBatchCheck, PoolTypes, PoolTypeOK
  <2>5. poolFaults' \in Nat
    BY <1>2 DEF InfoViaBatchCheck, PoolTypes, StreamTypes, PoolFault
  <2>3. UNCHANGED <<proc, lookups, buffer, process, stdin, stdout, checks, stray>>
    BY <1>2 DEF InfoViaBatchCheck, piping
  <2> QED
    BY <2>1, <2>2, <2>3, <2>4, <2>5 DEF PoolTypes, PoolTypeOK, StreamTypes
<1>3. ASSUME NEW r \in Lookup, Collect(r) PROVE PoolTypes'
  BY <1>3 DEF PoolTypes, PoolTypeOK, StreamTypes, Collect, piping, matching
<1>4. ASSUME NEW p \in Process, GitAnswers(p) PROVE PoolTypes'
  BY <1>4, TypesAnswer
<1>5. ASSUME NEW p \in Process, OnData(p) PROVE PoolTypes'
  BY <1>5, TypesData
<1>6. ASSUME NEW p \in Process, ProcessDies(p) PROVE PoolTypes'
  BY <1>6 DEF PoolTypes, PoolTypeOK, StreamTypes, ProcessDies, PoolFault, matching
<1>7. ASSUME NEW p \in Process, OnExit(p) PROVE PoolTypes'
  <2>1. [process EXCEPT ![p] = "gone"] \in [Process -> ProcessState]
    BY DEF PoolTypes, PoolTypeOK, ProcessState
  <2>2. OnFatal([process EXCEPT ![p] = "gone"])
    BY <1>7 DEF OnExit
  <2>3. stray' \subseteq {"output", "exit"} /\ UNCHANGED <<resolvedMode, stdin, stdout, checks, poolFaults>>
    BY <1>7 DEF OnExit, PoolTypes, PoolTypeOK
  <2> QED
    BY <2>1, <2>2, <2>3, TypesFatal DEF PoolTypes, PoolTypeOK, StreamTypes, ProcessState
<1>8. CASE Reap
  BY <1>8 DEF PoolTypes, PoolTypeOK, StreamTypes, Reap, NoProcess
<1>9. CASE ClosePool
  <2>1. UNCHANGED <<resolvedMode, stdin, stdout, checks, stray>> /\ poolFaults' \in Nat /\ OnFatal(process)
    BY <1>9 DEF ClosePool, PoolFault, PoolTypes, StreamTypes
  <2> QED
    BY <2>1, TypesFatal DEF PoolTypes, PoolTypeOK, StreamTypes, ProcessState
<1>10. CASE FlushChecks
  BY <1>10 DEF PoolTypes, PoolTypeOK, StreamTypes, FlushChecks, PoolFault, piping, matching
<1>11. CASE UNCHANGED poolVars
  BY <1>11 DEF PoolTypes, PoolTypeOK, StreamTypes, poolVars, piping, matching
<1> QED
  BY <1>1, <1>2, <1>3, <1>4, <1>5, <1>6, <1>7, <1>8, <1>9, <1>10, <1>11 DEF PoolNext

----------------------------------------------------------------------------
(* The invariant, action by action. *)

(* Whoever gives the process up leaves a pool that holds nothing; it       *)
(* rejects lookups only for a fault or for somebody who is heard late.     *)
LEMMA FatalKeeps ==
  ASSUME PoolTypes, Matched,
         NEW dies \in [Process -> ProcessState],
         \A q \in Process : dies[q] = process[q] \/ dies[q] = "gone",
         OnFatal(dies),
         stray \subseteq stray', poolFaults' \in Nat, poolFaults' >= poolFaults,
         lookups # <<>> => poolFaults' > 0 \/ stray' # {},
         stdin' = stdin,
         \A q \in Process : stdout[q] = <<>> => stdout'[q] = <<>>
  PROVE  Matched'
<1>1. proc' = NoProcess /\ lookups' = <<>> /\ buffer' = <<>> /\ got' = got
  BY DEF OnFatal
<1>2. \A q \in Process : process'[q] = IF q = proc /\ dies[q] = "running" THEN "killed" ELSE dies[q]
  BY DEF OnFatal
<1>3. \A q \in Process : process'[q] # "running" /\ (process'[q] = "unborn" => process[q] = "unborn")
  BY <1>2 DEF Matched, OneRuns
<1>4. OneRuns'
  BY <1>1, <1>3 DEF OneRuns, Matched
<1>5. OthersSilent' /\ AnswersInOrder'
  BY <1>1 DEF OthersSilent, AnswersInOrder
<1>6. \A r \in Lookup : promise'[r] = IF r \in ToSet(lookups) THEN "rejected" ELSE promise[r]
  BY DEF OnFatal
<1>7. OwnAnswer'
  BY <1>1, <1>6 DEF OwnAnswer, Matched
<1>8. OnlyFaultsReject'
  <2>1. lookups = <<>> => ToSet(lookups) = {}
    BY DEF ToSet
  <2> QED
    BY <1>6, <2>1 DEF OnlyFaultsReject, Matched, PoolTypes, StreamTypes
<1> QED
  BY <1>4, <1>5, <1>7, <1>8 DEF Matched

(* A lookup takes its place behind the others; with the first of a process *)
(* nothing has been written to it.                                         *)
LEMMA EnqueueKeeps ==
  ASSUME PoolTypes, Matched, NEW r \in Lookup, Enqueue(r)
  PROVE  Matched'
<1>1. /\ lookups' = Append(lookups, r) /\ lookups \in Seq(Lookup)
      /\ promise' = [promise EXCEPT ![r] = "pending"]
      /\ UNCHANGED <<stdout, buffer, got, poolFaults>>
      /\ stray' = stray \cup Strays
  BY DEF Enqueue, PoolTypes, PoolTypeOK
<1>2. \A p \in Process \ {proc} :
        /\ stdout[p] # <<>> => "output" \in stray'
        /\ process[p] \in {"killed", "dead"} => "exit" \in stray'
  <2> TAKE p \in Process \ {proc}
  <2>1. Heard(p) \subseteq stray'
    BY <1>1 DEF Strays
  <2> QED
    BY <2>1 DEF Heard
<1>3. \A q \in Lookup : promise'[q] = IF q = r THEN "pending" ELSE promise[q]
  BY <1>1 DEF PoolTypes, PoolTypeOK
<1>4. OwnAnswer' /\ OnlyFaultsReject'
  BY <1>1, <1>3 DEF OwnAnswer, OnlyFaultsReject, Matched
<1>5. \A p \in Process \ {proc} : process[p] \in {"unborn", "gone"} \/ "exit" \in stray'
  BY <1>2 DEF Matched, OneRuns, PoolTypes, PoolTypeOK
<1>6. CASE proc # NoProcess
  <2>1. /\ proc' = proc /\ process' = process /\ proc \in Process
        /\ stdin' = [stdin EXCEPT ![proc] = Append(@, r)]
    BY <1>6 DEF Enqueue, PoolTypes, PoolTypeOK
  <2>2. OneRuns'
    <3>1. \A p \in Process : process[p] = "unborn" => p # proc
      BY <1>6 DEF Matched, OneRuns
    <3>2. \A p \in Process : p # proc => stdin'[p] = stdin[p]
      BY <2>1 DEF PoolTypes, StreamTypes
    <3> QED
      BY <1>1, <2>1, <3>1, <3>2 DEF Matched, OneRuns
  <2>3. OthersSilent'
    BY <1>1, <1>2, <1>5, <1>6, <2>1 DEF OthersSilent
  <2>4. ASSUME "output" \notin stray' PROVE \E k \in 0 .. Len(lookups') : \E at \in [0 .. k -> Int] : InStep(k, at)'
    <3>1. "output" \notin stray
      BY <1>1, <2>4
    <3>2. PICK k \in 0 .. Len(lookups) : \E at \in [0 .. k -> Int] : InStep(k, at)
      BY <3>1, <1>6 DEF Matched, AnswersInOrder
    <3>3. PICK at \in [0 .. k -> Int] : InStep(k, at)
      BY <3>2
    <3>4. /\ Len(lookups') = Len(lookups) + 1 /\ lookups'[Len(lookups) + 1] = r
          /\ \A i \in 1 .. Len(lookups) : lookups'[i] = lookups[i]
          /\ Len(lookups) \in Nat
      BY <1>1
    <3>5. k \in 0 .. Len(lookups') /\ \A i \in 1 .. k : lookups'[i] = lookups[i]
      BY <3>4
    <3>6. process[proc] = "running" =>
            /\ Len(stdin'[proc]) = Len(lookups') - k
            /\ \A j \in 1 .. Len(stdin'[proc]) : stdin'[proc][j] = lookups'[k + j]
      <4> SUFFICES ASSUME process[proc] = "running"
                   PROVE  /\ Len(stdin'[proc]) = Len(lookups') - k
                          /\ \A j \in 1 .. Len(stdin'[proc]) : stdin'[proc][j] = lookups'[k + j]
        OBVIOUS
      <4>1. stdin[proc] \in Seq(Lookup) /\ stdin'[proc] = Append(stdin[proc], r)
        BY <2>1 DEF PoolTypes, StreamTypes
      <4>2. /\ Len(stdin'[proc]) = Len(stdin[proc]) + 1
            /\ stdin'[proc][Len(stdin[proc]) + 1] = r
            /\ \A j \in 1 .. Len(stdin[proc]) : stdin'[proc][j] = stdin[proc][j]
            /\ Len(stdin[proc]) \in Nat
        BY <4>1
      <4>3. /\ Len(stdin[proc]) = Len(lookups) - k
            /\ \A j \in 1 .. Len(stdin[proc]) : stdin[proc][j] = lookups[k + j]
        BY <3>3 DEF InStep
      <4>4. Len(stdin'[proc]) = Len(lookups') - k
        BY <4>2, <4>3, <3>4
      <4>5. ASSUME NEW j \in 1 .. Len(stdin'[proc]) PROVE stdin'[proc][j] = lookups'[k + j]
        <5>1. CASE j <= Len(stdin[proc])
          <6>1. j \in 1 .. Len(stdin[proc]) /\ k + j \in 1 .. Len(lookups)
            BY <5>1, <4>2, <4>3, <3>4
          <6> QED
            BY <6>1, <4>2, <4>3, <3>4
        <5>2. CASE j = Len(stdin[proc]) + 1
          <6>1. k + j = Len(lookups) + 1
            BY <5>2, <4>2, <4>3, <3>4
          <6> QED
            BY <6>1, <5>2, <4>2, <3>4
        <5> QED
          BY <5>1, <5>2, <4>2
      <4> QED
        BY <4>4, <4>5
    <3>7. k > 0 => 1 \in 1 .. k
      OBVIOUS
    <3>8. InStep(k, at)'
      BY <3>3, <3>5, <3>6, <3>7, <1>1, <2>1, ZenonT(30) DEF InStep, Size
    <3> QED
      BY <3>5, <3>8
  <2>5. AnswersInOrder'
    BY <2>4 DEF AnswersInOrder
  <2> QED
    BY <1>4, <2>2, <2>3, <2>5 DEF Matched
<1>7. CASE proc = NoProcess
  <2>1. /\ proc' \in Process /\ process[proc'] = "unborn"
        /\ process' = [process EXCEPT ![proc'] = "running"]
        /\ stdin' = [stdin EXCEPT ![proc'] = <<r>>]
    BY <1>7 DEF Enqueue
  <2>2. /\ \A p \in Process : process'[p] = IF p = proc' THEN "running" ELSE process[p]
        /\ \A p \in Process : stdin'[p] = IF p = proc' THEN <<r>> ELSE stdin[p]
    BY <2>1 DEF PoolTypes, PoolTypeOK, StreamTypes
  <2>3. proc' # NoProcess /\ \A p \in Process : p # proc
    BY <2>1, <1>7 DEF NoProcess, Process
  <2>4. OneRuns'
    BY <1>1, <2>1, <2>2, <2>3 DEF Matched, OneRuns
  <2>5. OthersSilent'
    BY <1>1, <1>2, <1>5, <2>2, <2>3 DEF OthersSilent
  <2>6. ASSUME "output" \notin stray' PROVE \E k \in 0 .. Len(lookups') : \E at \in [0 .. k -> Int] : InStep(k, at)'
    <3>1. lookups = <<>> /\ buffer = <<>> /\ stdout[proc'] = <<>>
      BY <1>1, <1>7, <2>1, <2>6 DEF Matched, OthersSilent, OneRuns
    <3>2. lookups' = <<r>> /\ buffer' = <<>> /\ stdout'[proc'] = <<>> /\ stdin'[proc'] = <<r>>
      BY <1>1, <2>1, <2>2, <3>1
    <3> DEFINE at == [i \in 0 .. 0 |-> 0]
    <3>3. at \in [0 .. 0 -> Int] /\ at[0] = 0
      OBVIOUS
    <3> HIDE DEF at
    <3>4. InStep(0, at)'
      BY <3>2, <3>3 DEF InStep
    <3>5. 0 \in 0 .. Len(lookups')
      BY <3>2
    <3> QED
      BY <3>3, <3>4, <3>5
  <2>7. AnswersInOrder'
    BY <2>6 DEF AnswersInOrder
  <2> QED
    BY <1>4, <2>4, <2>5, <2>7 DEF Matched
<1> QED
  BY <1>6, <1>7

(* git answers the first lookup it has not answered, in full and behind    *)
(* what it has written.                                                    *)
LEMMA AnswersKeep ==
  ASSUME PoolTypes, Matched, NEW p \in Process, GitAnswers(p)
  PROVE  Matched'
<1> DEFINE r == Head(stdin[p])
           out == stdout[p]
<1>1. /\ process[p] = "running" /\ stdin[p] # <<>>
      /\ stdout' = [stdout EXCEPT ![p] = out \o Pieces(r)]
      /\ stdin' = [stdin EXCEPT ![p] = Tail(stdin[p])]
      /\ UNCHANGED <<process, proc, lookups, buffer, promise, got, stray, poolFaults>>
  BY DEF GitAnswers, matching
<1>2. p = proc /\ proc # NoProcess
  BY <1>1 DEF Matched, OneRuns, Process, NoProcess
<1>3. stdin[p] \in Seq(Lookup) /\ out \in Seq(Piece)
  BY DEF PoolTypes, StreamTypes
<1>4. /\ r \in Lookup /\ Len(Tail(stdin[p])) = Len(stdin[p]) - 1 /\ Len(stdin[p]) \in Nat \ {0}
      /\ \A j \in 1 .. Len(Tail(stdin[p])) : Tail(stdin[p])[j] = stdin[p][j + 1]
      /\ r = stdin[p][1]
  BY <1>1, <1>3
<1>5. /\ stdout'[p] = out \o Pieces(r) /\ stdin'[p] = Tail(stdin[p])
      /\ \A q \in Process : q # p => stdout'[q] = stdout[q] /\ stdin'[q] = stdin[q]
  BY <1>1 DEF PoolTypes, StreamTypes
<1>6. OneRuns' /\ OthersSilent' /\ OwnAnswer' /\ OnlyFaultsReject'
  <2>1. OneRuns'
    BY <1>1, <1>2, <1>5 DEF Matched, OneRuns
  <2>2. OthersSilent'
    BY <1>1, <1>2, <1>5 DEF Matched, OthersSilent
  <2> QED
    BY <1>1, <2>1, <2>2 DEF Matched, OwnAnswer, OnlyFaultsReject
<1> HIDE DEF r, out
<1>7. ASSUME "output" \notin stray' PROVE \E k \in 0 .. Len(lookups') : \E at \in [0 .. k -> Int] : InStep(k, at)'
  <2>1. PICK k \in 0 .. Len(lookups) : \E at \in [0 .. k -> Int] : InStep(k, at)
    BY <1>1, <1>2, <1>7 DEF Matched, AnswersInOrder
  <2>2. PICK at \in [0 .. k -> Int] : InStep(k, at)
    BY <2>1
  <2>3. k \in Nat /\ Len(lookups) \in Nat
    BY DEF PoolTypes, PoolTypeOK
  <2>4. Len(stdin[p]) = Len(lookups) - k /\ \A j \in 1 .. Len(stdin[p]) : stdin[p][j] = lookups[k + j]
    BY <1>1, <1>2, <2>2 DEF InStep
  <2>5. r = lookups[k + 1]
    <3>1. 1 \in 1 .. Len(stdin[p])
      BY <1>4
    <3>2. stdin[p][1] = lookups[k + 1]
      BY <3>1, <2>4
    <3> QED
      BY <3>2, <1>4
  <2>6. /\ Pieces(r) \in Seq(Piece) /\ Len(Pieces(r)) = Size(r) /\ Size(r) \in {1, 2}
        /\ Pieces(r)[1] = <<r, "header">>
        /\ Size(r) = 2 => Pieces(r)[2] = <<r, "body">>
    BY <1>4, PiecesOf
  <2>7. /\ Len(out \o Pieces(r)) = Len(out) + Size(r) /\ Len(out) \in Nat
        /\ \A i \in 1 .. Len(out) : (out \o Pieces(r))[i] = out[i]
        /\ (out \o Pieces(r))[Len(out) + 1] = <<r, "header">>
        /\ Size(r) = 2 => (out \o Pieces(r))[Len(out) + 2] = <<r, "body">>
    BY <1>3, <2>6
  <2>8. PICK next \in [0 .. k + 1 -> Int] :
          /\ \A i \in 0 .. k : next[i] = at[i] /\ at[i] \in Int
          /\ next[k + 1] = at[k] + Size(r)
    <3> DEFINE f == [i \in 0 .. k + 1 |-> IF i <= k THEN at[i] ELSE at[k] + Size(r)]
    <3>1. /\ \A i \in 0 .. k : f[i] = at[i] /\ at[i] \in Int
          /\ f[k + 1] = at[k] + Size(r)
          /\ f \in [0 .. k + 1 -> Int]
      BY <2>3, <2>6
    <3> QED
      BY <3>1
  <2>9. at[k] = Len(out) /\ at[0] = 0 - Len(buffer) /\ Len(buffer) \in {0, 1}
    BY <1>2, <2>2 DEF InStep, out, PoolTypes, PoolTypeOK, StreamTypes
  <2>10. next[0] = 0 - Len(buffer) /\ next[k + 1] = Len(stdout'[p])
    BY <1>5, <2>3, <2>7, <2>8, <2>9
  <2>11. ASSUME NEW i \in 0 .. k + 1, NEW j \in 0 .. k + 1, i < j PROVE next[i] < next[j]
    <3>1. \A a, b \in 0 .. k : a < b => at[a] < at[b]
      BY <2>2 DEF InStep
    <3>2. CASE j <= k
      BY <3>1, <3>2, <2>3, <2>8, <2>11
    <3>3. CASE j = k + 1
      <4>1. i \in 0 .. k /\ k \in 0 .. k
        BY <2>11, <3>3, <2>3
      <4>2. at[i] <= at[k]
        <5>1. i = k \/ i < k
          BY <4>1, <2>3
        <5> QED
          BY <5>1, <4>1, <3>1, <2>8
      <4> QED
        BY <4>1, <4>2, <3>3, <2>6, <2>8, SMTT(20)
    <3> QED
      BY <3>2, <3>3, <2>3
  <2>12. ASSUME NEW i \in 1 .. k + 1
         PROVE  /\ next[i] = next[i - 1] + Size(lookups[i])
                /\ next[i - 1] >= 0 => stdout'[p][next[i - 1] + 1] = <<lookups[i], "header">>
                /\ Size(lookups[i]) = 2 => stdout'[p][next[i - 1] + 2] = <<lookups[i], "body">>
    <3>1. CASE i = k + 1
      <4>1. i - 1 = k /\ lookups[i] = r
        BY <3>1, <2>3, <2>5
      <4>2. next[i] = at[k] + Size(r) /\ next[i - 1] = at[k]
        BY <3>1, <4>1, <2>3, <2>8
      <4> QED
        BY <4>1, <4>2, <1>5, <2>7, <2>9
    <3>2. CASE i <= k
      <4>1. i \in 1 .. k /\ i \in 0 .. k /\ i - 1 \in 0 .. k /\ k \in 0 .. k /\ 0 \in 0 .. k
        BY <3>2, <2>3
      <4>2. /\ at[i] = at[i - 1] + Size(lookups[i])
            /\ at[i - 1] >= 0 => stdout[p][at[i - 1] + 1] = <<lookups[i], "header">>
            /\ Size(lookups[i]) = 2 => stdout[p][at[i - 1] + 2] = <<lookups[i], "body">>
        BY <1>2, <2>2, <4>1 DEF InStep
      <4>3. at[i] <= at[k] /\ at[0] <= at[i - 1]
        <5>1. i = k \/ i < k
          BY <4>1, <2>3
        <5>2. i - 1 = 0 \/ 0 < i - 1
          BY <4>1, <2>3
        <5>3. \A a, b \in 0 .. k : a < b => at[a] < at[b]
          BY <2>2 DEF InStep
        <5> QED
          BY <5>1, <5>2, <5>3, <4>1, <2>8
      <4>4. Size(lookups[i]) \in {1, 2}
        BY DEF Size
      <4>5. at[i - 1] >= 0 => at[i - 1] + 1 \in 1 .. Len(out)
        BY <4>2, <4>3, <4>4, <4>1, <2>7, <2>8, <2>9, SMTT(20)
      <4>6. Size(lookups[i]) = 2 => at[i - 1] + 2 \in 1 .. Len(out)
        <5>1. at[i - 1] \in Int /\ at[i] \in Int /\ at[0] \in Int
          BY <4>1, <2>8
        <5>2. at[0] + 1 >= 0
          <6>1. CASE Len(buffer) = 0
            BY <6>1, <2>9
          <6>2. CASE Len(buffer) = 1
            BY <6>2, <2>9
          <6> QED
            BY <6>1, <6>2, <2>9
        <5>3. ASSUME Size(lookups[i]) = 2 PROVE at[i - 1] + 2 = at[i]
          BY <5>1, <5>3, <4>2
        <5>4. at[i] <= Len(out) /\ at[i - 1] + 1 >= 0
          BY <5>1, <5>2, <4>3, <2>9
        <5>5. ASSUME Size(lookups[i]) = 2 PROVE at[i - 1] + 2 \in 1 .. Len(out)
          <6>1. at[i - 1] + 2 <= Len(out) /\ 1 <= at[i - 1] + 2 /\ at[i - 1] + 2 \in Int
            <7>1. at[i - 1] + 2 = at[i]
              BY <5>3, <5>5
            <7>2. at[i - 1] + 2 <= Len(out)
              BY <7>1, <5>4
            <7>3. 1 <= at[i - 1] + 2 /\ at[i - 1] + 2 \in Int
              <8>1. \A x \in Int : x + 1 >= 0 => 1 <= x + 2 /\ x + 2 \in Int
                OBVIOUS
              <8>2. at[i - 1] \in Int /\ at[i - 1] + 1 >= 0
                BY <5>1, <5>4
              <8> QED
                BY <8>1, <8>2
            <7> QED
              BY <7>2, <7>3
          <6> QED
            BY <6>1, <2>7
        <5> QED
          BY <5>5
      <4>7. \A n \in 1 .. Len(out) : stdout'[p][n] = stdout[p][n]
        BY <1>5, <2>7 DEF out
      <4>8. next[i] = at[i] /\ next[i - 1] = at[i - 1]
        BY <4>1, <2>8
      <4> QED
        BY <4>2, <4>5, <4>6, <4>7, <4>8
    <3>3. i = k + 1 \/ i <= k
      BY <2>3
    <3> QED
      BY <3>1, <3>2, <3>3, Zenon
  <2>13. /\ Len(stdin'[p]) = Len(lookups) - (k + 1)
         /\ \A j \in 1 .. Len(stdin'[p]) : stdin'[p][j] = lookups[(k + 1) + j]
    <3>1. Len(stdin'[p]) = Len(lookups) - (k + 1)
      BY <1>4, <1>5, <2>3, <2>4
    <3>2. ASSUME NEW j \in 1 .. Len(stdin'[p]) PROVE stdin'[p][j] = lookups[(k + 1) + j]
      <4>1. j + 1 \in 1 .. Len(stdin[p]) /\ stdin'[p][j] = stdin[p][j + 1]
        BY <1>4, <1>5
      <4> QED
        BY <4>1, <2>3, <2>4
    <3> QED
      BY <3>1, <3>2
  <2>14. k + 1 \in 0 .. Len(lookups')
    BY <1>1, <1>4, <2>3, <2>4
  <2>15. buffer # <<>> => buffer = <<<<lookups[1], "header">>>> /\ Size(lookups[1]) = 2
    BY <2>2 DEF InStep
  <2>16. InStep(k + 1, next)'
    <3>1. proc' = p /\ process' = process /\ lookups' = lookups /\ buffer' = buffer
      BY <1>1, <1>2
    <3>2. k + 1 > 0
      BY <2>3
    <3>3. /\ \A i, j \in 0 .. k + 1 : i < j => next[i] < next[j]
          /\ next[0] = 0 - Len(buffer') /\ next[k + 1] = Len(stdout'[proc'])
      BY <3>1, <2>10, <2>11
    <3>4. \A i \in 1 .. k + 1 :
            /\ next[i] = next[i - 1] + Size(lookups[i])'
            /\ next[i - 1] >= 0 => stdout'[proc'][next[i - 1] + 1] = <<lookups'[i], "header">>
            /\ Size(lookups[i])' = 2 => stdout'[proc'][next[i - 1] + 2] = <<lookups'[i], "body">>
      BY <3>1, <2>12 DEF Size
    <3>5. /\ Len(stdin'[proc']) = Len(lookups') - (k + 1)
          /\ \A j \in 1 .. Len(stdin'[proc']) : stdin'[proc'][j] = lookups'[(k + 1) + j]
      BY <3>1, <2>13
    <3>6. buffer' # <<>> => k + 1 > 0 /\ buffer' = <<<<lookups'[1], "header">>>> /\ Size(lookups[1])' = 2
      BY <3>1, <3>2, <2>15 DEF Size
    <3> QED
      BY <3>3, <3>4, <3>5, <3>6 DEF InStep
  <2> QED
    BY <2>8, <2>14, <2>16
<1>8. AnswersInOrder'
  BY <1>7 DEF AnswersInOrder
<1> QED
  BY <1>6, <1>8 DEF Matched

(* One piece is taken from the front of the output, and with it, if d is   *)
(* 1, the lookup it ends.                                                  *)
LEMMA Advance ==
  ASSUME PoolTypes, NEW p \in Process, NEW d \in {0, 1},
         NEW k \in 0 .. Len(lookups), NEW at \in [0 .. k -> Int], InStep(k, at), k >= 1,
         proc = p, proc' = p, process' = process, stdin' = stdin,
         stdout[p] # <<>>, stdout'[p] = Tail(stdout[p]),
         at[d] >= 0, at[d] - 1 = 0 - Len(buffer'),
         Len(lookups') = Len(lookups) - d,
         \A i \in 1 .. Len(lookups') : lookups'[i] = lookups[i + d],
         buffer' # <<>> =>
           d = 0 /\ buffer' = <<<<lookups[1], "header">>>> /\ Size(lookups[1]) = 2
  PROVE  \E n \in 0 .. Len(lookups') : \E b \in [0 .. n -> Int] : InStep(n, b)'
<1>1. k \in Nat /\ k - d \in Nat /\ Len(lookups) \in Nat /\ k <= Len(lookups)
  BY DEF PoolTypes, PoolTypeOK
<1>2. PICK n : n = k - d
  OBVIOUS
<1>3. n \in 0 .. Len(lookups') /\ n \in Nat /\ n + d = k
  BY <1>1, <1>2
<1>4. PICK next \in [0 .. n -> Int] : \A i \in 0 .. n : next[i] = at[i + d] - 1
  <2> DEFINE f == [i \in 0 .. n |-> at[i + d] - 1]
  <2>1. \A i \in 0 .. n : i + d \in 0 .. k
    BY <1>3
  <2>2. f \in [0 .. n -> Int]
    BY <2>1, SMTT(20)
  <2>3. \A i \in 0 .. n : f[i] = at[i + d] - 1
    OBVIOUS
  <2> QED
    BY <2>2, <2>3
<1>5. /\ Len(stdout[p]) \in Nat \ {0} /\ Len(stdout'[p]) = Len(stdout[p]) - 1
      /\ \A i \in 1 .. Len(stdout'[p]) : stdout'[p][i] = stdout[p][i + 1]
  <2>1. stdout[p] \in Seq(Piece)
    BY DEF PoolTypes, StreamTypes
  <2> QED
    BY <2>1
<1>6. at[k] = Len(stdout[p]) /\ \A i, j \in 0 .. k : i < j => at[i] < at[j]
  BY DEF InStep
<1>7. /\ \A i \in 0 .. n : i + d \in 0 .. k
      /\ \A i \in 1 .. n : i + d \in 1 .. k /\ i - 1 \in 0 .. n /\ (i - 1) + d = (i + d) - 1
      /\ 0 \in 0 .. n /\ n \in 0 .. n
  BY <1>3, SMTT(20)
<1>8. next[0] = 0 - Len(buffer') /\ next[n] = Len(stdout'[p])
  <2>1. next[0] = at[d] - 1
    BY <1>4, <1>7
  <2>2. next[n] = at[k] - 1
    BY <1>3, <1>4, <1>7
  <2> QED
    BY <2>1, <2>2, <1>5, <1>6
<1>9. \A i, j \in 0 .. n : i < j => next[i] < next[j]
  <2> SUFFICES ASSUME NEW i \in 0 .. n, NEW j \in 0 .. n, i < j PROVE next[i] < next[j]
    OBVIOUS
  <2>1. i + d \in 0 .. k /\ j + d \in 0 .. k /\ i + d < j + d
    BY <1>7
  <2>2. at[i + d] < at[j + d] /\ at[i + d] \in Int /\ at[j + d] \in Int
    BY <2>1, <1>6
  <2>3. next[i] = at[i + d] - 1 /\ next[j] = at[j + d] - 1
    BY <1>4
  <2>4. \A x, y \in Int : x < y => x - 1 < y - 1
    OBVIOUS
  <2> QED
    BY <2>2, <2>3, <2>4
<1>10. ASSUME NEW i \in 1 .. n
       PROVE  /\ next[i] = next[i - 1] + Size(lookups'[i])
              /\ next[i - 1] >= 0 => stdout'[p][next[i - 1] + 1] = <<lookups'[i], "header">>
              /\ Size(lookups'[i]) = 2 => stdout'[p][next[i - 1] + 2] = <<lookups'[i], "body">>
  <2>1. i + d \in 1 .. k /\ i + d \in 0 .. k /\ (i + d) - 1 \in 0 .. k /\ i - 1 \in 0 .. n /\ i \in 0 .. n
    BY <1>7, <1>3
  <2>2. PICK m : m = at[(i + d) - 1]
    OBVIOUS
  <2>3. m \in Int /\ at[i + d] \in Int
    BY <2>1, <2>2
  <2>4. next[i] = at[i + d] - 1 /\ next[i - 1] = m - 1
    <3>1. (i - 1) + d = (i + d) - 1
      BY <1>7
    <3> QED
      BY <1>4, <2>1, <2>2, <3>1
  <2>5. lookups'[i] = lookups[i + d]
    <3>1. Len(lookups') \in Nat
      BY <1>1
    <3>2. i \in 1 .. Len(lookups')
      BY <3>1, <1>3
    <3> QED
      BY <3>2
  <2>6. /\ at[i + d] = m + Size(lookups'[i])
        /\ m >= 0 => stdout[p][m + 1] = <<lookups'[i], "header">>
        /\ Size(lookups'[i]) = 2 => stdout[p][m + 2] = <<lookups'[i], "body">>
    BY <2>1, <2>2, <2>5, ZenonT(30) DEF InStep
  <2>7. Size(lookups'[i]) \in {1, 2}
    BY DEF Size
  <2>8. at[i + d] <= Len(stdout[p])
    <3>1. i + d = k \/ i + d < k
      BY <2>1, <1>1
    <3>2. k \in 0 .. k
      BY <1>1
    <3> QED
      BY <3>1, <3>2, <2>1, <2>3, <1>5, <1>6, SMTT(20)
  <2>9. m >= 0
    <3>1. d = (i + d) - 1 \/ d < (i + d) - 1
      BY <1>3
    <3>2. d \in 0 .. k /\ at[d] \in Int
      BY <1>1
    <3>3. d < (i + d) - 1 => at[d] < m
      BY <3>2, <2>1, <2>2, <1>6
    <3> QED
      BY <3>1, <3>2, <3>3, <2>2, <2>3, SMTT(20)
  <2>10. next[i] = next[i - 1] + Size(lookups'[i])
    BY <2>3, <2>4, <2>6, <2>7, SMTT(20)
  <2>11. ASSUME next[i - 1] >= 0 PROVE stdout'[p][next[i - 1] + 1] = <<lookups'[i], "header">>
    <3>1. next[i - 1] + 1 = m /\ m >= 1
      BY <2>3, <2>4, <2>11
    <3>2. m \in 1 .. Len(stdout'[p])
      BY <3>1, <2>3, <2>6, <2>7, <2>8, <1>5
    <3>3. stdout'[p][m] = stdout[p][m + 1]
      BY <3>2, <1>5
    <3> QED
      BY <3>1, <3>3, <2>6, <2>9
  <2>12. ASSUME Size(lookups'[i]) = 2 PROVE stdout'[p][next[i - 1] + 2] = <<lookups'[i], "body">>
    <3>1. next[i - 1] + 2 = m + 1
      BY <2>3, <2>4
    <3>2. m + 1 \in 1 .. Len(stdout'[p])
      <4>1. m + 2 <= Len(stdout[p])
        BY <2>6, <2>8, <2>12
      <4> QED
        BY <4>1, <2>3, <2>9, <1>5
    <3>3. stdout'[p][m + 1] = stdout[p][(m + 1) + 1] /\ (m + 1) + 1 = m + 2
      BY <3>2, <2>3, <1>5
    <3> QED
      BY <3>1, <3>3, <2>6, <2>12
  <2> QED
    BY <2>10, <2>11, <2>12
<1>11. ASSUME process[proc] = "running"
       PROVE  /\ Len(stdin[p]) = Len(lookups') - n
              /\ \A j \in 1 .. Len(stdin[p]) : stdin[p][j] = lookups'[n + j]
  <2>1. /\ Len(stdin[p]) = Len(lookups) - k
        /\ \A j \in 1 .. Len(stdin[p]) : stdin[p][j] = lookups[k + j]
    BY <1>11 DEF InStep
  <2>2. Len(stdin[p]) = Len(lookups') - n
    BY <2>1, <1>1, <1>3
  <2>3. ASSUME NEW j \in 1 .. Len(stdin[p]) PROVE stdin[p][j] = lookups'[n + j]
    <3>1. n + j \in 1 .. Len(lookups') /\ (n + j) + d = k + j
      BY <2>2, <1>1, <1>3
    <3> QED
      BY <3>1, <2>1
  <2> QED
    BY <2>2, <2>3
<1>12. ASSUME buffer' # <<>>
       PROVE  n > 0 /\ buffer' = <<<<lookups'[1], "header">>>> /\ Size(lookups'[1]) = 2
  <2>1. d = 0 /\ n = k /\ 1 \in 1 .. Len(lookups')
    BY <1>12, <1>1, <1>3
  <2>2. lookups'[1] = lookups[1 + d] /\ 1 + d = 1
    BY <2>1
  <2> QED
    BY <2>1, <2>2, <1>12
<1>13. InStep(n, next)'
  <2>1. \A i \in 1 .. n :
            /\ next[i] = next[i - 1] + Size(lookups[i])'
            /\ next[i - 1] >= 0 => stdout'[proc'][next[i - 1] + 1] = <<lookups'[i], "header">>
            /\ Size(lookups[i])' = 2 => stdout'[proc'][next[i - 1] + 2] = <<lookups'[i], "body">>
    BY <1>10 DEF Size
  <2>2. process'[proc'] = "running" =>
          /\ Len(stdin'[proc']) = Len(lookups') - n
          /\ \A j \in 1 .. Len(stdin'[proc']) : stdin'[proc'][j] = lookups'[n + j]
    BY <1>11
  <2>3. buffer' # <<>> => n > 0 /\ buffer' = <<<<lookups'[1], "header">>>> /\ Size(lookups[1])' = 2
    BY <1>12 DEF Size
  <2> QED
    BY <2>1, <2>2, <2>3, <1>8, <1>9 DEF InStep
<1> QED
  BY <1>3, <1>13

(* The output of the pool's own process is what the first lookup waits     *)
(* for, unless that of another one was still to come.                      *)
LEMMA OwnOutput ==
  ASSUME PoolTypes, Matched, NEW p \in Process, p = proc,
         lookups # <<>>, "output" \notin stray, stdout[p] # <<>>,
         NEW first, first = lookups[1]
  PROVE  \E k \in 0 .. Len(lookups) : \E at \in [0 .. k -> Int] :
           /\ InStep(k, at) /\ k >= 1 /\ first \in Lookup
           /\ \/ /\ buffer = <<>> /\ Head(stdout[p]) = <<first, "header">>
                 /\ at[0] = 0 /\ at[1] = Size(first)
              \/ /\ buffer = <<<<first, "header">>>> /\ Head(stdout[p]) = <<first, "body">>
                 /\ at[1] = 1 /\ Size(first) = 2
<1>1. proc # NoProcess
  BY DEF Process, NoProcess
<1>2. PICK k \in 0 .. Len(lookups) : \E at \in [0 .. k -> Int] : InStep(k, at)
  BY <1>1 DEF Matched, AnswersInOrder
<1>3. PICK at \in [0 .. k -> Int] : InStep(k, at)
  BY <1>2
<1>4. /\ stdout[p] \in Seq(Piece) /\ Len(stdout[p]) \in Nat \ {0} /\ Head(stdout[p]) = stdout[p][1]
      /\ first \in Lookup /\ Len(lookups) \in Nat
      /\ Len(buffer) \in {0, 1} /\ (Len(buffer) = 0 <=> buffer = <<>>)
  <2>1. stdout[p] \in Seq(Piece) /\ lookups \in Seq(Lookup) /\ buffer \in Seq(Piece) /\ Len(buffer) <= 1
    BY DEF PoolTypes, PoolTypeOK, StreamTypes
  <2>2. Len(stdout[p]) \in Nat \ {0} /\ Head(stdout[p]) = stdout[p][1]
    BY <2>1
  <2>3. first \in Lookup /\ Len(lookups) \in Nat
    BY <2>1
  <2>4. Len(buffer) \in {0, 1} /\ (Len(buffer) = 0 <=> buffer = <<>>)
    <3>1. buffer # <<>> => Len(buffer) \in Nat \ {0}
      BY <2>1, EmptySeq, Zenon
    <3>2. buffer = <<>> => Len(buffer) = 0
      OBVIOUS
    <3>3. PICK n : n = Len(buffer)
      OBVIOUS
    <3>4. n \in Nat /\ n <= 1
      BY <2>1, <3>3
    <3>5. n \in {0, 1}
      BY <3>4
    <3>6. n = 0 => buffer = <<>>
      BY <3>1, <3>3
    <3> QED
      BY <3>2, <3>3, <3>5, <3>6
  <2> QED
    BY <2>1, <2>2, <2>3, <2>4
<1>5. at[0] = 0 - Len(buffer) /\ at[k] = Len(stdout[p])
  BY <1>3 DEF InStep
<1>6. k >= 1
  <2>1. k # 0
    <3>1. CASE Len(buffer) = 0
      BY <3>1, <1>4, <1>5
    <3>2. CASE Len(buffer) = 1
      BY <3>2, <1>4, <1>5
    <3> QED
      BY <3>1, <3>2, <1>4
  <2> QED
    BY <2>1, <1>4
<1>7. 1 \in 1 .. k /\ 0 \in 0 .. k /\ 1 \in 0 .. k /\ 1 - 1 = 0
  BY <1>4, <1>6
<1>8. /\ at[1] = at[0] + Size(first)
      /\ at[0] >= 0 => stdout[p][at[0] + 1] = <<first, "header">>
      /\ Size(first) = 2 => stdout[p][at[0] + 2] = <<first, "body">>
  BY <1>3, <1>7 DEF InStep
<1>9. Size(first) \in {1, 2}
  BY DEF Size
<1>10. CASE buffer = <<>>
  <2>1. at[0] = 0
    <3>1. Len(buffer) = 0
      BY <1>10
    <3> QED
      BY <3>1, <1>5
  <2> QED
    BY <2>1, <1>3, <1>4, <1>6, <1>8, <1>9, <1>10
<1>11. CASE buffer # <<>>
  <2>1. buffer = <<<<first, "header">>>> /\ Size(first) = 2
    BY <1>3, <1>11 DEF InStep
  <2>2. at[0] = 0 - 1
    BY <2>1, <1>5
  <2>3. at[0] + 2 = 1 /\ at[0] + Size(first) = 1
    BY <2>1, <2>2
  <2> QED
    BY <2>1, <2>3, <1>3, <1>4, <1>6, <1>8
<1> QED
  BY <1>10, <1>11

LEMMA DataKeeps ==
  ASSUME PoolTypes, Matched, NEW p \in Process, OnData(p)
  PROVE  Matched'
<1>1. PICK have, first : have = Append(buffer, Head(stdout[p])) /\ first = Head(lookups)
  OBVIOUS
<1>2. /\ stdout[p] # <<>> /\ stdout' = [stdout EXCEPT ![p] = Tail(stdout[p])]
      /\ UNCHANGED <<stdin, stray, poolFaults>>
  BY DEF OnData
<1>3. /\ stdout'[p] = Tail(stdout[p])
      /\ \A q \in Process : q # p => stdout'[q] = stdout[q]
      /\ \A q \in Process : stdout[q] = <<>> => stdout'[q] = <<>>
  BY <1>2 DEF PoolTypes, StreamTypes
<1>4. \/ lookups = <<>> /\ OnFatal(process)
      \/ lookups # <<>> /\ have[1][2] = "body" /\ OnFatal(process)
      \/ lookups # <<>> /\ have[1][2] = "body" /\ Resolves(first, "garbage")
      \/ /\ lookups # <<>> /\ have[1][2] # "body"
         /\ first \in Contents /\ have[1][1] \in Bodied /\ Len(have) = 1
         /\ buffer' = have
         /\ UNCHANGED <<process, proc, lookups, promise, got>>
      \/ /\ lookups # <<>> /\ have[1][2] # "body"
         /\ ~(first \in Contents /\ have[1][1] \in Bodied /\ Len(have) = 1)
         /\ Resolves(first, IF have[Len(have)][1] = have[1][1] THEN have[1][1] ELSE "garbage")
  BY <1>1, Zenon DEF OnData
<1>5. lookups # <<>> /\ p # proc => "output" \in stray
  BY <1>2 DEF Matched, OthersSilent
<1>6. first = lookups[1]
  BY <1>1
<1>7. ASSUME lookups # <<>>, "output" \notin stray
      PROVE  /\ p = proc /\ first \in Lookup
             /\ have[1] = <<first, "header">> /\ have[Len(have)][1] = first
             /\ Len(have) = 1 /\ first \in Contents /\ first \in Bodied =>
                  \E k \in 0 .. Len(lookups) : \E at \in [0 .. k -> Int] :
                    InStep(k, at) /\ k >= 1 /\ at[0] = 0 /\ Size(first) = 2
             /\ ~(Len(have) = 1 /\ first \in Contents /\ first \in Bodied) =>
                  \E k \in 0 .. Len(lookups) : \E at \in [0 .. k -> Int] :
                    InStep(k, at) /\ k >= 1 /\ at[1] = 1
  <2>1. p = proc
    BY <1>5, <1>7
  <2> DEFINE Fits(k, at) ==
           /\ InStep(k, at) /\ k >= 1 /\ first \in Lookup
           /\ \/ /\ buffer = <<>> /\ Head(stdout[p]) = <<first, "header">>
                 /\ at[0] = 0 /\ at[1] = Size(first)
              \/ /\ buffer = <<<<first, "header">>>> /\ Head(stdout[p]) = <<first, "body">>
                 /\ at[1] = 1 /\ Size(first) = 2
  <2>6. \E k \in 0 .. Len(lookups) : \E at \in [0 .. k -> Int] : Fits(k, at)
    BY <1>2, <1>6, <1>7, <2>1, OwnOutput
  <2>7. PICK k \in 0 .. Len(lookups) : \E at \in [0 .. k -> Int] : Fits(k, at)
    BY <2>6
  <2>2. PICK at \in [0 .. k -> Int] : Fits(k, at)
    BY <2>7
  <2>3. Size(first) \in {1, 2} /\ (Size(first) = 2 <=> first \in Contents /\ first \in Bodied)
    BY <2>2, PiecesOf
  <2>4. CASE buffer = <<>> /\ Head(stdout[p]) = <<first, "header">> /\ at[0] = 0 /\ at[1] = Size(first)
    <3>1. have = <<<<first, "header">>>>
      BY <1>1, <2>4
    <3> QED
      BY <2>1, <2>2, <2>3, <2>4, <3>1
  <2>5. CASE buffer = <<<<first, "header">>>> /\ Head(stdout[p]) = <<first, "body">> /\ at[1] = 1 /\ Size(first) = 2
    <3>1. buffer \in Seq(Piece) /\ Head(stdout[p]) \in Piece
      BY <1>2 DEF PoolTypes, StreamTypes
    <3>2. Len(buffer) = 1 /\ buffer[1] = <<first, "header">>
      BY <2>5
    <3>3. Len(have) = 2 /\ have[1] = <<first, "header">> /\ have[2] = <<first, "body">>
      BY <1>1, <2>5, <3>1, <3>2
    <3>4. have[Len(have)][1] = first
      BY <3>3
    <3> QED
      BY <2>1, <2>2, <2>3, <2>5, <3>3, <3>4
  <2> QED
    BY <2>2, <2>4, <2>5
<1>8. CASE OnFatal(process) /\ (lookups = <<>> \/ have[1][2] = "body")
  <2>1. lookups # <<>> => stray # {}
    BY <1>7, <1>8
  <2>2. process \in [Process -> ProcessState]
    BY DEF PoolTypes, PoolTypeOK, ProcessState
  <2>3. poolFaults' \in Nat /\ poolFaults' >= poolFaults
    BY <1>2 DEF PoolTypes, StreamTypes
  <2> QED
    BY <1>2, <1>3, <1>8, <2>1, <2>2, <2>3, FatalKeeps
<1>9. ASSUME UNCHANGED <<process, proc>>, lookups # <<>> PROVE OneRuns' /\ OthersSilent'
  <2>1. proc # NoProcess
    BY <1>9 DEF Matched, OthersSilent
  <2>2. \A q \in Process : process[q] = "unborn" => stdout'[q] = <<>>
    BY <1>3 DEF Matched, OneRuns
  <2>3. OneRuns'
    BY <1>2, <1>9, <2>2 DEF Matched, OneRuns
  <2>4. OthersSilent'
    BY <1>2, <1>3, <1>9, <2>1 DEF Matched, OthersSilent
  <2> QED
    BY <2>3, <2>4
<1>10. ASSUME lookups # <<>>, have[1][2] # "body",
              first \in Contents, have[1][1] \in Bodied, Len(have) = 1,
              buffer' = have,
              UNCHANGED <<process, proc, lookups, promise, got>>
       PROVE  Matched'
  <2>1. OwnAnswer' /\ OnlyFaultsReject'
    BY <1>2, <1>10 DEF Matched, OwnAnswer, OnlyFaultsReject
  <2>2. ASSUME "output" \notin stray'
        PROVE  \E n \in 0 .. Len(lookups') : \E b \in [0 .. n -> Int] : InStep(n, b)'
    <3>1. "output" \notin stray
      BY <1>2, <2>2
    <3>2. p = proc /\ have[1] = <<first, "header">> /\ first \in Bodied
      BY <1>7, <1>10, <3>1
    <3>10. PICK k \in 0 .. Len(lookups) : \E at \in [0 .. k -> Int] :
             InStep(k, at) /\ k >= 1 /\ at[0] = 0 /\ Size(first) = 2
      BY <1>7, <1>10, <3>1, <3>2
    <3>3. PICK at \in [0 .. k -> Int] : InStep(k, at) /\ k >= 1 /\ at[0] = 0 /\ Size(first) = 2
      BY <3>10
    <3>4. have = <<<<first, "header">>>>
      <4>1. buffer \in Seq(Piece) /\ Head(stdout[p]) \in Piece
        BY <1>2 DEF PoolTypes, StreamTypes
      <4>2. Len(have) = Len(buffer) + 1 /\ Len(buffer) \in Nat
        BY <4>1, <1>1
      <4>3. buffer = <<>>
        <5>1. buffer # <<>> => Len(buffer) \in Nat \ {0}
          BY <4>1, EmptySeq, Zenon
        <5>2. Len(buffer) \notin Nat \ {0}
          <6>1. \A n \in Nat : n + 1 = 1 => n = 0
            OBVIOUS
          <6> QED
            BY <6>1, <4>2, <1>10
        <5> QED
          BY <5>1, <5>2
      <4>4. have = <<Head(stdout[p])>>
        BY <4>3, <1>1
      <4> QED
        BY <4>4, <3>2
    <3>5. at[0] >= 0 /\ at[0] - 1 = 0 - Len(buffer')
      <4>1. Len(buffer') = 1
        BY <1>10
      <4> QED
        BY <3>3, <4>1
    <3>6. \A i \in 1 .. Len(lookups') : lookups'[i] = lookups[i + 0]
      BY <1>10
    <3>7. Len(lookups') = Len(lookups) - 0
      BY <1>10 DEF PoolTypes, PoolTypeOK
    <3>8. buffer' = <<<<lookups[1], "header">>>> /\ Size(lookups[1]) = 2
      BY <1>6, <1>10, <3>3, <3>4
    <3>9. 0 \in {0, 1} /\ proc' = p /\ process' = process
      BY <1>10, <3>2
    <3> QED
      BY <1>2, <1>3, <3>2, <3>3, <3>5, <3>6, <3>7, <3>8, <3>9, Advance
  <2>3. AnswersInOrder'
    BY <2>2 DEF AnswersInOrder
  <2> QED
    BY <1>9, <1>10, <2>1, <2>3 DEF Matched
<1>11. ASSUME NEW with, lookups # <<>>, Resolves(first, with),
              "output" \notin stray =>
                with = first /\ ~(Len(have) = 1 /\ first \in Contents /\ first \in Bodied)
       PROVE  Matched'
  <2>1. /\ promise' = [promise EXCEPT ![first] = "resolved"]
        /\ got' = [got EXCEPT ![first] = with]
        /\ lookups' = Tail(lookups) /\ buffer' = <<>>
        /\ UNCHANGED <<proc, process>>
    BY <1>11 DEF Resolves
  <2>2. /\ \A r \in Lookup : promise'[r] = IF r = first THEN "resolved" ELSE promise[r]
        /\ \A r \in Lookup : got'[r] = IF r = first THEN with ELSE got[r]
    BY <2>1 DEF PoolTypes, PoolTypeOK
  <2>3. OwnAnswer'
    BY <1>2, <1>11, <2>2 DEF Matched, OwnAnswer
  <2>4. OnlyFaultsReject'
    BY <1>2, <2>2 DEF Matched, OnlyFaultsReject
  <2>5. OneRuns' /\ OthersSilent'
    <3>1. proc # NoProcess
      BY <1>11 DEF Matched, OthersSilent
    <3>2. \A q \in Process : process[q] = "unborn" => stdout'[q] = <<>>
      BY <1>3 DEF Matched, OneRuns
    <3>3. OneRuns'
      BY <1>2, <2>1, <3>2 DEF Matched, OneRuns
    <3>4. OthersSilent'
      BY <1>2, <1>3, <1>11, <2>1, <3>1 DEF Matched, OthersSilent
    <3> QED
      BY <3>3, <3>4
  <2>6. ASSUME "output" \notin stray'
        PROVE  \E n \in 0 .. Len(lookups') : \E b \in [0 .. n -> Int] : InStep(n, b)'
    <3>1. "output" \notin stray
      BY <1>2, <2>6
    <3>2. p = proc
      BY <1>5, <1>11, <3>1
    <3>7. PICK k \in 0 .. Len(lookups) : \E at \in [0 .. k -> Int] :
             InStep(k, at) /\ k >= 1 /\ at[1] = 1
      BY <1>7, <1>11, <3>1
    <3>3. PICK at \in [0 .. k -> Int] : InStep(k, at) /\ k >= 1 /\ at[1] = 1
      BY <3>7
    <3>4. Len(lookups') = Len(lookups) - 1 /\ \A i \in 1 .. Len(lookups') : lookups'[i] = lookups[i + 1]
      <4>1. lookups \in Seq(Lookup)
        BY DEF PoolTypes, PoolTypeOK
      <4> QED
        BY <4>1, <1>11, <2>1
    <3>5. at[1] >= 0 /\ at[1] - 1 = 0 - Len(buffer')
      <4>1. Len(buffer') = 0
        BY <2>1
      <4> QED
        BY <3>3, <4>1
    <3>6. 1 \in {0, 1} /\ proc' = p /\ process' = process
      BY <2>1, <3>2
    <3> QED
      BY <1>2, <1>3, <2>1, <3>2, <3>3, <3>4, <3>5, <3>6, Advance
  <2>7. AnswersInOrder'
    BY <2>6 DEF AnswersInOrder
  <2> QED
    BY <2>3, <2>4, <2>5, <2>7 DEF Matched
<1>12. ASSUME lookups # <<>>, have[1][2] = "body", Resolves(first, "garbage") PROVE Matched'
  <2>1. "output" \in stray
    BY <1>7, <1>12
  <2> QED
    BY <1>11, <1>12, <2>1
<1>13. ASSUME lookups # <<>>, have[1][2] # "body",
              ~(first \in Contents /\ have[1][1] \in Bodied /\ Len(have) = 1),
              Resolves(first, IF have[Len(have)][1] = have[1][1] THEN have[1][1] ELSE "garbage")
       PROVE  Matched'
  <2>1. ASSUME "output" \notin stray
        PROVE  /\ (IF have[Len(have)][1] = have[1][1] THEN have[1][1] ELSE "garbage") = first
               /\ ~(Len(have) = 1 /\ first \in Contents /\ first \in Bodied)
    <3>1. have[1] = <<first, "header">> /\ have[Len(have)][1] = first
      BY <1>7, <1>13, <2>1
    <3>2. have[1][1] = first
      BY <3>1
    <3> QED
      BY <1>13, <3>1, <3>2
  <2> QED
    BY <1>11, <1>13, <2>1
<1> QED
  BY <1>4, <1>8, <1>10, <1>12, <1>13

(* The pool's own process dies only for a fault. *)
LEMMA DeathKeeps ==
  ASSUME PoolTypes, Matched, NEW p \in Process, ProcessDies(p)
  PROVE  Matched'
<1>1. /\ \/ process[p] = "killed" /\ poolFaults' = poolFaults
         \/ process[p] = "running" /\ poolFaults' = poolFaults + 1
      /\ process' = [process EXCEPT ![p] = "dead"]
      /\ stdin' = [stdin EXCEPT ![p] = <<>>]
      /\ UNCHANGED <<stdout, proc, lookups, buffer, promise, got, stray>>
  BY DEF ProcessDies, PoolFault, matching
<1>2. /\ \A q \in Process : process'[q] = IF q = p THEN "dead" ELSE process[q]
      /\ \A q \in Process : stdin'[q] = IF q = p THEN <<>> ELSE stdin[q]
      /\ poolFaults \in Nat
  BY <1>1 DEF PoolTypes, PoolTypeOK, StreamTypes
<1>3. p # proc => process[p] = "killed"
  BY <1>1 DEF Matched, OneRuns
<1>4. p = proc => process[p] = "running"
  BY <1>1 DEF Matched, OneRuns, Process, NoProcess
<1>5. OneRuns'
  BY <1>1, <1>2, <1>3, <1>4 DEF Matched, OneRuns, PoolTypes, PoolTypeOK
<1>6. OthersSilent'
  BY <1>1, <1>2, <1>3 DEF Matched, OthersSilent
<1>7. ASSUME proc' # NoProcess, "output" \notin stray'
      PROVE  \E n \in 0 .. Len(lookups') : \E b \in [0 .. n -> Int] : InStep(n, b)'
  <2>1. PICK k \in 0 .. Len(lookups) : \E at \in [0 .. k -> Int] : InStep(k, at)
    BY <1>1, <1>7 DEF Matched, AnswersInOrder
  <2>2. PICK at \in [0 .. k -> Int] : InStep(k, at)
    BY <2>1
  <2>3. proc \in Process /\ proc' = proc
    BY <1>1, <1>7 DEF PoolTypes, PoolTypeOK
  <2>4. process'[proc] = "running" => process[proc] = "running" /\ stdin'[proc] = stdin[proc]
    BY <1>2, <2>3
  <2>5. InStep(k, at)'
    BY <1>1, <2>2, <2>4, ZenonT(30) DEF InStep, Size
  <2> QED
    BY <1>1, <2>5
<1>8. AnswersInOrder'
  BY <1>7 DEF AnswersInOrder
<1>9. OwnAnswer' /\ OnlyFaultsReject'
  BY <1>1, <1>2 DEF Matched, OwnAnswer, OnlyFaultsReject
<1> QED
  BY <1>5, <1>6, <1>8, <1>9 DEF Matched

LEMMA ExitKeeps ==
  ASSUME PoolTypes, Matched, NEW p \in Process, OnExit(p)
  PROVE  Matched'
<1>1. PICK dies : dies = [process EXCEPT ![p] = "gone"]
  OBVIOUS
<1>2. /\ process[p] = "dead" /\ OnFatal(dies)
      /\ stray \subseteq stray'
      /\ UNCHANGED <<stdin, stdout, poolFaults>>
  BY <1>1 DEF OnExit
<1>3. /\ dies \in [Process -> ProcessState]
      /\ \A q \in Process : dies[q] = process[q] \/ dies[q] = "gone"
  BY <1>1 DEF PoolTypes, PoolTypeOK, ProcessState
<1>4. ASSUME lookups # <<>> PROVE poolFaults' > 0 \/ stray' # {}
  <2>1. CASE p = proc
    BY <1>2, <2>1 DEF Matched, OneRuns, Process, NoProcess
  <2>2. CASE p # proc
    BY <1>2, <1>4, <2>2 DEF Matched, OthersSilent
  <2> QED
    BY <2>1, <2>2
<1>5. poolFaults' \in Nat /\ poolFaults' >= poolFaults
  BY <1>2 DEF PoolTypes, StreamTypes
<1> QED
  BY <1>2, <1>3, <1>4, <1>5, FatalKeeps

LEMMA CloseKeeps ==
  ASSUME PoolTypes, Matched, ClosePool
  PROVE  Matched'
<1>1. /\ OnFatal(process) /\ poolFaults' = poolFaults + 1
      /\ UNCHANGED <<stdin, stdout, stray>>
  BY DEF ClosePool, PoolFault
<1>2. process \in [Process -> ProcessState] /\ poolFaults \in Nat
  BY DEF PoolTypes, PoolTypeOK, StreamTypes, ProcessState
<1>3. poolFaults' \in Nat /\ poolFaults' >= poolFaults /\ poolFaults' > 0
  BY <1>1, <1>2
<1> QED
  BY <1>1, <1>2, <1>3, FatalKeeps

(* The idle timer finds nothing received in part, since nobody waits. *)
LEMMA ReapKeeps ==
  ASSUME PoolTypes, Matched, Reap
  PROVE  Matched'
<1>1. /\ lookups = <<>> /\ proc' = NoProcess
      /\ UNCHANGED <<stdin, stdout, lookups, buffer, promise, got, stray, poolFaults>>
      /\ \A p \in Process :
           process'[p] = IF p = proc /\ process[p] = "running" THEN "killed" ELSE process[p]
  BY DEF Reap
<1>2. OneRuns'
  BY <1>1 DEF Matched, OneRuns
<1>3. buffer = <<>> \/ "output" \in stray
  <2>1. CASE proc = NoProcess
    BY <2>1 DEF Matched, OthersSilent
  <2>2. ASSUME proc # NoProcess, "output" \notin stray PROVE buffer = <<>>
    <3>1. PICK k \in 0 .. Len(lookups) : \E at \in [0 .. k -> Int] : InStep(k, at)
      BY <2>2 DEF Matched, AnswersInOrder
    <3>2. k = 0
      BY <1>1
    <3> QED
      BY <3>1, <3>2 DEF InStep
  <2> QED
    BY <2>1, <2>2
<1>4. OthersSilent' /\ AnswersInOrder'
  BY <1>1, <1>3 DEF OthersSilent, AnswersInOrder
<1>5. OwnAnswer' /\ OnlyFaultsReject'
  BY <1>1 DEF Matched, OwnAnswer, OnlyFaultsReject
<1> QED
  BY <1>2, <1>4, <1>5 DEF Matched

(* Steps that leave the processes and what was written alone. *)
LEMMA AsideKeeps ==
  ASSUME PoolTypes, Matched,
         UNCHANGED <<process, stdin, stdout, proc, lookups, buffer, stray>>,
         poolFaults' \in Nat, poolFaults' >= poolFaults,
         OwnAnswer', OnlyFaultsReject'
  PROVE  Matched'
<1>1. poolFaults \in Nat
  BY DEF PoolTypes, StreamTypes
<1>2. OneRuns'
  BY <1>1 DEF Matched, OneRuns
<1>3. OthersSilent'
  BY DEF Matched, OthersSilent
<1>4. AnswersInOrder'
  <2> SUFFICES ASSUME proc # NoProcess, "output" \notin stray
               PROVE  \E k \in 0 .. Len(lookups) : \E at \in [0 .. k -> Int] : InStep(k, at)'
    BY Zenon DEF AnswersInOrder
  <2>1. PICK k \in 0 .. Len(lookups) : \E at \in [0 .. k -> Int] : InStep(k, at)
    BY DEF Matched, AnswersInOrder
  <2>2. PICK at \in [0 .. k -> Int] : InStep(k, at)
    BY <2>1
  <2>3. InStep(k, at)'
    BY <2>2 DEF InStep, Size
  <2> QED
    BY <2>3
<1> QED
  BY <1>2, <1>3, <1>4 DEF Matched

LEMMA MatchedKept == PoolTypes /\ Matched /\ [PoolNext]_poolVars => Matched'
<1> SUFFICES ASSUME PoolTypes, Matched, [PoolNext]_poolVars PROVE Matched'
  OBVIOUS
<1>1. ASSUME NEW r \in Lookup, Enqueue(r) PROVE Matched'
  BY <1>1, EnqueueKeeps
<1>2. ASSUME NEW r \in Lookup, InfoViaBatchCheck(r) PROVE Matched'
  <2>1. UNCHANGED <<process, stdin, stdout, proc, lookups, buffer, stray>>
    BY <1>2 DEF InfoViaBatchCheck, piping
  <2>2. poolFaults \in Nat /\ (poolFaults' = poolFaults \/ poolFaults' = poolFaults + 1)
    BY <1>2 DEF InfoViaBatchCheck, PoolFault, PoolTypes, StreamTypes
  <2>3. /\ \A q \in Lookup : q # r => promise'[q] = promise[q] /\ got'[q] = got[q]
        /\ promise'[r] = "resolved" => got'[r] = r
        /\ promise'[r] = "rejected" => poolFaults' = poolFaults + 1
    BY <1>2 DEF InfoViaBatchCheck, PoolFault, PoolTypes, PoolTypeOK
  <2>4. OwnAnswer'
    BY <2>1, <2>3 DEF Matched, OwnAnswer
  <2>5. OnlyFaultsReject'
    BY <2>1, <2>2, <2>3 DEF Matched, OnlyFaultsReject
  <2>6. poolFaults' \in Nat /\ poolFaults' >= poolFaults
    BY <2>2
  <2> QED
    BY <2>1, <2>4, <2>5, <2>6, AsideKeeps
<1>3. ASSUME UNCHANGED <<process, stdin, stdout, proc, lookups, buffer, promise, got, stray>>,
             poolFaults' \in Nat, poolFaults' >= poolFaults
      PROVE  Matched'
  <2>1. OwnAnswer' /\ OnlyFaultsReject'
    BY <1>3 DEF Matched, OwnAnswer, OnlyFaultsReject, PoolTypes, StreamTypes
  <2> QED
    BY <1>3, <2>1, AsideKeeps
<1>4. ASSUME NEW r \in Lookup, Collect(r) PROVE Matched'
  <2>1. /\ UNCHANGED <<process, stdin, stdout, proc, lookups, buffer, promise, got, stray>>
        /\ poolFaults' \in Nat /\ poolFaults' >= poolFaults
    BY <1>4 DEF Collect, piping, matching, PoolTypes, StreamTypes
  <2> QED
    BY <1>3, <2>1
<1>5. ASSUME NEW p \in Process, GitAnswers(p) PROVE Matched'
  BY <1>5, AnswersKeep
<1>6. ASSUME NEW p \in Process, OnData(p) PROVE Matched'
  BY <1>6, DataKeeps
<1>7. ASSUME NEW p \in Process, ProcessDies(p) PROVE Matched'
  BY <1>7, DeathKeeps
<1>8. ASSUME NEW p \in Process, OnExit(p) PROVE Matched'
  BY <1>8, ExitKeeps
<1>9. CASE FlushChecks
  <2>1. /\ UNCHANGED <<process, stdin, stdout, proc, lookups, buffer, promise, got, stray>>
        /\ poolFaults' \in Nat /\ poolFaults' >= poolFaults
    BY <1>9 DEF FlushChecks, PoolFault, piping, matching, PoolTypes, StreamTypes
  <2> QED
    BY <1>3, <2>1
<1>10. CASE UNCHANGED poolVars
  <2>1. /\ UNCHANGED <<process, stdin, stdout, proc, lookups, buffer, promise, got, stray>>
        /\ poolFaults' \in Nat /\ poolFaults' >= poolFaults
    BY <1>10 DEF poolVars, piping, matching, PoolTypes, StreamTypes
  <2> QED
    BY <1>3, <2>1
<1> QED
  BY <1>1, <1>2, <1>4, <1>5, <1>6, <1>7, <1>8, <1>9, <1>10, ReapKeeps, CloseKeeps DEF PoolNext

LEMMA MatchedInitially == PoolInit => Matched
<1> SUFFICES ASSUME PoolInit PROVE Matched
  OBVIOUS
<1>1. OneRuns
  BY DEF PoolInit, OneRuns
<1>2. OthersSilent /\ AnswersInOrder
  BY DEF PoolInit, OthersSilent, AnswersInOrder
<1>3. OwnAnswer /\ OnlyFaultsReject
  BY DEF PoolInit, OwnAnswer, OnlyFaultsReject
<1> QED
  BY <1>1, <1>2, <1>3 DEF Matched

LEMMA PoolInvAlways == PoolSpec => [](PoolTypes /\ Matched)
<1>1. PoolInit => PoolTypes /\ Matched
  BY TypesInit, MatchedInitially
<1>2. PoolTypes /\ Matched /\ [PoolNext]_poolVars => PoolTypes' /\ Matched'
  BY TypesKept, MatchedKept
<1> QED
  BY <1>1, <1>2, PTL DEF PoolSpec

(* Positions match: whatever number of lookups is written ahead, processes *)
(* die and answers are cut, a lookup gets the answer of its own object     *)
(* unless a process that was given up could still write (#onData).         *)
THEOREM LookupsGetTheirOwn == PoolSpec => []OwnAnswer
<1>1. PoolTypes /\ Matched => OwnAnswer
  BY DEF Matched
<1> QED
  BY <1>1, PoolInvAlways, PTL

(* #onFatal: no lookup is rejected without a fault or the late exit or     *)
(* output of a process given up before it.                                 *)
THEOREM RejectionHasACause == PoolSpec => []OnlyFaultsReject
<1>1. PoolTypes /\ Matched => OnlyFaultsReject
  BY DEF Matched
<1> QED
  BY <1>1, PoolInvAlways, PTL
=============================================================================
