---------------------------- MODULE FindingsScan ----------------------------
(***************************************************************************)
(* Staleness scanning of one artifact: the registry that starts and stops  *)
(* it with the session (daemon/staleness-registry.ts), the watcher that    *)
(* triggers it (staleness-watch.ts), the pass that classifies every anchor *)
(* (staleness.ts) and the findings it leaves (store/findings-store.ts),    *)
(* which the reader dismisses meanwhile (server.ts).                       *)
(*                                                                         *)
(* Each start makes an incarnation: a watcher, a scan loop and an instance *)
(* of the findings store whose mutex no other instance shares.  `resolve`  *)
(* compares the file at HEAD with the file at the anchor's pinned commit;  *)
(* a file with uncommitted changes cannot be determined.                   *)
(***************************************************************************)
EXTENDS Naturals, FiniteSets, Sequences

CONSTANTS
  Anchor,      \* anchored regions, each in a directory of its own
  History,     \* what each commit says in each region
  Gone,        \* what it says where a region is not there
  ForceUnhealthy, \* the registry's option of that name
  Request,     \* requests to dismiss that may be under way at a time
  Earlier,     \* what earlier sessions may have left in the file
  MaxStarts,   \* bound on incarnations
  Budgets      \* bounds on what happens in a behaviour: starts, changes by
               \* the user, faults of files, watches and git, dismissals

Incarnation == 1 .. MaxStarts
Nobody == 0
Revision == 0 .. Len(History)  \* a commit; 0 is the empty revision of a failed lookup
Unread == Len(History) + 1     \* a revision nothing has
Rule == {"drift-touched", "drift-lost"}
Fingerprint == Rule \X Anchor
NoFinding == [status |-> "none", seen |-> Unread, dismissedAt |-> Unread]
NoFindings == [f \in Fingerprint |-> NoFinding]
Finding == [status : {"none", "open", "resolved", "dismissed"},
            seen : Revision \cup {Unread},
            dismissedAt : Revision \cup {Unread}]

ASSUME ScanAssumption ==
  /\ Len(History) \in Nat \ {0} /\ DOMAIN History = 1 .. Len(History)
  /\ \A c \in 1 .. Len(History) : DOMAIN History[c] = Anchor
  /\ MaxStarts \in Nat
  /\ {"none", "scan"} \cap Request = {}
  /\ Budgets \subseteq [starts : 0 .. MaxStarts, changes : Nat, faults : Nat, dismissals : Nat]
  /\ Earlier \subseteq [Fingerprint -> Finding]

VARIABLES
  head,      \* the commit HEAD is at
  dirty,     \* regions with uncommitted changes
  pins,      \* the commit each region is pinned to, 0 if the artifact has no such anchor
  tracked,   \* the incarnation the registry holds
  born,      \* incarnations so far
  loop,      \* where each incarnation's scan loop stands
  requested, \* incarnations with `rescanRequested`
  watcher,   \* what became of each watcher
  armed,     \* incarnations whose debounce timer runs
  dirs,      \* regions whose directories each incarnation watches
  inputs,    \* pins the pass has read
  class,     \* what the pass has found so far
  revision,  \* the HEAD the pass read after classifying
  holder,    \* who is inside each instance's mutex
  copy,      \* the findings the scan has read there
  findings,  \* the file
  dismissal, \* the requests to dismiss, with what each has read
  owed,      \* history: triggers since the pass in flight began
  excuse,    \* history: how two instances came to work on the file
  left       \* what is left of the budget

source == <<head, dirty, pins>>
looping == <<loop, requested, inputs, class, revision, owed>>
watching == <<watcher, armed, dirs>>
storing == <<holder, copy, findings>>
registry == <<tracked, born, excuse>>
scanVars == <<source, looping, watching, storing, registry, dismissal,
              left>>

Class == {"unchanged", "touched", "lost", "cannot-determine"}
Running == {"read", "classify", "lock", "apply", "rewatch"}
Unpinned == [a \in Anchor |-> 0]
Unclassified == [a \in Anchor |-> "todo"]
NoDismissal == [at |-> "none", via |-> Nobody, fingerprint |-> {}, read |-> NoFindings]

ScanTypeOK ==
  /\ head \in DOMAIN History
  /\ dirty \subseteq Anchor
  /\ pins \in [Anchor -> Revision]
  /\ tracked \in Incarnation \cup {Nobody}
  /\ loop \in [Incarnation -> {"none", "idle"} \cup Running]
  /\ requested \subseteq Incarnation
  /\ watcher \in [Incarnation -> {"none", "open", "sick", "closed"}]
  /\ armed \subseteq Incarnation
  /\ dirs \in [Incarnation -> SUBSET Anchor]
  /\ inputs \in [Incarnation -> [Anchor -> Revision]]
  /\ class \in [Incarnation -> [Anchor -> Class \cup {"todo"}]]
  /\ revision \in [Incarnation -> Revision]
  /\ holder \in [Incarnation -> {"none", "scan"} \cup Request]
  /\ findings \in [Fingerprint -> Finding]
  /\ \A r \in Request : dismissal[r].at \in {"none", "lock", "write"}

ScanInit ==
  /\ head = 1
  /\ dirty = {}
  /\ pins = [a \in Anchor |-> 1]
  /\ tracked = Nobody
  /\ born = 0
  /\ loop = [i \in Incarnation |-> "none"]
  /\ requested = {}
  /\ watcher = [i \in Incarnation |-> "none"]
  /\ armed = {}
  /\ dirs = [i \in Incarnation |-> {}]
  /\ inputs = [i \in Incarnation |-> Unpinned]
  /\ class = [i \in Incarnation |-> Unclassified]
  /\ revision = [i \in Incarnation |-> 0]
  /\ holder = [i \in Incarnation |-> "none"]
  /\ copy = [i \in Incarnation |-> NoFindings]
  /\ findings \in {NoFindings} \cup Earlier
  /\ dismissal = [r \in Request |-> NoDismissal]
  /\ owed = {}
  /\ excuse = "none"
  /\ left \in Budgets

Spend(what) == left[what] > 0 /\ left' = [left EXCEPT ![what] = @ - 1]
Fault == Spend("faults")
NoFault == UNCHANGED left

----------------------------------------------------------------------------
(* The reducers, one fingerprint at a time. *)

Open(r) == [status |-> "open", seen |-> r, dismissedAt |-> Unread]

RecordDetection(f, r) ==
  IF \/ f.status = "open" /\ f.seen = r
     \/ f.status = "dismissed" /\ f.dismissedAt = r
  THEN f
  ELSE Open(r)

RecordAbsence(f, r) ==
  IF f.status = "open" /\ f.seen # r THEN [f EXCEPT !.status = "resolved"] ELSE f

DismissFinding(f) ==
  IF f.status \in {"none", "dismissed"}
  THEN f
  ELSE [f EXCEPT !.status = "dismissed", !.dismissedAt = f.seen]

RuleOf(c) == CASE c = "touched" -> "drift-touched" [] c = "lost" -> "drift-lost" [] OTHER -> "none"

(* Slip: a file that is gone is not reported. *)
DetectedTouched(i) == {f \in Fingerprint : f[1] = "drift-touched" /\ class[i][f[2]] = "touched"}

(* planScanObservations: one detection for a loud class, both absences for *)
(* a quiet one, nothing for an anchor that is not eligible.                *)
Detected(i) == {f \in Fingerprint : f[1] = RuleOf(class[i][f[2]])}
Absent(i) == {f \in Fingerprint : class[i][f[2]] = "unchanged"}

ApplyScanObservations(store, i) ==
  [f \in Fingerprint |->
    IF f \in Detected(i) THEN RecordDetection(store[f], revision[i])
    ELSE IF f \in Absent(i) THEN RecordAbsence(store[f], revision[i])
    ELSE store[f]]

ClassAt(c, pin, a) ==
  CASE History[c][a] = Gone -> "lost"
    [] History[c][a] # Gone /\ History[c][a] = History[pin][a] -> "unchanged"
    [] OTHER -> "touched"

----------------------------------------------------------------------------
(* The watcher and the loop it triggers. *)

(* runRescanLoop: starts a pass, or leaves word to the one in flight. *)
Trigger(is) ==
  /\ loop' = [i \in Incarnation |-> IF i \in is /\ loop[i] = "idle" THEN "read" ELSE loop[i]]
  /\ requested' = requested \cup {i \in is : loop[i] \in Running}
  /\ owed' = owed \cup {i \in is : loop[i] \in Running}
  /\ UNCHANGED <<inputs, class, revision>>

Live(i) == watcher[i] \in {"open", "sick"}

(* armDebounce, for the directories whose watch reports a change; fs.watch *)
(* may report nothing.                                                     *)
WatchEvent(touched) ==
  \E told \in SUBSET {i \in Incarnation : dirs[i] \cap touched # {}} :
    armed' = armed \cup told

DebounceFires(i) ==
  /\ i \in armed
  /\ armed' = armed \ {i}
  /\ Trigger({i})
  /\ UNCHANGED <<source, watcher, dirs, storing, registry, dismissal, left>>

(* Slip: the interval is given up with the watch. *)
ReconcileIfHealthy(i) ==
  /\ watcher[i] = "open"
  /\ Trigger({i})
  /\ UNCHANGED <<source, watching, storing, registry, dismissal, left>>

Reconcile(i) ==
  /\ Live(i)
  /\ Trigger({i})
  /\ UNCHANGED <<source, watching, storing, registry, dismissal, left>>

WatchFails(i) ==
  /\ watcher[i] = "open" /\ dirs[i] # {}
  /\ Fault
  /\ watcher' = [watcher EXCEPT ![i] = "sick"]
  /\ UNCHANGED <<source, looping, armed, dirs, storing, registry, dismissal>>

----------------------------------------------------------------------------
(* One pass.  What follows it is decided when it has ended, well or not. *)

Forget(i) ==
  /\ inputs' = [inputs EXCEPT ![i] = Unpinned]
  /\ class' = [class EXCEPT ![i] = Unclassified]
  /\ revision' = [revision EXCEPT ![i] = 0]

(* Slip: word left during the pass is cleared with it. *)
PassEndsAndClears(i) ==
  /\ loop' = [loop EXCEPT ![i] = "idle"]
  /\ requested' = requested \ {i}
  /\ Forget(i)

PassEnds(i) ==
  /\ loop' = [loop EXCEPT ![i] = IF i \in requested THEN "read" ELSE "idle"]
  /\ requested' = requested \ {i}
  /\ Forget(i)

ReadArtifact(i) ==
  /\ loop[i] = "read"
  /\ inputs' = [inputs EXCEPT ![i] = pins]
  /\ class' = [class EXCEPT ![i] =
       [a \in Anchor |-> IF pins[a] = 0 THEN "cannot-determine" ELSE "todo"]]
  /\ loop' = [loop EXCEPT ![i] = "classify"]
  /\ owed' = owed \ {i}
  /\ UNCHANGED <<source, requested, revision, watching, storing, registry,
                 dismissal, left>>

(* The artifact cannot be read: nothing is recorded, nothing re-watched. *)
ReadArtifactFails(i) ==
  /\ loop[i] = "read"
  /\ Fault
  /\ owed' = owed \ {i}
  /\ PassEnds(i)
  /\ UNCHANGED <<source, watching, storing, registry, dismissal>>

(* `resolve` for one anchor: a fault of its own is its own. *)
Classify(i, a) ==
  /\ loop[i] = "classify" /\ class[i][a] = "todo"
  /\ \/ /\ NoFault
        /\ class' = [class EXCEPT ![i][a] =
             IF a \in dirty THEN "cannot-determine" ELSE ClassAt(head, inputs[i][a], a)]
     \/ /\ Fault
        /\ class' = [class EXCEPT ![i][a] = "cannot-determine"]
  /\ UNCHANGED <<source, loop, requested, inputs, revision, owed,
                 watching, storing, registry, dismissal>>

(* HEAD is read when every anchor has been classified; a pass with nothing *)
(* to record does not touch the file.                                      *)
ReadHeadRevision(i) ==
  /\ loop[i] = "classify" /\ \A a \in Anchor : class[i][a] # "todo"
  /\ \/ NoFault /\ revision' = [revision EXCEPT ![i] = head]
     \/ Fault /\ revision' = [revision EXCEPT ![i] = 0]
  /\ loop' = [loop EXCEPT ![i] = IF Detected(i) \cup Absent(i) = {} THEN "rewatch" ELSE "lock"]
  /\ UNCHANGED <<source, requested, inputs, class, owed, watching,
                 storing, registry, dismissal>>

ScanReads(i) ==
  /\ loop[i] = "lock" /\ holder[i] = "none"
  /\ holder' = [holder EXCEPT ![i] = "scan"]
  /\ copy' = [copy EXCEPT ![i] = findings]
  /\ loop' = [loop EXCEPT ![i] = "apply"]
  /\ UNCHANGED <<source, requested, inputs, class, revision, owed,
                 watching, findings, registry, dismissal, left>>

ScanWrites(i) ==
  /\ loop[i] = "apply"
  /\ holder' = [holder EXCEPT ![i] = "none"]
  /\ findings' = ApplyScanObservations(copy[i], i)
  /\ copy' = [copy EXCEPT ![i] = NoFindings]
  /\ loop' = [loop EXCEPT ![i] = "rewatch"]
  /\ UNCHANGED <<source, requested, inputs, class, revision, owed,
                 watching, registry, dismissal, left>>

ScanWriteFails(i) ==
  /\ loop[i] = "apply"
  /\ Fault
  /\ holder' = [holder EXCEPT ![i] = "none"]
  /\ copy' = [copy EXCEPT ![i] = NoFindings]
  /\ PassEnds(i)
  /\ UNCHANGED <<source, owed, watching, findings, registry, dismissal>>

(* Slip: a closed watcher takes new directories. *)
RewatchAnyway(i) ==
  /\ loop[i] = "rewatch"
  /\ NoFault
  /\ dirs' = [dirs EXCEPT ![i] = {a \in Anchor : pins[a] # 0}]
  /\ PassEnds(i)
  /\ UNCHANGED <<source, owed, watcher, armed, storing, registry, dismissal>>

(* setWatchedDirectories, from the anchors the artifact has by now; an     *)
(* artifact that cannot be read leaves the watches as they are, a watch    *)
(* that cannot be set up leaves them half way.                             *)
Rewatch(i) ==
  LET wanted == {a \in Anchor : pins[a] # 0} IN
  /\ loop[i] = "rewatch"
  /\ \/ /\ NoFault
        /\ dirs' = [dirs EXCEPT ![i] = IF Live(i) THEN wanted ELSE @]
     \/ Fault /\ UNCHANGED dirs
     \/ /\ Fault /\ Live(i)
        /\ \E opened \in SUBSET (wanted \ dirs[i]) :
             /\ opened # wanted \ dirs[i]
             /\ dirs' = [dirs EXCEPT ![i] = (@ \cap wanted) \cup opened]
  /\ PassEnds(i)
  /\ UNCHANGED <<source, owed, watcher, armed, storing, registry, dismissal>>

Pass(i) ==
  \/ ReadArtifact(i) \/ ReadArtifactFails(i)
  \/ \E a \in Anchor : Classify(i, a)
  \/ ReadHeadRevision(i)
  \/ ScanReads(i) \/ ScanWrites(i) \/ ScanWriteFails(i)
  \/ Rewatch(i)

----------------------------------------------------------------------------
(* The registry. *)

UnderWay == {r \in Request : dismissal[r].at # "none"}

StartForSession ==
  /\ tracked = Nobody
  /\ Spend("starts")
  /\ born' = born + 1
  /\ tracked' = born'
  /\ watcher' = [watcher EXCEPT ![born'] = IF ForceUnhealthy THEN "sick" ELSE "open"]
  /\ loop' = [loop EXCEPT ![born'] = "read"]
  /\ excuse' = IF UnderWay # {} THEN "started under a dismissal" ELSE excuse
  /\ UNCHANGED <<source, requested, inputs, class, revision, owed, armed,
                 dirs, storing, dismissal>>

(* close: both timers and every watch; a pass in flight goes on. *)
StopForSession ==
  /\ tracked # Nobody
  /\ watcher' = [watcher EXCEPT ![tracked] = "closed"]
  /\ armed' = armed \ {tracked}
  /\ dirs' = [dirs EXCEPT ![tracked] = {}]
  /\ excuse' = IF loop[tracked] \in Running THEN "stopped in a pass" ELSE excuse
  /\ tracked' = Nobody
  /\ UNCHANGED <<source, born, looping, storing, dismissal, left>>

----------------------------------------------------------------------------
(* The dismiss route, through the tracked instance or one of its own: of a *)
(* session that is not tracked, every request has another.  Any free name  *)
(* will do for a request.                                                  *)

BeginDismissal(r, f, via) ==
  /\ dismissal[r].at = "none"
  /\ r = CHOOSE q \in Request : dismissal[q].at = "none"
  /\ Spend("dismissals")
  /\ findings[f].status \notin {"none", "dismissed"}
  /\ dismissal' = [dismissal EXCEPT
       ![r] = [at |-> "lock", via |-> via, fingerprint |-> f, read |-> NoFindings]]
  /\ excuse' = IF tracked = Nobody /\ UnderWay # {} THEN "dismissed untracked" ELSE excuse
  /\ UNCHANGED <<source, looping, watching, storing, tracked, born>>

(* Slip: every request has an instance of its own. *)
DismissThroughOwn(r, f) == BeginDismissal(r, f, Nobody)

Dismiss(r, f) == BeginDismissal(r, f, tracked)

Hold(i, who) == holder' = [j \in Incarnation |-> IF j = i THEN who ELSE holder[j]]

DismissReads(r) ==
  LET via == dismissal[r].via IN
  /\ dismissal[r].at = "lock"
  /\ via # Nobody => holder[via] = "none"
  /\ Hold(via, r)
  /\ dismissal' = [dismissal EXCEPT ![r].at = "write", ![r].read = findings]
  /\ UNCHANGED <<source, looping, watching, copy, findings, registry, left>>

(* The file's write may fail: the answer is a 500. *)
DismissWrites(r) ==
  /\ dismissal[r].at = "write"
  /\ \/ /\ NoFault
        /\ findings' = [dismissal[r].read EXCEPT ![dismissal[r].fingerprint] = DismissFinding(@)]
     \/ Fault /\ UNCHANGED findings
  /\ Hold(dismissal[r].via, "none")
  /\ dismissal' = [dismissal EXCEPT ![r] = NoDismissal]
  /\ UNCHANGED <<source, looping, watching, copy, registry>>

----------------------------------------------------------------------------
(* What the user does meanwhile. *)

Change == Spend("changes")

(* An editor saves an anchored file. *)
Edit(a) ==
  /\ Change
  /\ a \notin dirty
  /\ dirty' = dirty \cup {a}
  /\ WatchEvent({a})
  /\ UNCHANGED <<head, pins, looping, watcher, dirs, storing, registry,
                 dismissal>>

(* A commit of the edits touches no watched directory. *)
Commit(c) ==
  /\ Change
  /\ c # head /\ dirty # {}
  /\ \A a \in Anchor \ dirty : History[c][a] = History[head][a]
  /\ head' = c
  /\ dirty' = {}
  /\ UNCHANGED <<pins, looping, watching, storing, registry, dismissal>>

(* A checkout or a pull does. *)
Checkout(c) ==
  /\ Change
  /\ c # head /\ dirty = {}
  /\ head' = c
  /\ WatchEvent({a \in Anchor : History[c][a] # History[head][a]})
  /\ UNCHANGED <<dirty, pins, looping, watcher, dirs, storing, registry,
                 dismissal>>

(* The artifact is generated again, pinned to HEAD or without the anchor. *)
Regenerate(a) ==
  /\ Change
  /\ \E pin \in {0, head} \ {pins[a]} : pins' = [pins EXCEPT ![a] = pin]
  /\ UNCHANGED <<head, dirty, looping, watching, storing, registry,
                 dismissal>>

----------------------------------------------------------------------------
ScanNext ==
  \/ \E i \in Incarnation :
       DebounceFires(i) \/ Reconcile(i) \/ WatchFails(i) \/ Pass(i)
  \/ StartForSession \/ StopForSession
  \/ \E r \in Request :
       \/ \E f \in Fingerprint : Dismiss(r, f)
       \/ DismissReads(r) \/ DismissWrites(r)
  \/ \E a \in Anchor : Edit(a) \/ Regenerate(a)
  \/ \E c \in DOMAIN History : Commit(c) \/ Checkout(c)

(* A pass goes on, timers fire: file operations and git answer.  Nothing   *)
(* is assumed of the user, of the watches or of the session.               *)
ScanFairness ==
  /\ \A i \in Incarnation : WF_scanVars(Pass(i)) /\ WF_scanVars(Reconcile(i))
  /\ \A r \in Request : WF_scanVars(DismissWrites(r))

ScanSpec == ScanInit /\ [][ScanNext]_scanVars /\ ScanFairness

----------------------------------------------------------------------------
(* No trigger is dropped: a loop comes to rest only when no file event or  *)
(* interval came after the pass began (`rescanRequested`).                 *)
NoTriggerDropped == \A i \in Incarnation : loop[i] = "idle" => i \notin owed

(* "No further onTrigger call happens after this returns": a watcher that  *)
(* was closed watches nothing and has no timer, though a pass that         *)
(* outlives it re-points it.                                               *)
ClosedIsSilent ==
  \A i \in Incarnation :
    watcher[i] = "closed" => dirs[i] = {} /\ i \notin armed

(* A dismissal holds until another revision shows the drift, whatever scan *)
(* or other dismissal is writing meanwhile, unless two instances share the *)
(* file: the session was stopped in a pass, it was started under a request *)
(* or a request of an untracked session met one that was under way.        *)
DismissalKept ==
  [][ \A f \in Fingerprint :
        ( /\ findings[f].status = "dismissed"
          /\ findings'[f].status # "dismissed"
          /\ excuse = "none" )
        => findings'[f].seen # findings[f].dismissedAt ]_scanVars

(* A region that has drifted at HEAD has its finding, open or dismissed at *)
(* HEAD, once the user rests: no lost event, failed read, second instance  *)
(* or restart hides it for good.                                           *)
Reported(a) ==
  LET c == ClassAt(head, pins[a], a)
      f == findings[<<RuleOf(c), a>>]
  IN  c \in {"touched", "lost"} =>
        \/ f.status = "open"
        \/ f.status = "dismissed" /\ f.dismissedAt = head

NothingMissed ==
  <>[](tracked # Nobody =>
         \A a \in Anchor : (pins[a] # 0 /\ a \notin dirty) => Reported(a))

============================================================================
