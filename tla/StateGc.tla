------------------------------ MODULE StateGc ------------------------------
(***************************************************************************)
(* The sweep of the state directory that a starting daemon makes           *)
(* (daemon/state-gc.ts), beside the daemon of another project that may     *)
(* start, save its sessions, stop or die meanwhile, and a user who removes *)
(* and makes artifacts.  The sweep treats the projects one after the other *)
(* and each by itself: the model follows one, with its lock file and its   *)
(* state file.  A file is fresh if it was written less than the minimum    *)
(* age before the sweep began, or since.  Left-over temporary files, which *)
(* the sweep removes by their age alone, are left out.                     *)
(***************************************************************************)
EXTENDS FiniteSets

CONSTANT Artifact  \* artifacts of the project

VARIABLES
  daemon,    \* the process of the project
  lock,      \* its lock file, by what a reader makes of it
  saved,     \* its state file
  sessions,  \* the artifacts of the sessions in the state file
  onDisk,    \* the artifacts there are
  fresh,     \* files too young to be removed
  sweep,     \* where the sweep is
  listed,    \* files in the directory listing
  statted,   \* files whose age was asked for
  aged,      \* those that were there, and old
  unseen,    \* sessions whose artifact is still to be looked for
  touched,   \* history: files written since their age was asked for
  appeared   \* history: artifacts made since the state file was read

disk == <<lock, saved, sessions, onDisk, fresh>>
sweeper == <<sweep, listed, statted, aged, unseen>>
gcVars == <<daemon, disk, sweeper, touched, appeared>>

Pair == {"lock", "state"}
Exists == {f \in Pair : IF f = "lock" THEN lock # "absent" ELSE saved # "absent"}

GcTypeOK ==
  /\ daemon \in {"none", "starting", "up"}
  /\ lock \in {"absent", "empty", "live", "dead"}
  /\ saved \in {"absent", "mangled", "written"}
  /\ sessions \cup onDisk \cup unseen \cup appeared \subseteq Artifact
  /\ fresh \cup listed \cup touched \subseteq Pair
  /\ sweep \in {"list", "proof", "ages", "read", "survive", "unlink state", "unlink lock", "done"}
  /\ aged \subseteq statted /\ statted \subseteq listed
  /\ lock = "live" => daemon = "up"

GcInit ==
  /\ \/ daemon = "none" /\ lock \in {"absent", "empty", "dead"}
     \/ daemon = "up" /\ lock = "live"
  /\ saved \in {"absent", "mangled", "written"}
  /\ sessions \in SUBSET Artifact
  /\ saved # "written" => sessions = {}
  /\ onDisk \in SUBSET Artifact
  /\ fresh \in SUBSET Exists
  /\ sweep = "list"
  /\ listed = {} /\ statted = {} /\ aged = {} /\ unseen = {}
  /\ touched = {} /\ appeared = {}

----------------------------------------------------------------------------
(* The daemon: its lock file is made empty, then written.  A dead one is   *)
(* removed by the command that is about to start another daemon.           *)

Writes(f) == fresh' = fresh \cup {f} /\ touched' = touched \cup {f}

CreatesLock ==
  /\ daemon = "none" /\ lock = "absent"
  /\ daemon' = "starting" /\ lock' = "empty"
  /\ Writes("lock")
  /\ UNCHANGED <<saved, sessions, onDisk, sweeper, appeared>>

FillsLock ==
  /\ daemon = "starting"
  /\ daemon' = "up" /\ lock' = IF lock = "empty" THEN "live" ELSE lock
  /\ Writes("lock")
  /\ UNCHANGED <<saved, sessions, onDisk, sweeper, appeared>>

Reclaims ==
  /\ lock = "dead"
  /\ lock' = "absent"
  /\ UNCHANGED <<daemon, saved, sessions, onDisk, fresh, sweeper, touched, appeared>>

Saves(S) ==
  /\ daemon = "up"
  /\ saved' = "written" /\ sessions' = S
  /\ Writes("state")
  /\ UNCHANGED <<daemon, lock, onDisk, sweeper, appeared>>

DaemonStops ==
  /\ daemon = "up"
  /\ daemon' = "none"
  /\ lock' \in IF lock = "live" THEN {"absent", "dead"} ELSE {lock}
  /\ UNCHANGED <<saved, sessions, onDisk, fresh, sweeper, touched, appeared>>

ArtifactGoes(a) ==
  /\ a \in onDisk
  /\ onDisk' = onDisk \ {a}
  /\ UNCHANGED <<daemon, lock, saved, sessions, fresh, sweeper, touched, appeared>>

ArtifactAppears(a) ==
  /\ a \notin onDisk
  /\ onDisk' = onDisk \cup {a}
  /\ appeared' = appeared \cup {a}
  /\ UNCHANGED <<daemon, lock, saved, sessions, fresh, sweeper, touched>>

----------------------------------------------------------------------------
(* The sweep.  Every read, stat and unlink is an await of its own.         *)

GcList ==
  /\ sweep = "list"
  /\ listed' = Exists
  /\ sweep' = IF Exists = {} THEN "done" ELSE "proof"
  /\ UNCHANGED <<daemon, disk, statted, aged, unseen, touched, appeared>>

(* daemonIsProvablyDead.  A pid that was given out again reads as alive.   *)
GcProvesDead ==
  /\ sweep = "proof"
  /\ "lock" \in listed => lock = "dead"
  /\ sweep' = "ages"
  /\ UNCHANGED <<daemon, disk, listed, statted, aged, unseen, touched, appeared>>

GcCannotTell ==
  /\ sweep = "proof" /\ "lock" \in listed
  /\ sweep' = "done"
  /\ UNCHANGED <<daemon, disk, listed, statted, aged, unseen, touched, appeared>>

\* Slip: an old file of the pair is enough.
GcStatsOldest(f) ==
  /\ sweep = "ages" /\ f \in listed \ statted
  /\ statted' = statted \cup {f}
  /\ aged' = IF f \in Exists \ fresh THEN aged \cup {f} ELSE aged
  /\ touched' = touched \ {f}
  /\ UNCHANGED <<daemon, disk, sweep, listed, unseen, appeared>>

(* The newest of the pair decides. *)
GcStats(f) ==
  /\ sweep = "ages" /\ f \in listed \ statted
  /\ statted' = statted \cup {f}
  /\ aged' = IF f \in Exists \ fresh THEN aged \cup {f} ELSE aged
  /\ sweep' = IF f \in Exists \cap fresh THEN "done" ELSE sweep
  /\ touched' = touched \ {f}
  /\ UNCHANGED <<daemon, disk, listed, unseen, appeared>>

GcAges ==
  /\ sweep = "ages" /\ statted = listed
  /\ sweep' = IF aged = {} THEN "done" ELSE "read"
  /\ UNCHANGED <<daemon, disk, listed, statted, aged, unseen, touched, appeared>>

(* anyArtifactSurvives: without a state file that parses, it cannot tell.  *)
GcReads ==
  /\ sweep = "read"
  /\ IF "state" \in listed /\ saved = "written"
     THEN sweep' = "survive" /\ unseen' = sessions /\ appeared' = {}
     ELSE sweep' = "done" /\ UNCHANGED <<unseen, appeared>>
  /\ UNCHANGED <<daemon, disk, listed, statted, aged, touched>>

GcLooksFor(a) ==
  /\ sweep = "survive" /\ a \in unseen
  /\ unseen' = unseen \ {a}
  /\ sweep' = IF a \in onDisk THEN "done" ELSE sweep
  /\ UNCHANGED <<daemon, disk, listed, statted, aged, touched, appeared>>

GcFoundNone ==
  /\ sweep = "survive" /\ unseen = {}
  /\ sweep' = "unlink state"
  /\ UNCHANGED <<daemon, disk, listed, statted, aged, unseen, touched, appeared>>

GcUnlinksState ==
  /\ sweep = "unlink state"
  /\ saved' = "absent" /\ sessions' = {}
  /\ sweep' = IF "lock" \in listed THEN "unlink lock" ELSE "done"
  /\ UNCHANGED <<daemon, lock, onDisk, fresh, listed, statted, aged, unseen, touched, appeared>>

GcUnlinksLock ==
  /\ sweep = "unlink lock"
  /\ lock' = "absent"
  /\ sweep' = "done"
  /\ UNCHANGED <<daemon, saved, sessions, onDisk, fresh, listed, statted, aged, unseen, touched,
                 appeared>>

GcNext ==
  \/ CreatesLock \/ FillsLock \/ Reclaims \/ DaemonStops
  \/ \E S \in SUBSET Artifact : Saves(S)
  \/ \E a \in Artifact : ArtifactGoes(a) \/ ArtifactAppears(a) \/ GcLooksFor(a)
  \/ GcList \/ GcProvesDead \/ GcCannotTell \/ GcAges \/ GcReads
  \/ \E f \in Pair : GcStats(f)
  \/ GcFoundNone \/ GcUnlinksState \/ GcUnlinksLock

GcSpec == GcInit /\ [][GcNext]_gcVars

----------------------------------------------------------------------------
(* The sweep removes no session whose artifact exists, unless the state    *)
(* file was written after its age was asked for or the artifact made after *)
(* the file was read, and no lock of a running daemon, unless it was       *)
(* written after its age was asked for (state-gc.ts:181).  The exceptions  *)
(* are windows of the code: nothing is looked at again before the unlinks. *)
GcSparesSessions ==
  /\ sweep = "unlink state" /\ "state" \notin touched => sessions \cap onDisk \subseteq appeared
  /\ sweep = "unlink lock" /\ lock = "live" => "lock" \in touched
=============================================================================
