----------------------------- MODULE DaemonLock -----------------------------
(***************************************************************************)
(* Who serves an artifact directory: command lines that look for its       *)
(* daemon through a lock file, start one, replace one of another version   *)
(* or stop it, and the daemons that race for the lock (daemon/lock.ts,     *)
(* ownership.ts, orchestrate.ts, daemon-entry.ts, idle.ts, `stop` of       *)
(* cli.ts and the shutdown of server.ts).                                  *)
(*                                                                         *)
(* A command line starts at most one daemon, so a daemon has the name of   *)
(* the command line that started it; the name stands for its pid, its port *)
(* and its health token.  Processes share nothing but the file system, the *)
(* process table and their ports, so every call that reaches one of these  *)
(* is a step of its own.                                                   *)
(***************************************************************************)
EXTENDS Naturals, FiniteSets

CONSTANTS
  Cli,         \* invocations of `illuminate`, one command each
  Version,     \* versions of the program that are installed
  MaxCrashes,  \* bound on daemons that die without their handlers
  MaxSlow,     \* bound on requests a live daemon does not answer in time
  None

ASSUME LockAssumption ==
  /\ MaxCrashes \in Nat
  /\ MaxSlow \in Nat
  /\ None \notin Cli

VARIABLES
  lock,      \* who created the lock file that is there
  record,    \* whose record is in it by now
  cli,       \* where each command line stands, or how it ended
  version,   \* version each command line runs, and the daemon it starts
  saw,       \* the record it read last
  daemon,    \* where each daemon stands
  signalled, \* daemons with a SIGTERM they have not handled
  crashes,
  slow,
  strayed,   \* history: who removed the lock of a daemon relying on it
  unheard    \* history: daemons whose answer a health probe went without
             \* while they had the lock

vars == <<lock, record, cli, version, saw, daemon, signalled, crashes, slow,
          strayed, unheard>>

(* `ensureDaemonRunning`, and `stop` with and without --force. *)
Working == {"check", "reclaim", "ask", "grace", "kill", "term", "replace",
            "spawn", "wait", "probe",
            "stopCheck", "stopAsk", "stopKill"}
Ended == {"attached", "started", "stopped", "failed"}

DaemonState == {"unborn", "starting", "bound", "opening", "serving",
                "stopping", "released", "closing", "dead", "stranded"}

TypeOK ==
  /\ lock \in Cli \cup {None}
  /\ record \in {None, lock}
  /\ cli \in [Cli -> {"idle"} \cup Working \cup Ended]
  /\ version \in [Cli -> Version]
  /\ saw \in [Cli -> Cli]
  /\ daemon \in [Cli -> DaemonState]
  /\ signalled \in SUBSET Cli
  /\ crashes \in Nat
  /\ slow \in Nat
  /\ strayed \subseteq {"command", "exit"}
  /\ unheard \subseteq Cli

Init ==
  /\ lock = None
  /\ record = None
  /\ cli = [c \in Cli |-> "idle"]
  /\ version \in [Cli -> Version]
  /\ saw = [c \in Cli |-> c]
  /\ daemon = [c \in Cli |-> "unborn"]
  /\ signalled = {}
  /\ crashes = 0
  /\ slow = 0
  /\ strayed = {}
  /\ unheard = {}

(* From the creation of its lock until it removes it. *)
Owning == {"opening", "serving", "stopping"}

(* isPidAlive *)
Alive(d) == daemon[d] \notin {"unborn", "dead"}

(* Answers /health: the handler is attached and the server not closed. *)
Listening(d) == daemon[d] \in {"serving", "stopping", "released"}

(* Its port is anybody's. *)
Freed(d) == daemon[d] \in {"closing", "dead"}

goes(c, to) == cli' = [cli EXCEPT ![c] = to]
becomes(d, to) == daemon' = [daemon EXCEPT ![d] = to]

reliedOn(by) == lock \notin {None, by} /\ daemon[lock] \in Owning

(* cleanupLock, and the unlink of the exit handlers: whoever's file it is. *)
Unlink(by, how) ==
  /\ lock' = None
  /\ record' = None
  /\ strayed' = IF reliedOn(by) THEN strayed \cup {how} ELSE strayed

keepLock == UNCHANGED <<lock, record, strayed>>

(* A step of a command line, or of a daemon, that changes nothing else. *)
moves(c, to) ==
  /\ goes(c, to)
  /\ keepLock
  /\ UNCHANGED <<saw, daemon, signalled, crashes, slow, version, unheard>>

turns(d, to) ==
  /\ becomes(d, to)
  /\ keepLock
  /\ UNCHANGED <<cli, saw, signalled, crashes, slow, version, unheard>>

(* A live daemon leaves a request unanswered until its time-out. *)
TooSlow ==
  /\ slow < MaxSlow
  /\ slow' = slow + 1

----------------------------------------------------------------------------
(* ensureDaemonRunning *)

(* readLock: no file, a file whose record is not there yet, or a record. *)
NoLock == lock = None
EmptyLock == lock # None /\ record = None
Record(d) == record = d

ReadLock(c, onNone, onRecord) ==
  /\ cli[c] = "idle"
  /\ \/ NoLock /\ goes(c, onNone) /\ UNCHANGED saw
     \/ EmptyLock /\ goes(c, "failed") /\ UNCHANGED saw
     \/ \E d \in Cli : /\ Record(d)
                       /\ saw' = [saw EXCEPT ![c] = d]
                       /\ goes(c, onRecord)
  /\ keepLock
  /\ UNCHANGED <<daemon, signalled, crashes, slow, version, unheard>>

Ensure(c) == ReadLock(c, "spawn", "check")

(* checkOwnership.  A dead pid may belong to another process by now and a  *)
(* freed port to another server: neither changes the verdict.              *)
Healthy(c, at, to) ==
  /\ cli[c] = at
  /\ Listening(saw[c])
  /\ moves(c, to)

Unhealthy(c, at, to) ==
  /\ cli[c] = at
  /\ \/ ~Listening(saw[c]) /\ UNCHANGED slow
     \/ Listening(saw[c]) /\ TooSlow
  /\ unheard' = unheard \cup {d \in {saw[c]} : daemon[d] \in Owning}
  /\ goes(c, to)
  /\ keepLock
  /\ UNCHANGED <<saw, daemon, signalled, crashes, version>>

Attach(c) ==
  /\ version[saw[c]] = version[c]
  /\ Healthy(c, "check", "attached")

(* restartForVersionMismatch *)
Mismatch(c) ==
  /\ version[saw[c]] # version[c]
  /\ Healthy(c, "check", "ask")

Misowned(c) == Unhealthy(c, "check", "reclaim")

Reclaim(c) ==
  /\ cli[c] = "reclaim"
  /\ Unlink(None, "command")
  /\ goes(c, "spawn")
  /\ UNCHANGED <<saw, daemon, signalled, crashes, slow, version, unheard>>

(* POST /shutdown with the record's token: heard, or lost. *)
Ask(c, at, heard, lost) ==
  /\ cli[c] = at
  /\ \/ /\ Listening(saw[c])
        /\ becomes(saw[c], IF daemon[saw[c]] = "serving"
                           THEN "stopping" ELSE daemon[saw[c]])
        /\ goes(c, heard)
        /\ UNCHANGED slow
     \/ /\ Listening(saw[c])
        /\ TooSlow
        /\ goes(c, lost)
        /\ UNCHANGED daemon
     \/ /\ ~Listening(saw[c])
        /\ goes(c, lost)
        /\ UNCHANGED <<daemon, slow>>
  /\ keepLock
  /\ UNCHANGED <<saw, signalled, crashes, version, unheard>>

AskToStop(c) == Ask(c, "ask", "grace", "grace")

(* waitUntilDead found the pid gone within its window. *)
SeenDead(c) ==
  /\ cli[c] \in {"grace", "term"}
  /\ ~Alive(saw[c])

OldIsDead(c) ==
  /\ SeenDead(c)
  /\ moves(c, "replace")

(* Its window is over. *)
StillAlive(c) ==
  /\ cli[c] \in {"grace", "term"}
  /\ Alive(saw[c])
  /\ moves(c, IF cli[c] = "grace" THEN "kill" ELSE "failed")

(* process.kill throws when there is nobody to signal. *)
Kill(c, at, sent) ==
  /\ cli[c] = at
  /\ \/ /\ Alive(saw[c])
        /\ signalled' = signalled \cup {saw[c]}
        /\ goes(c, sent)
     \/ /\ ~Alive(saw[c])
        /\ goes(c, "failed")
        /\ UNCHANGED signalled
  /\ keepLock
  /\ UNCHANGED <<saw, daemon, crashes, slow, version, unheard>>

KillOld(c) == Kill(c, "kill", "term")

Replace(c) ==
  /\ cli[c] = "replace"
  /\ Unlink(None, "command")
  /\ goes(c, "spawn")
  /\ UNCHANGED <<saw, daemon, signalled, crashes, slow, version, unheard>>

(* spawnFreshDaemon, and the polls of waitForDaemon. *)
SpawnDaemon(c) ==
  /\ cli[c] = "spawn"
  /\ becomes(c, "starting")
  /\ goes(c, "wait")
  /\ keepLock
  /\ UNCHANGED <<saw, signalled, crashes, slow, version, unheard>>

WaitRead(c) ==
  /\ cli[c] = "wait"
  /\ \/ \E d \in Cli : /\ Record(d)
                       /\ saw' = [saw EXCEPT ![c] = d]
                       /\ goes(c, "probe")
     \/ /\ NoLock \/ EmptyLock
        /\ ~Alive(c)                      \* the child is gone: ports in use
        /\ goes(c, "failed")
        /\ UNCHANGED saw
  /\ keepLock
  /\ UNCHANGED <<daemon, signalled, crashes, slow, version, unheard>>

(* Any answer counts here, also that of another server on a freed port. *)
Started(c) ==
  /\ cli[c] = "probe"
  /\ Listening(saw[c]) \/ Freed(saw[c])
  /\ moves(c, "started")

(* Nobody listens there: poll again.                                       *)
NotYet(c) ==
  /\ cli[c] = "probe"
  /\ Freed(saw[c])
  /\ moves(c, "wait")

(* The port is bound and no handler attached, or the daemon is slow: this  *)
(* one request takes what is left of the deadline.                         *)
Unanswered(c) ==
  /\ cli[c] = "probe"
  /\ \/ daemon[saw[c]] \in {"opening", "stranded"} /\ UNCHANGED slow
     \/ Listening(saw[c]) /\ TooSlow
  /\ goes(c, "failed")
  /\ keepLock
  /\ UNCHANGED <<saw, daemon, signalled, crashes, version, unheard>>

(* Slip: no deadline.                                                      *)
NoDeadline(c) ==
  /\ cli[c] = "never"
  /\ UNCHANGED vars

(* STARTUP_TIMEOUT_MS *)
GiveUp(c) ==
  /\ cli[c] = "wait"
  /\ moves(c, "failed")

----------------------------------------------------------------------------
(* illuminate stop *)

Stop(c) == ReadLock(c, "stopped", "stopCheck")
StopNothing(c) == Unhealthy(c, "stopCheck", "stopped")
StopAsks(c) == Healthy(c, "stopCheck", "stopAsk")
StopForce(c) == Healthy(c, "stopCheck", "stopKill")

(* Slip: a request without an answer passes for one that was heard.        *)
StopAskOnce(c) == Ask(c, "stopAsk", "stopped", "stopped")

StopAsk(c) == Ask(c, "stopAsk", "stopped", "stopKill")
StopKill(c) == Kill(c, "stopKill", "stopped")

----------------------------------------------------------------------------
(* The daemon *)

Bind(d) ==
  /\ daemon[d] = "starting"
  /\ \E to \in {"bound", "dead"} : turns(d, to)      \* or no port is free

(* Slip: the file is looked for, then written over.                        *)
CreateRegardless(d) ==
  /\ daemon[d] = "bound"
  /\ lock' = d
  /\ record' = None
  /\ UNCHANGED strayed
  /\ becomes(d, "opening")
  /\ UNCHANGED <<cli, saw, signalled, crashes, slow, version, unheard>>

(* Slip: opened for appending, a file that is there keeps its record.      *)
CreateOrAppend(d) ==
  /\ daemon[d] = "bound"
  /\ lock' = d
  /\ UNCHANGED <<record, strayed>>
  /\ becomes(d, "opening")
  /\ UNCHANGED <<cli, saw, signalled, crashes, slow, version, unheard>>

(* acquireLock: created exclusively, then written. *)
CreateLock(d) ==
  /\ daemon[d] = "bound"
  /\ lock = None
  /\ lock' = d
  /\ record' = None
  /\ UNCHANGED strayed
  /\ becomes(d, "opening")
  /\ UNCHANGED <<cli, saw, signalled, crashes, slow, version, unheard>>

LoseElection(d) ==
  /\ daemon[d] = "bound"
  /\ lock # None
  /\ turns(d, "dead")

(* The write goes to the file that was created, wherever it is by now. *)
WriteLock(d) ==
  /\ daemon[d] = "opening"
  /\ lock = d
  /\ record = None
  /\ record' = d
  /\ UNCHANGED <<lock, strayed, cli, saw, daemon, signalled, crashes, slow,
                 version, unheard>>

(* mkdir, open, the write or the close of acquireLock throws: main ends,   *)
(* the file stays as it is, and the port that is already bound keeps the   *)
(* process alive, with no handler.                                         *)
FailLock(d) ==
  /\ daemon[d] \in {"bound", "opening"}
  /\ turns(d, "stranded")

(* registerCleanupHandlers and createDaemonServer, in one turn. *)
Serve(d) ==
  /\ daemon[d] = "opening"
  /\ lock = d => record = d
  /\ turns(d, "serving")

(* The idle controller calls shutdown. *)
IdleExpires(d) ==
  /\ daemon[d] = "serving"
  /\ turns(d, "stopping")

(* shutdown: the lock first, then server.close, which waits for requests   *)
(* that are still open, a long poll for example.                           *)
ReleaseLock(d) ==
  /\ daemon[d] = "stopping"
  /\ Unlink(d, "exit")
  /\ becomes(d, "released")
  /\ UNCHANGED <<cli, saw, signalled, crashes, slow, version, unheard>>

CloseServer(d) ==
  /\ daemon[d] = "released"
  /\ turns(d, "closing")

(* process.exit runs the exit handler. *)
Exit(d) ==
  /\ daemon[d] = "closing"
  /\ Unlink(d, "exit")
  /\ becomes(d, "dead")
  /\ UNCHANGED <<cli, saw, signalled, crashes, slow, version, unheard>>

(* Slip: no handler, the signal just kills.                                *)
TermUnhandled(d) ==
  /\ d \in signalled
  /\ Alive(d)
  /\ keepLock
  /\ becomes(d, "dead")
  /\ signalled' = signalled \ {d}
  /\ UNCHANGED <<cli, saw, crashes, slow, version, unheard>>

(* Only a daemon that has answered is signalled: its handlers are there.   *)
HandleTerm(d) ==
  /\ d \in signalled
  /\ Alive(d)
  /\ Unlink(d, "exit")
  /\ becomes(d, "dead")
  /\ signalled' = signalled \ {d}
  /\ UNCHANGED <<cli, saw, crashes, slow, version, unheard>>

(* SIGKILL, taskkill /F, a power cut, and on Windows a SIGTERM as well. *)
Crash(d) ==
  /\ crashes < MaxCrashes
  /\ Alive(d)
  /\ crashes' = crashes + 1
  /\ becomes(d, "dead")
  /\ signalled' = signalled \ {d}
  /\ keepLock
  /\ UNCHANGED <<cli, saw, slow, version, unheard>>

----------------------------------------------------------------------------
Advance(c) ==
  \/ Attach(c) \/ Mismatch(c) \/ Misowned(c) \/ Reclaim(c)
  \/ AskToStop(c) \/ OldIsDead(c) \/ StillAlive(c) \/ KillOld(c) \/ Replace(c)
  \/ SpawnDaemon(c) \/ WaitRead(c) \/ Started(c) \/ NotYet(c)
  \/ Unanswered(c) \/ GiveUp(c)
  \/ StopNothing(c) \/ StopAsks(c) \/ StopForce(c) \/ StopAsk(c) \/ StopKill(c)

Elect(d) ==
  \/ Bind(d) \/ CreateLock(d) \/ LoseElection(d) \/ WriteLock(d)
  \/ FailLock(d) \/ Serve(d)

Leave(d) ==
  \/ IdleExpires(d) \/ ReleaseLock(d) \/ CloseServer(d) \/ Exit(d)
  \/ HandleTerm(d)

Next == \E c \in Cli :
  Ensure(c) \/ Stop(c) \/ Advance(c) \/ Elect(c) \/ Leave(c) \/ Crash(c)

Spec == Init /\ [][Next]_vars

(* A command line goes on.  Its polls come back to the loop's condition    *)
(* again and again, and the deadline they compare is real time.  Nothing   *)
(* is assumed of a daemon.                                                 *)
Fairness == \A c \in Cli :
  /\ WF_vars(Advance(c) /\ cli[c] # "wait")
  /\ SF_vars(GiveUp(c))

FairSpec == Spec /\ Fairness

----------------------------------------------------------------------------
(* Properties *)

Serving == {d \in Cli : daemon[d] = "serving"}

(* Two daemons serve one directory only after somebody removed the lock of *)
(* a daemon that still relied on it: the exclusive creation in acquireLock *)
(* elects one as long as unlinks are honest.                               *)
OneServerUnlessStrayed == strayed = {} => Cardinality(Serving) <= 1

(* `illuminate stop` prints "stopped" of a daemon that is going: it heard  *)
(* the request, or it has the SIGTERM sent when no answer came.  Only one  *)
(* whose first health probe found no answer, as it was starting or late,   *)
(* goes on although a command said it was "not running".                   *)
StoppedIsGoing ==
  \A c \in Cli : cli[c] = "stopped" /\ daemon[saw[c]] \in {"opening", "serving"}
                    => saw[c] \in signalled \cup unheard

(* Without crashes every daemon takes the lock along when it goes, however *)
(* it goes: with nobody left there is no stale lock.                       *)
CleanExitLeavesNoLock ==
  (crashes = 0 /\ \A d \in Cli : ~Alive(d)) => lock = None

(* Every command comes to an end, whatever the daemons do. *)
EveryCommandEnds == \A c \in Cli : cli[c] \in Working ~> cli[c] \in Ended

(* "Never proceed with two daemons owning one artifact root.": at least as *)
(* long as no command line took away the lock of one that lives.           *)
OneServerUnlessReclaimed ==
  "command" \notin strayed => Cardinality(Serving) <= 1

============================================================================
