------------------------------ MODULE GitPool ------------------------------
(***************************************************************************)
(* The pool of provenance/git-batch-pool.ts: lookups written to one        *)
(* `git cat-file` process without waiting, answers matched to them by      *)
(* position alone.  A process that is given up (killed, reaped, dead) goes *)
(* on being heard: its output and its exit arrive as events, in their own  *)
(* time, through listeners nobody removes.  GitBatchContext collects the   *)
(* checks of the working tree of anchors resolved together.                *)
(*                                                                         *)
(* An answer is a header and, for the contents of an object that has any,  *)
(* a body; what follows a header is told from its size, never from looking *)
(* at it.                                                                  *)
(***************************************************************************)
EXTENDS Naturals, FiniteSets, Sequences, SequencesExt

CONSTANTS
  Lookup,        \* lookups, each of an object of its own
  Contents,      \* those that ask for contents, the others for information
  Bodied,        \* those whose object exists and has a size
  MaxProcesses,
  MaxPoolFaults, \* bound on deaths, closings and failing hashes
  Modes          \* wire protocols the probe of git's version may settle on

ASSUME PoolAssumption ==
  /\ Contents \subseteq Lookup /\ Bodied \subseteq Lookup
  /\ MaxProcesses \in Nat /\ MaxPoolFaults \in Nat
  /\ Modes \subseteq {"batch-command", "batch"}

VARIABLES
  resolvedMode, \* `#resolvedMode`, "none" before the first lookup
  proc,         \* the process the pool holds, 0 for none
  process,      \* what became of each process
  stdin,        \* lookups written to each process it has not answered
  stdout,       \* output of each process that no event has delivered
  lookups,      \* `#pending`
  buffer,       \* `#buf`
  idleTimer,
  promise,      \* what each lookup has come to
  got,          \* whose answer it got
  checks,       \* what each lookup's check of the working tree has come to
  stray,        \* history: how a process given up could still be heard
  poolFaults

piping == <<process, stdin, stdout>>
matching == <<proc, lookups, buffer, promise, got>>
poolVars == <<resolvedMode, piping, matching, idleTimer, checks, stray, poolFaults>>

Process == 1 .. MaxProcesses
NoProcess == 0
Nothing == "nothing"
Pieces(r) ==
  IF r \in Contents \cap Bodied THEN <<<<r, "header">>, <<r, "body">>>> ELSE <<<<r, "header">>>>

PoolTypeOK ==
  /\ resolvedMode \in {"none"} \cup Modes
  /\ proc \in Process \cup {NoProcess}
  /\ process \in [Process -> {"unborn", "running", "killed", "dead", "gone"}]
  /\ \A p \in Process : stdin[p] \in Seq(Lookup)
  /\ lookups \in Seq(Lookup)
  /\ Len(buffer) <= 1
  /\ promise \in [Lookup -> {"new", "pending", "checking", "resolved", "rejected"}]
  /\ got \in [Lookup -> Lookup \cup {Nothing, "garbage"}]
  /\ checks \in [Lookup -> {"none", "collected", "answered", "rejected"}]
  /\ stray \subseteq {"output", "exit"}

PoolInit ==
  /\ resolvedMode = "none"
  /\ proc = NoProcess
  /\ process = [p \in Process |-> "unborn"]
  /\ stdin = [p \in Process |-> <<>>]
  /\ stdout = [p \in Process |-> <<>>]
  /\ lookups = <<>>
  /\ buffer = <<>>
  /\ idleTimer = "off"
  /\ promise = [r \in Lookup |-> "new"]
  /\ got = [r \in Lookup |-> Nothing]
  /\ checks = [r \in Lookup |-> "none"]
  /\ stray = {}
  /\ poolFaults = 0

PoolFault == poolFaults < MaxPoolFaults /\ poolFaults' = poolFaults + 1

----------------------------------------------------------------------------
(* #onFatal: every lookup is rejected, the process killed and forgotten.   *)

(* Slip: what was received in part is kept. *)
OnFatalKeepsBuffer(dies) ==
  /\ proc' = NoProcess
  /\ process' = [p \in Process |->
       IF p = proc /\ dies[p] = "running" THEN "killed" ELSE dies[p]]
  /\ lookups' = <<>>
  /\ UNCHANGED buffer
  /\ promise' = [r \in Lookup |-> IF r \in ToSet(lookups) THEN "rejected" ELSE promise[r]]
  /\ UNCHANGED got

(* Slip: the lookups are forgotten with the process. *)
OnFatalForgets(dies) ==
  /\ proc' = NoProcess
  /\ process' = [p \in Process |->
       IF p = proc /\ dies[p] = "running" THEN "killed" ELSE dies[p]]
  /\ lookups' = <<>>
  /\ buffer' = <<>>
  /\ UNCHANGED <<promise, got>>

(* `dies` is what the event itself tells of the processes. *)
OnFatal(dies) ==
  /\ proc' = NoProcess
  /\ process' = [p \in Process |->
       IF p = proc /\ dies[p] = "running" THEN "killed" ELSE dies[p]]
  /\ lookups' = <<>>
  /\ buffer' = <<>>
  /\ promise' = [r \in Lookup |-> IF r \in ToSet(lookups) THEN "rejected" ELSE promise[r]]
  /\ UNCHANGED got

(* One who is forgotten is heard when something of it is still to come.    *)
Heard(p) == (IF stdout[p] # <<>> THEN {"output"} ELSE {})
              \cup (IF process[p] \in {"killed", "dead"} THEN {"exit"} ELSE {})
Strays == UNION {Heard(p) : p \in Process \ {proc}}

----------------------------------------------------------------------------
(* #enqueue, with #resolveMode before it and #ensureProc in it.            *)
Enqueue(r) ==
  /\ promise[r] = "new"
  /\ resolvedMode' \in IF resolvedMode = "none" THEN Modes ELSE {resolvedMode}
  /\ resolvedMode' = "batch" => r \in Contents
  /\ idleTimer' = "on"
  /\ lookups' = Append(lookups, r)
  /\ promise' = [promise EXCEPT ![r] = "pending"]
  /\ IF proc # NoProcess
       THEN /\ stdin' = [stdin EXCEPT ![proc] = Append(@, r)]
            /\ UNCHANGED <<proc, process>>
       ELSE /\ proc' \in {p \in Process : process[p] = "unborn" /\ \A q \in 1 .. p - 1 : process[q] # "unborn"}
            /\ process' = [process EXCEPT ![proc'] = "running"]
            /\ stdin' = [stdin EXCEPT ![proc'] = <<r>>]
  /\ stray' = stray \cup Strays
  /\ UNCHANGED <<stdout, buffer, got, checks, poolFaults>>

(* Plain --batch has no `info`: a process of its own answers it. *)
InfoViaBatchCheck(r) ==
  \/ /\ promise[r] = "new" /\ r \notin Contents
     /\ resolvedMode' \in (IF resolvedMode = "none" THEN Modes ELSE {resolvedMode}) \cap {"batch"}
     /\ promise' = [promise EXCEPT ![r] = "checking"]
     /\ UNCHANGED <<got, poolFaults, proc, lookups, buffer, piping, idleTimer, checks, stray>>
  \/ /\ promise[r] = "checking"
     /\ \/ /\ promise' = [promise EXCEPT ![r] = "resolved"]
           /\ got' = [got EXCEPT ![r] = r]
           /\ UNCHANGED poolFaults
        \/ /\ PoolFault
           /\ promise' = [promise EXCEPT ![r] = "rejected"]
           /\ UNCHANGED got
     /\ UNCHANGED <<resolvedMode, proc, lookups, buffer, piping, idleTimer, checks, stray>>

(* git answers in order. *)
GitAnswers(p) ==
  /\ process[p] = "running" /\ stdin[p] # <<>>
  /\ stdout' = [stdout EXCEPT ![p] = @ \o Pieces(Head(stdin[p]))]
  /\ stdin' = [stdin EXCEPT ![p] = Tail(@)]
  /\ UNCHANGED <<resolvedMode, process, matching, idleTimer, checks, stray, poolFaults>>

Resolves(r, with) ==
  /\ promise' = [promise EXCEPT ![r] = "resolved"]
  /\ got' = [got EXCEPT ![r] = with]
  /\ lookups' = Tail(lookups)
  /\ buffer' = <<>>
  /\ UNCHANGED <<proc, process>>

(* #onData, whoever sent it: the first lookup that waits takes the header  *)
(* there is, and a body after it when it asked for contents and the header *)
(* has a size.  A body taken for a header is garbage of some kind.         *)
OnData(p) ==
  LET have == Append(buffer, Head(stdout[p]))
      first == Head(lookups)
  IN
  /\ stdout[p] # <<>>
  /\ stdout' = [stdout EXCEPT ![p] = Tail(@)]
  /\ \/ lookups = <<>> /\ OnFatal(process)
     \/ /\ lookups # <<>>
        /\ IF have[1][2] = "body"
             THEN OnFatal(process) \/ Resolves(first, "garbage")
             ELSE IF first \in Contents /\ have[1][1] \in Bodied /\ Len(have) = 1
             THEN /\ buffer' = have
                  /\ UNCHANGED <<process, proc, lookups, promise, got>>
             ELSE Resolves(first, IF have[Len(have)][1] = have[1][1] THEN have[1][1] ELSE "garbage")
  /\ UNCHANGED <<resolvedMode, stdin, idleTimer, checks, stray, poolFaults>>

(* A process ends when it was killed, or by itself. *)
ProcessDies(p) ==
  /\ \/ process[p] = "killed" /\ UNCHANGED poolFaults
     \/ process[p] = "running" /\ PoolFault
  /\ process' = [process EXCEPT ![p] = "dead"]
  /\ stdin' = [stdin EXCEPT ![p] = <<>>]
  /\ UNCHANGED <<resolvedMode, stdout, matching, idleTimer, checks, stray>>

(* "exit", which may come before the last of the output; an error of stdin *)
(* comes to the same.                                                      *)
OnExit(p) ==
  /\ process[p] = "dead"
  /\ OnFatal([process EXCEPT ![p] = "gone"])
  /\ stray' = IF proc = p /\ stdout[p] # <<>> THEN stray \cup {"output"} ELSE stray
  /\ UNCHANGED <<resolvedMode, stdin, stdout, idleTimer, checks, poolFaults>>

(* Slip: the idle timer does not look whether anybody waits. *)
ReapAnyway ==
  /\ idleTimer = "on"
  /\ process' = [p \in Process |-> IF p = proc /\ process[p] = "running" THEN "killed" ELSE process[p]]
  /\ proc' = NoProcess
  /\ idleTimer' = "off"
  /\ UNCHANGED <<resolvedMode, stdin, stdout, lookups, buffer, promise, got, checks, stray, poolFaults>>

(* #reap: re-armed while a lookup waits. *)
Reap ==
  /\ idleTimer = "on"
  /\ lookups = <<>>
  /\ process' = [p \in Process |-> IF p = proc /\ process[p] = "running" THEN "killed" ELSE process[p]]
  /\ proc' = NoProcess
  /\ idleTimer' = "off"
  /\ UNCHANGED <<resolvedMode, stdin, stdout, lookups, buffer, promise, got, checks, stray, poolFaults>>

ClosePool ==
  /\ PoolFault
  /\ idleTimer' = "off"
  /\ OnFatal(process)
  /\ UNCHANGED <<resolvedMode, stdin, stdout, checks, stray>>

----------------------------------------------------------------------------
(* GitBatchContext: checks arrive as lookups are answered, and are made    *)
(* together once a turn of the loop has brought no more.                   *)
Collect(r) ==
  /\ promise[r] = "resolved" /\ checks[r] = "none"
  /\ checks' = [checks EXCEPT ![r] = "collected"]
  /\ UNCHANGED <<resolvedMode, piping, matching, idleTimer, stray, poolFaults>>

(* One failure fails all of them. *)
FlushChecks ==
  /\ \E r \in Lookup : checks[r] = "collected"
  /\ \/ /\ checks' = [r \in Lookup |-> IF checks[r] = "collected" THEN "answered" ELSE checks[r]]
        /\ UNCHANGED poolFaults
     \/ /\ PoolFault
        /\ checks' = [r \in Lookup |-> IF checks[r] = "collected" THEN "rejected" ELSE checks[r]]
  /\ UNCHANGED <<resolvedMode, piping, matching, idleTimer, stray>>

----------------------------------------------------------------------------
PoolNext ==
  \/ \E r \in Lookup : Enqueue(r) \/ InfoViaBatchCheck(r) \/ Collect(r)
  \/ \E p \in Process : GitAnswers(p) \/ OnData(p) \/ ProcessDies(p) \/ OnExit(p)
  \/ Reap \/ ClosePool \/ FlushChecks

(* git answers, events are delivered; nothing kills the pool's process.    *)
PoolFairness ==
  /\ \A p \in Process :
       /\ WF_poolVars(GitAnswers(p))
       /\ WF_poolVars(OnData(p))
       /\ WF_poolVars(OnExit(p))
       /\ WF_poolVars(process[p] = "killed" /\ ProcessDies(p))
  /\ WF_poolVars(FlushChecks)

PoolSpec == PoolInit /\ [][PoolNext]_poolVars /\ PoolFairness

----------------------------------------------------------------------------
(* A lookup that resolves has its own answer, unless output of a process   *)
(* that was given up was still to come: positions match although lookups   *)
(* are written ahead and processes die in the middle of an answer.         *)
OwnAnswer ==
  \A r \in Lookup : promise[r] = "resolved" /\ got[r] # r => "output" \in stray

(* Only a death, a closing, or the late exit of a process given up before  *)
(* the lookup rejects it: neither the idle timer nor an object without a   *)
(* size does.                                                              *)
OnlyFaultsReject ==
  (\E r \in Lookup : promise[r] = "rejected") => poolFaults > 0 \/ stray # {}

(* Every lookup and every check ends, "not a silent hang", whatever dies,  *)
(* unless answers were mixed up.                                           *)
LookupsEnd ==
  <>[](\A r \in Lookup :
         /\ promise[r] # "pending" \/ "output" \in stray
         /\ checks[r] # "collected")

============================================================================
