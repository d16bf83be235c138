---------------------------- MODULE DispatchFlow ----------------------------
(***************************************************************************)
(* One session of the daemon at work: browser clicks that enqueue          *)
(* dispatches, harness polls that drain them, self-dispatched children and *)
(* harnesses that answer them, and the answer cards written at the end     *)
(* (daemon/server.ts, poll.ts, active-polls.ts, self-dispatch.ts over the  *)
(* reducers of DispatchLedger).                                            *)
(*                                                                         *)
(* Every reducer runs under the store's mutex: it is evaluated, its result *)
(* is written to disk, the mutex is released and the caller resumes before *)
(* any other reducer is evaluated.  While the write is on its way, timers, *)
(* sockets and child processes go on.  So a caller whose resumption does   *)
(* something others can see takes two steps, its reducer and its           *)
(* resumption, and `holder` names it in between; a caller that only goes   *)
(* on by itself takes one.                                                 *)
(***************************************************************************)
EXTENDS DispatchLedger, FiniteSets

CONSTANTS
  Poll,          \* GET /api/:key/poll requests, each served once
  Timed,         \* those with a timeoutMs
  Ungroundable,  \* dispatches answered by the verify / self-explain shortcut
  Floored,       \* implementer dispatches: answers below their tier are refused
  ClaudeOnPath,  \* what the `claude --version` probe finds
  MaxCloses,     \* bound on connections that die under their poll
  MaxCrashes,    \* bound on daemon crashes
  NoOne

ASSUME FlowAssumption ==
  /\ Timed \subseteq Poll
  /\ Ungroundable \subseteq Dispatch
  /\ Floored \subseteq Dispatch
  /\ ClaudeOnPath \in BOOLEAN
  /\ MaxCloses \in Nat
  /\ MaxCrashes \in Nat
  /\ Poll \cap Dispatch = {}
  /\ NoOne \notin Poll \cup Dispatch

VARIABLES
  holder,     \* whose reducer has run and who has not resumed yet
  batch,      \* what that reducer drained
  click,      \* progress of each create-dispatch request; "probed": it ran
              \* the `claude` probe itself
  target,     \* the ledger id it was given
  poll,       \* progress or outcome of each poll request
  sock,       \* the poll's connection
  wakes,      \* handleWake calls of the poll that wait for the mutex
  restoring,  \* drained batches on their way back through restoreToQueue
  work,       \* answers being worked out: work[w][d], by poll or create request w
  inFlight,   \* inFlightSelfDispatches
  probe,      \* the cached result of isClaudeOnPath
  cards,      \* entries with this dispatch id in the annotation store
  crashes,
  restored    \* history: what each poll drained and put back

memVars == <<holder, batch, click, target, poll, sock, wakes, restoring,
             inFlight, probe>>
vars == <<ledgerVars, memVars, work, cards, crashes, restored>>

Worker == Poll \cup Dispatch
HolderKind == {"free", "create", "first", "wake", "end"}
ClickState == {"idle", "committed", "probing", "probed", "done"}
OpenPoll == {"first", "restoring", "waiting"}
Outcome == {"dispatch", "timedout", "ended", "disconnected", "aborted", "gone"}
WorkState == {"none", "working", "submit", "card", "done", "noCard", "over"}

FlowTypeOK ==
  /\ holder \in [kind : HolderKind, by : Worker \cup {NoOne}]
  /\ batch \in Seq(Dispatch)
  /\ click \in [Dispatch -> ClickState]
  /\ target \in [Dispatch -> Dispatch]
  /\ poll \in [Poll -> {"new"} \cup OpenPoll \cup Outcome]
  /\ sock \in [Poll -> {"open", "closing", "closed"}]
  /\ wakes \in [Poll -> Nat]
  /\ restoring \in SUBSET [by : Poll, ids : Seq(Dispatch)]
  /\ work \in [Worker -> [Dispatch -> WorkState]]
  /\ inFlight \in SUBSET Dispatch
  /\ probe \in {"unknown", "yes", "no"}
  /\ cards \in [Dispatch -> Nat]
  /\ crashes \in Nat
  /\ restored \in [Poll -> SUBSET Dispatch]

TypeOK == LedgerTypeOK /\ FlowTypeOK

Free == [kind |-> "free", by |-> NoOne]
Held(kind, by) == [kind |-> kind, by |-> by]

(* The probe belongs to the daemon: a click in another session may have    *)
(* cached it already.                                                      *)
ProbeResult == IF ClaudeOnPath THEN "yes" ELSE "no"

Init ==
  /\ LedgerInit
  /\ holder = Free
  /\ batch = <<>>
  /\ click = [c \in Dispatch |-> "idle"]
  /\ target = [c \in Dispatch |-> c]
  /\ poll = [p \in Poll |-> "new"]
  /\ sock = [p \in Poll |-> "open"]
  /\ wakes = [p \in Poll |-> 0]
  /\ restoring = {}
  /\ work = [w \in Worker |-> [d \in Dispatch |-> "none"]]
  /\ inFlight = {}
  /\ probe \in {"unknown", ProbeResult}
  /\ cards = [d \in Dispatch |-> 0]
  /\ crashes = 0
  /\ restored = [p \in Poll |-> {}]

(* activePolls.isActive: handlePoll enters before resolvePoll and exits    *)
(* once it settles.                                                        *)
PollActive == \E p \in Poll : poll[p] \in OpenPoll

IsClosed(p) == sock[p] # "open"

(* Slip: nobody is woken.                                                  *)
EmitToNobody == wakes' = wakes

(* pollEvents.emit: one handleWake per registered listener. *)
Emit == wakes' = [p \in Poll |-> IF poll[p] = "waiting" THEN wakes[p] + 1
                                                        ELSE wakes[p]]

----------------------------------------------------------------------------
(* handleCreateDispatch.  Request c mints the dispatch id c. *)

CreateNew(c) ==
  /\ click[c] = "idle"
  /\ holder = Free
  /\ EnqueueNew(c)
  /\ click' = [click EXCEPT ![c] = "committed"]
  /\ target' = [target EXCEPT ![c] = c]
  /\ holder' = Held("create", c)
  /\ UNCHANGED <<batch, poll, sock, wakes, restoring, inFlight, probe,
                 work, cards, crashes, restored>>

CreateReopened(c) ==
  /\ click[c] = "idle"
  /\ holder = Free
  /\ \E e \in Duplicates(c) :
       /\ ShouldReopen(e, PollActive \/ e \in inFlight)
       /\ Reopen(e)
       /\ target' = [target EXCEPT ![c] = e]
  /\ click' = [click EXCEPT ![c] = "committed"]
  /\ holder' = Held("create", c)
  /\ UNCHANGED <<batch, poll, sock, wakes, restoring, inFlight, probe,
                 work, cards, crashes, restored>>

CreateDuplicate(c) ==
  /\ click[c] = "idle"
  /\ holder = Free
  /\ \E e \in Duplicates(c) : ~ShouldReopen(e, PollActive \/ e \in inFlight)
  /\ click' = [click EXCEPT ![c] = "done"]
  /\ UNCHANGED <<ledgerVars, holder, batch, target, poll, sock, wakes,
                 restoring, inFlight, probe, work, cards, crashes, restored>>

(* After an `ok`: wake the polls, then answer without a model, leave the   *)
(* dispatch to an open poll, or self-dispatch it.                          *)
Resume(c) ==
  /\ holder = Held("create", c)
  /\ holder' = Free
  /\ Emit

Shortcut(c) ==
  /\ Resume(c)
  /\ target[c] \in Ungroundable
  /\ work' = [work EXCEPT ![c][target[c]] = "submit"]
  /\ click' = [click EXCEPT ![c] = "done"]
  /\ UNCHANGED <<ledgerVars, batch, target, poll, sock, restoring, inFlight,
                 probe, cards, crashes, restored>>

LeaveToPoll(c) ==
  /\ Resume(c)
  /\ target[c] \notin Ungroundable
  /\ PollActive
  /\ click' = [click EXCEPT ![c] = "done"]
  /\ UNCHANGED <<ledgerVars, batch, target, poll, sock, restoring, inFlight,
                 probe, work, cards, crashes, restored>>

StartProbe(c) ==
  /\ Resume(c)
  /\ target[c] \notin Ungroundable
  /\ ~PollActive
  /\ probe = "unknown"
  /\ click' = [click EXCEPT ![c] = "probing"]
  /\ UNCHANGED <<ledgerVars, batch, target, poll, sock, restoring, inFlight,
                 probe, work, cards, crashes, restored>>

(* Slip: the child runs unmarked.                                          *)
SpawnUnmarked(c, found) ==
  /\ work' = IF found = "yes" THEN [work EXCEPT ![c][target[c]] = "working"]
                              ELSE work
  /\ UNCHANGED inFlight

(* inFlightSelfDispatches.add and the fire-and-forget maybeSelfDispatch, or *)
(* nothing when there is no `claude`.                                       *)
Spawn(c, found) ==
  IF found = "yes"
    THEN /\ inFlight' = inFlight \cup {target[c]}
         /\ work' = [work EXCEPT ![c][target[c]] = "working"]
    ELSE UNCHANGED <<inFlight, work>>

UseCachedProbe(c) ==
  /\ Resume(c)
  /\ target[c] \notin Ungroundable
  /\ ~PollActive
  /\ probe # "unknown"
  /\ Spawn(c, probe)
  /\ click' = [click EXCEPT ![c] = "done"]
  /\ UNCHANGED <<ledgerVars, batch, target, poll, sock, restoring, probe,
                 cards, crashes, restored>>

ProbeAnswers(c) ==
  /\ click[c] = "probing"
  /\ probe' = ProbeResult
  /\ Spawn(c, ProbeResult)
  /\ click' = [click EXCEPT ![c] = "probed"]
  /\ UNCHANGED <<ledgerVars, holder, batch, target, poll, sock, wakes,
                 restoring, cards, crashes, restored>>

----------------------------------------------------------------------------
(* handlePoll and resolvePoll *)

PollArrives(p) ==
  /\ poll[p] = "new"
  /\ poll' = [poll EXCEPT ![p] = "first"]
  /\ UNCHANGED <<ledgerVars, holder, batch, click, target, sock, wakes,
                 restoring, inFlight, probe, work, cards, crashes, restored>>

(* Slip: the queue is drained before `ended` is looked at.                 *)
AttemptDrainRegardless ==
  IF queue = <<>>
    THEN /\ batch' = <<>>
         /\ UNCHANGED ledgerVars
    ELSE /\ batch' = queue
         /\ DrainQueue

(* attemptDrain: one reducer that looks at `ended` before the queue. *)
AttemptDrain ==
  IF ended \/ queue = <<>>
    THEN /\ batch' = <<>>
         /\ UNCHANGED ledgerVars
    ELSE /\ batch' = queue
         /\ DrainQueue

FirstAttempt(p) ==
  /\ poll[p] = "first"
  /\ holder = Free
  /\ AttemptDrain
  /\ holder' = Held("first", p)
  /\ UNCHANGED <<click, target, poll, sock, wakes, restoring, inFlight, probe,
                 work, cards, crashes, restored>>

(* Slip: the batch is handed over and restored as well.                    *)
HandOverAndRestore(p) ==
  /\ poll' = [poll EXCEPT ![p] = "dispatch"]
  /\ work' = [work EXCEPT ![p] = [d \in Dispatch |->
                IF d \in Range(batch) THEN "working" ELSE work[p][d]]]
  /\ restoring' = restoring \cup {[by |-> p, ids |-> batch]}

(* The response carries the batch: its harness has the work now. *)
HandOver(p) ==
  /\ poll' = [poll EXCEPT ![p] = "dispatch"]
  /\ work' = [work EXCEPT ![p] = [d \in Dispatch |->
                IF d \in Range(batch) THEN "working" ELSE work[p][d]]]
  /\ UNCHANGED restoring

BeginRestore(p) ==
  /\ restoring' = restoring \cup {[by |-> p, ids |-> batch]}
  /\ UNCHANGED work

FirstResult(p) ==
  /\ holder = Held("first", p)
  /\ holder' = Free
  /\ batch' = <<>>
  /\ \/ /\ batch = <<>>
        /\ poll' = [poll EXCEPT ![p] = IF ended THEN "ended" ELSE "waiting"]
        /\ UNCHANGED <<restoring, work>>
     \/ /\ batch # <<>>
        /\ ~IsClosed(p)
        /\ HandOver(p)
     \/ /\ batch # <<>>
        /\ IsClosed(p)
        /\ BeginRestore(p)
        /\ poll' = [poll EXCEPT ![p] = "restoring"]
  /\ UNCHANGED <<ledgerVars, click, target, sock, wakes, inFlight, probe,
                 cards, crashes, restored>>

(* Slip: a wake that nobody sent.                                          *)
WakeUnasked(p) ==
  /\ poll[p] = "waiting"
  /\ holder = Free
  /\ AttemptDrain
  /\ wakes' = [wakes EXCEPT ![p] = @ - 1]
  /\ holder' = Held("wake", p)
  /\ UNCHANGED <<click, target, poll, sock, restoring, inFlight, probe,
                 work, cards, crashes, restored>>

(* handleWake: once called it drains, whether or not the poll has settled  *)
(* since.                                                                  *)
WakeAttempt(p) ==
  /\ wakes[p] > 0
  /\ holder = Free
  /\ AttemptDrain
  /\ wakes' = [wakes EXCEPT ![p] = @ - 1]
  /\ holder' = Held("wake", p)
  /\ UNCHANGED <<click, target, poll, sock, restoring, inFlight, probe,
                 work, cards, crashes, restored>>

WakeResult(p) ==
  /\ holder = Held("wake", p)
  /\ holder' = Free
  /\ batch' = <<>>
  /\ \/ /\ poll[p] # "waiting"           \* settled meanwhile: nothing is done
        /\ UNCHANGED <<poll, restoring, work>>
     \/ /\ poll[p] = "waiting"
        /\ batch = <<>>
        /\ poll' = [poll EXCEPT ![p] = IF ended THEN "ended" ELSE "waiting"]
        /\ UNCHANGED <<restoring, work>>
     \/ /\ poll[p] = "waiting"
        /\ batch # <<>>
        /\ ~IsClosed(p)
        /\ HandOver(p)
     \/ /\ poll[p] = "waiting"
        /\ batch # <<>>
        /\ IsClosed(p)
        /\ BeginRestore(p)
        /\ UNCHANGED poll
  /\ UNCHANGED <<ledgerVars, click, target, sock, wakes, inFlight, probe,
                 cards, crashes, restored>>

(* finalizeDrainResult's restore, and the 'aborted' it settles with. *)
Restore(r) ==
  /\ r \in restoring
  /\ holder = Free
  /\ RestoreToQueue(r.ids)
  /\ restoring' = restoring \ {r}
  /\ restored' = [restored EXCEPT ![r.by] = @ \cup Range(r.ids)]
  /\ poll' = [poll EXCEPT ![r.by] = IF @ \in OpenPoll THEN "aborted" ELSE @]
  /\ UNCHANGED <<holder, batch, click, target, sock, wakes, inFlight, probe,
                 work, cards, crashes>>

(* The peer goes away.  isClosed() is true from here on; the onClose       *)
(* callback fires only if the wait had registered it by now.               *)
SocketCloses(p) ==
  /\ poll[p] \in OpenPoll
  /\ sock[p] = "open"
  /\ Cardinality({q \in Poll : IsClosed(q)}) < MaxCloses
  /\ sock' = [sock EXCEPT ![p] = IF poll[p] = "waiting" THEN "closing"
                                                        ELSE "closed"]
  /\ UNCHANGED <<ledgerVars, holder, batch, click, target, poll, wakes,
                 restoring, inFlight, probe, work, cards, crashes, restored>>

CloseCallback(p) ==
  /\ sock[p] = "closing"
  /\ sock' = [sock EXCEPT ![p] = "closed"]
  /\ poll' = [poll EXCEPT ![p] = IF @ = "waiting" THEN "aborted" ELSE @]
  /\ UNCHANGED <<ledgerVars, holder, batch, click, target, wakes, restoring,
                 inFlight, probe, work, cards, crashes, restored>>

OverallTimeout(p) ==
  /\ p \in Timed
  /\ poll[p] = "waiting"
  /\ poll' = [poll EXCEPT ![p] = "timedout"]
  /\ UNCHANGED <<ledgerVars, holder, batch, click, target, sock, wakes,
                 restoring, inFlight, probe, work, cards, crashes, restored>>

(* checkDisconnect, when it finds a reason to settle. *)
CheckDisconnect(p) ==
  /\ poll[p] = "waiting"
  /\ \/ /\ ended
        /\ poll' = [poll EXCEPT ![p] = "ended"]
     \/ /\ ~ended
        /\ ~IsBrowserConnected
        /\ poll' = [poll EXCEPT ![p] = "disconnected"]
  /\ UNCHANGED <<ledgerVars, holder, batch, click, target, sock, wakes,
                 restoring, inFlight, probe, work, cards, crashes, restored>>

----------------------------------------------------------------------------
(* maybeSelfDispatch, a harness with an envelope, and handleAnswer *)

(* maybeSelfDispatch's finally; a harness is in no such set. *)
Leave(w, d) ==
  inFlight' = IF w \in Dispatch THEN inFlight \ {d} ELSE inFlight

(* The child exits badly, the response never reached its harness, or the   *)
(* harness gives up.  The ledger is not told.                              *)
WorkFails(w, d) ==
  /\ work[w][d] = "working"
  /\ work' = [work EXCEPT ![w][d] = "over"]
  /\ Leave(w, d)
  /\ UNCHANGED <<ledgerVars, holder, batch, click, target, poll, sock, wakes,
                 restoring, probe, cards, crashes, restored>>

(* POST /api/dispatches/:id/answer is on its way. *)
Submit(w, d) ==
  /\ work[w][d] = "working"
  /\ work' = [work EXCEPT ![w][d] = "submit"]
  /\ UNCHANGED <<ledgerVars, memVars, cards, crashes, restored>>

(* A tier below the implementer's floor: the ledger stays, and the harness *)
(* still has the work.  A child reports the tier it was started with.      *)
Refuse(w, d) ==
  /\ work[w][d] = "submit"
  /\ w \in Poll
  /\ d \in Floored
  /\ holder = Free
  /\ ~IsTerminal(d)
  /\ work' = [work EXCEPT ![w][d] = "working"]
  /\ UNCHANGED <<ledgerVars, memVars, cards, crashes, restored>>

Ingest(w, d) ==
  /\ work[w][d] = "submit"
  /\ holder = Free
  /\ AcceptAnswer(d)
  /\ work' = [work EXCEPT ![w][d] = "card"]
  /\ UNCHANGED <<memVars, cards, crashes, restored>>

AlreadyTerminal(w, d) ==
  /\ work[w][d] = "submit"
  /\ holder = Free
  /\ IsTerminal(d)
  /\ work' = [work EXCEPT ![w][d] = "over"]
  /\ Leave(w, d)
  /\ UNCHANGED <<ledgerVars, holder, batch, click, target, poll, sock, wakes,
                 restoring, probe, cards, crashes, restored>>

(* Slip: a failed append is tried again, and so is one that went through.  *)
AppendCardRetried(w, d) ==
  /\ work[w][d] = "card"
  /\ cards' = [cards EXCEPT ![d] = @ + 1]
  /\ work' = [work EXCEPT ![w][d] = "card"]
  /\ Leave(w, d)
  /\ cards[d] < 3
  /\ UNCHANGED <<ledgerVars, holder, batch, click, target, poll, sock, wakes,
                 restoring, probe, crashes, restored>>

(* appendAnsweredDispatchToAnnotationStore: a second store, a second write. *)
AppendCard(w, d) ==
  /\ work[w][d] = "card"
  /\ \/ /\ work' = [work EXCEPT ![w][d] = "done"]
        /\ cards' = [cards EXCEPT ![d] = @ + 1]
     \/ /\ work' = [work EXCEPT ![w][d] = "noCard"]
        /\ UNCHANGED cards
  /\ Leave(w, d)
  /\ UNCHANGED <<ledgerVars, holder, batch, click, target, poll, sock, wakes,
                 restoring, probe, crashes, restored>>

----------------------------------------------------------------------------
(* handleHeartbeat, the passing of the grace period, handleEndSession *)

Heartbeat ==
  /\ holder = Free
  /\ ~ (seen = "fresh")
  /\ RecordHeartbeat
  /\ UNCHANGED <<memVars, work, cards, crashes, restored>>

GraceExpires ==
  /\ seen = "fresh"
  /\ seen' = "stale"
  /\ UNCHANGED <<status, queue, answers, ended, memVars, work, cards, crashes,
                 restored>>

(* Ending twice rewrites the same fact: one end is enough. *)
End ==
  /\ ~ended
  /\ holder = Free
  /\ EndSession
  /\ holder' = Held("end", NoOne)
  /\ UNCHANGED <<batch, click, target, poll, sock, wakes, restoring, inFlight,
                 probe, work, cards, crashes, restored>>

(* Slip: the end wakes nobody.                                             *)
EndsQuietly ==
  /\ holder = Held("end", NoOne)
  /\ holder' = Free
  /\ UNCHANGED <<ledgerVars, batch, click, target, poll, sock, wakes,
                 restoring, inFlight, probe, work, cards, crashes, restored>>

EndResumes ==
  /\ holder = Held("end", NoOne)
  /\ holder' = Free
  /\ Emit
  /\ UNCHANGED <<ledgerVars, batch, click, target, poll, sock, restoring,
                 inFlight, probe, work, cards, crashes, restored>>

----------------------------------------------------------------------------
(* The daemon dies and another takes over the state file.  Its requests    *)
(* and its children's answers die with it; harnesses keep their work.      *)
Crash ==
  /\ crashes < MaxCrashes
  /\ crashes' = crashes + 1
  /\ holder' = Free
  /\ batch' = <<>>
  /\ click' = [c \in Dispatch |-> IF click[c] \in {"committed", "probing"}
                                   THEN "done" ELSE click[c]]
  /\ poll' = [p \in Poll |-> IF poll[p] \in OpenPoll THEN "gone" ELSE poll[p]]
  /\ wakes' = [p \in Poll |-> 0]
  /\ restoring' = {}
  /\ inFlight' = {}
  /\ probe' = "unknown"
  /\ work' = [w \in Worker |-> [d \in Dispatch |->
       CASE work[w][d] = "card" -> "noCard"
         [] work[w][d] \in {"working", "submit"} ->
              IF w \in Poll THEN "working" ELSE "over"
         [] OTHER -> work[w][d]]]
  /\ UNCHANGED <<ledgerVars, target, sock, cards, restored>>

----------------------------------------------------------------------------
Create(c) ==
  \/ CreateNew(c) \/ CreateReopened(c) \/ CreateDuplicate(c)
  \/ Shortcut(c) \/ LeaveToPoll(c) \/ StartProbe(c)
  \/ UseCachedProbe(c) \/ ProbeAnswers(c)

ServePoll(p) ==
  \/ PollArrives(p) \/ FirstAttempt(p) \/ FirstResult(p)
  \/ WakeAttempt(p) \/ WakeResult(p)
  \/ SocketCloses(p) \/ CloseCallback(p)
  \/ OverallTimeout(p) \/ CheckDisconnect(p)

Answer(w, d) ==
  \/ WorkFails(w, d) \/ Submit(w, d) \/ Refuse(w, d)
  \/ Ingest(w, d) \/ AlreadyTerminal(w, d) \/ AppendCard(w, d)

Next ==
  \/ \E c \in Dispatch : Create(c)
  \/ \E p \in Poll : ServePoll(p)
  \/ \E r \in restoring : Restore(r)
  \/ \E w \in Worker, d \in Dispatch : Answer(w, d)
  \/ Heartbeat \/ GraceExpires
  \/ End \/ EndResumes
  \/ Crash

Spec == Init /\ [][Next]_vars

(* The event loop resumes whoever waits on a finished write, and the mutex *)
(* is first come first served.  Nothing is assumed of users, harnesses,    *)
(* sockets, timers or `claude`.                                            *)
Fairness ==
  /\ \A c \in Dispatch : WF_vars(Create(c) /\ holder.by = c)
  /\ \A p \in Poll : /\ WF_vars(FirstAttempt(p) \/ FirstResult(p))
                     /\ WF_vars(WakeAttempt(p) \/ WakeResult(p))
  /\ WF_vars(\E r \in restoring : Restore(r))
  /\ WF_vars(EndResumes)

FairSpec == Spec /\ Fairness

============================================================================
