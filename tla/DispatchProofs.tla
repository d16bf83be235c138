--------------------------- MODULE DispatchProofs ---------------------------
(* DispatchFlow keeps its types, its ledger and its hand-overs straight,   *)
(* and implements DispatchQueue, for any number of dispatches, keys,       *)
(* polls, dead connections and crashes.                                    *)
EXTENDS DispatchProperties, SequenceTheorems, TLAPS

----------------------------------------------------------------------------
(* The queue as a sequence without repetition *)

(* The empty queue holds nothing. *)
LEMMA EmptyQueue == Range(<<>>) = {} /\ IsInjective(<<>>)
BY DEF Range, IsInjective

(* Appending an id that is not there yet (enqueueDispatch). *)
LEMMA AppendId ==
  ASSUME NEW S, NEW q \in Seq(S), NEW d \in S
  PROVE  /\ Append(q, d) \in Seq(S)
         /\ Range(Append(q, d)) = Range(q) \cup {d}
         /\ IsInjective(q) /\ d \notin Range(q) => IsInjective(Append(q, d))
<1> DEFINE a == Append(q, d)
<1>1. /\ a \in Seq(S)
      /\ Len(a) = Len(q) + 1
      /\ \A i \in 1 .. Len(q) : a[i] = q[i]
      /\ a[Len(q) + 1] = d
  OBVIOUS
<1>2. DOMAIN a = 1 .. Len(q) + 1 /\ DOMAIN q = 1 .. Len(q) /\ Len(q) \in Nat
  BY <1>1
<1> HIDE DEF a
<1>3. Range(a) = Range(q) \cup {d}
  BY <1>1, <1>2 DEF Range
<1>4. IsInjective(q) /\ d \notin Range(q) => IsInjective(a)
  BY <1>1, <1>2 DEF Range, IsInjective
<1> QED  BY <1>1, <1>3, <1>4 DEF a

(* Putting a batch back in front (restoreToQueue). *)
LEMMA RestoreIds ==
  ASSUME NEW S, NEW s \in Seq(S), NEW q \in Seq(S)
  PROVE  /\ s \o q \in Seq(S)
         /\ Range(s \o q) = Range(s) \cup Range(q)
         /\ IsInjective(s) /\ IsInjective(q) /\ Range(s) \cap Range(q) = {}
              => IsInjective(s \o q)
<1> DEFINE a == s \o q
<1>1. /\ a \in Seq(S)
      /\ Len(a) = Len(s) + Len(q)
      /\ \A i \in 1 .. Len(s) + Len(q) :
            a[i] = IF i <= Len(s) THEN s[i] ELSE q[i - Len(s)]
  BY ConcatProperties
<1>2. /\ DOMAIN a = 1 .. Len(s) + Len(q)
      /\ DOMAIN s = 1 .. Len(s) /\ DOMAIN q = 1 .. Len(q)
      /\ Len(s) \in Nat /\ Len(q) \in Nat
  BY <1>1
<1> HIDE DEF a
<1>3. \A k \in DOMAIN a : k > Len(s) => k - Len(s) \in DOMAIN q /\ a[k] = q[k - Len(s)]
  BY <1>1, <1>2
<1>4. Range(a) = Range(s) \cup Range(q)
  <2>1. ASSUME NEW e \in Range(a) PROVE e \in Range(s) \cup Range(q)
    <3>1. PICK k \in DOMAIN a : e = a[k]
      BY DEF Range
    <3>2. CASE k <= Len(s)
      BY <3>1, <3>2, <1>1, <1>2 DEF Range
    <3>3. CASE k > Len(s)
      BY <3>1, <3>3, <1>3 DEF Range
    <3> QED  BY <3>2, <3>3, <1>2
  <2>2. ASSUME NEW e \in Range(s) PROVE e \in Range(a)
    <3>1. PICK i \in DOMAIN s : e = s[i]
      BY DEF Range
    <3>2. i \in DOMAIN a /\ a[i] = e
      BY <3>1, <1>1, <1>2
    <3> QED  BY <3>2 DEF Range
  <2>3. ASSUME NEW e \in Range(q) PROVE e \in Range(a)
    <3>1. PICK i \in DOMAIN q : e = q[i]
      BY DEF Range
    <3>2. /\ i + Len(s) \in DOMAIN a /\ i + Len(s) > Len(s)
          /\ (i + Len(s)) - Len(s) = i
      BY <1>2
    <3>3. a[i + Len(s)] = e
      BY <3>1, <3>2, <1>3
    <3> QED  BY <3>2, <3>3 DEF Range
  <2> QED  BY <2>1, <2>2, <2>3
<1>5. ASSUME IsInjective(s), IsInjective(q), Range(s) \cap Range(q) = {}
      PROVE  IsInjective(a)
  <2> SUFFICES ASSUME NEW i \in DOMAIN a, NEW j \in DOMAIN a, a[i] = a[j], i <= j
               PROVE  i = j
    BY <1>2 DEF IsInjective
  <2>1. CASE j <= Len(s)
    BY <2>1, <1>1, <1>2, <1>5 DEF IsInjective
  <2>2. CASE i > Len(s)
    <3>1. i - Len(s) \in DOMAIN q /\ j - Len(s) \in DOMAIN q
      BY <2>2, <1>2
    <3>2. q[i - Len(s)] = q[j - Len(s)]
      BY <2>2, <1>1, <1>2
    <3>3. i - Len(s) = j - Len(s)
      BY <3>1, <3>2, <1>5 DEF IsInjective
    <3> QED  BY <3>3, <1>2
  <2>3. CASE i <= Len(s) /\ j > Len(s)
    <3>1. a[i] \in Range(s)
      BY <2>3, <1>1, <1>2 DEF Range
    <3>2. a[j] \in Range(q)
      BY <2>3, <1>3 DEF Range
    <3> QED  BY <3>1, <3>2, <1>5
  <2> QED  BY <2>1, <2>2, <2>3, <1>2
<1> QED  BY <1>1, <1>4, <1>5 DEF a

(* Filtering one id out (ingestAnswer): the others stay, each once. *)
LEMMA WithoutId ==
  ASSUME NEW S, NEW q \in Seq(S), NEW d
  PROVE  /\ Without(q, d) \in Seq(S)
         /\ IsInjective(q) => /\ IsInjective(Without(q, d))
                              /\ Range(Without(q, d)) = Range(q) \ {d}
<1>1. CASE d \notin Range(q)
  BY <1>1 DEF Without
<1>2. CASE d \in Range(q)
  <2> DEFINE at == CHOOSE i \in DOMAIN q : q[i] = d
             w == [i \in 1 .. Len(q) - 1 |-> IF i < at THEN q[i] ELSE q[i + 1]]
  <2>1. at \in DOMAIN q /\ q[at] = d
    BY <1>2 DEF Range
  <2>2. DOMAIN q = 1 .. Len(q) /\ Len(q) \in Nat /\ Len(q) - 1 \in Nat
    BY <2>1
  <2>3. Without(q, d) = w
    BY <1>2 DEF Without
  <2> HIDE DEF at
  <2>4. \A i \in 1 .. Len(q) - 1 : w[i] \in S
    BY <2>1, <2>2
  <2>5. w \in Seq(S)
    BY <2>2, <2>4, IsASeq
  <2>6. ASSUME IsInjective(q)
        PROVE  IsInjective(w)
    <3> SUFFICES ASSUME NEW i \in DOMAIN w, NEW j \in DOMAIN w, w[i] = w[j]
                 PROVE  i = j
      BY DEF IsInjective
    <3> DEFINE m(k) == IF k < at THEN k ELSE k + 1
    <3>1. m(i) \in DOMAIN q /\ m(j) \in DOMAIN q /\ q[m(i)] = q[m(j)]
      BY <2>1, <2>2
    <3>2. m(i) = m(j)
      BY <3>1, <2>6 DEF IsInjective
    <3> QED  BY <3>2, <2>1, <2>2
  <2>7. ASSUME IsInjective(q)
        PROVE  Range(w) = Range(q) \ {d}
    <3>1. ASSUME NEW e \in Range(w) PROVE e \in Range(q) \ {d}
      <4>1. PICK i \in 1 .. Len(q) - 1 : e = w[i]
        BY DEF Range
      <4>2. CASE i < at
        BY <4>1, <4>2, <2>1, <2>2, <2>7 DEF Range, IsInjective
      <4>3. CASE ~(i < at)
        <5>1. i + 1 \in DOMAIN q /\ i + 1 # at /\ e = q[i + 1]
          BY <4>1, <4>3, <2>1, <2>2
        <5> QED  BY <5>1, <2>1, <2>7 DEF Range, IsInjective
      <4> QED  BY <4>2, <4>3
    <3>2. ASSUME NEW e \in Range(q) \ {d} PROVE e \in Range(w)
      <4>1. PICK i \in DOMAIN q : e = q[i]
        BY DEF Range
      <4>2. i # at
        BY <4>1, <2>1
      <4>3. CASE i < at
        <5>1. i \in DOMAIN w /\ w[i] = e
          BY <4>1, <4>3, <2>1, <2>2
        <5> QED  BY <5>1 DEF Range
      <4>4. CASE i > at
        <5>1. i - 1 \in DOMAIN w /\ w[i - 1] = e
          BY <4>1, <4>4, <2>1, <2>2
        <5> QED  BY <5>1 DEF Range
      <4> QED  BY <4>2, <4>3, <4>4, <2>1, <2>2
    <3> QED  BY <3>1, <3>2
  <2> QED  BY <2>3, <2>5, <2>6, <2>7
<1> QED  BY <1>1, <1>2

----------------------------------------------------------------------------
(* The reducers of DispatchLedger: each keeps the ledger's types and the *)
(* agreement of queue and statuses.                                        *)

LedgerInv == LedgerTypeOK /\ QueueIsOpenDispatches /\ OneEntryPerKey

(* A fresh session record satisfies the invariant. *)
LEMMA LedgerInitially == LedgerInit => LedgerInv
<1> SUFFICES ASSUME LedgerInit PROVE LedgerInv
  OBVIOUS
<1>1. LedgerTypeOK
  <2>1. queue \in Seq(Dispatch)
    BY DEF LedgerInit
  <2>2. ended \in BOOLEAN
    BY Zenon DEF LedgerInit
  <2> QED  BY <2>1, <2>2 DEF LedgerInit, LedgerTypeOK, Status, Presence
<1>2. QueueIsOpenDispatches
  BY EmptyQueue DEF LedgerInit, QueueIsOpenDispatches
<1>3. OneEntryPerKey
  BY DEF LedgerInit, OneEntryPerKey, ActiveStatus
<1> QED  BY <1>1, <1>2, <1>3 DEF LedgerInv

(* An id whose key has no live entry has no entry at all. *)
LEMMA NewIsAbsent ==
  ASSUME LedgerTypeOK, NEW d \in Dispatch, Duplicates(d) = {}
  PROVE  status[d] = "absent"
BY DEF LedgerTypeOK, Status, Duplicates, ActiveStatus

(* enqueueDispatch of a key without a live entry. *)
LEMMA EnqueueNewKeeps ==
  ASSUME LedgerInv, NEW d \in Dispatch, EnqueueNew(d)
  PROVE  LedgerInv'
<1> USE DEF LedgerInv
<1>1. status[d] = "absent" /\ d \notin Range(queue)
  BY NewIsAbsent DEF EnqueueNew, QueueIsOpenDispatches
<1>2. /\ queue' \in Seq(Dispatch)
      /\ Range(queue') = Range(queue) \cup {d}
      /\ IsInjective(queue')
  BY <1>1, AppendId DEF EnqueueNew, LedgerTypeOK, QueueIsOpenDispatches
<1>3. LedgerTypeOK'
  BY <1>2 DEF EnqueueNew, LedgerTypeOK, Status
<1>4. QueueIsOpenDispatches'
  BY <1>1, <1>2 DEF EnqueueNew, LedgerTypeOK, QueueIsOpenDispatches
<1>5. OneEntryPerKey'
  BY DEF EnqueueNew, Duplicates, LedgerTypeOK, Status, OneEntryPerKey, ActiveStatus
<1> QED  BY <1>3, <1>4, <1>5

(* Re-opening an open entry changes nothing: it is queued already. *)
LEMMA ReopenChangesNothing ==
  ASSUME LedgerInv, NEW e \in Dispatch, status[e] = "open", Reopen(e)
  PROVE  UNCHANGED ledgerVars
<1>1. e \in Range(queue)
  BY DEF LedgerInv, QueueIsOpenDispatches
<1>2. status' = status
  BY DEF Reopen, LedgerInv, LedgerTypeOK
<1> QED  BY <1>1, <1>2 DEF Reopen, ledgerVars

(* drainQueue. *)
LEMMA DrainQueueKeeps ==
  ASSUME LedgerInv, DrainQueue
  PROVE  LedgerInv' /\ Range(queue') = {}
<1> USE DEF LedgerInv, DrainQueue
<1>1. Range(queue') = {} /\ IsInjective(queue')
  BY EmptyQueue
<1>2. LedgerTypeOK'
  BY DEF LedgerTypeOK, Status
<1>3. QueueIsOpenDispatches'
  BY <1>1 DEF LedgerTypeOK, QueueIsOpenDispatches
<1>4. OneEntryPerKey'
  BY DEF LedgerTypeOK, Status, OneEntryPerKey, ActiveStatus
<1> QED  BY <1>1, <1>2, <1>3, <1>4

(* restoreToQueue of ids that are known, each once, and not queued. *)
LEMMA RestoreToQueueKeeps ==
  ASSUME LedgerInv, NEW ids \in Seq(Dispatch), IsInjective(ids),
         \A d \in Range(ids) : status[d] # "absent" /\ d \notin Range(queue),
         RestoreToQueue(ids)
  PROVE  LedgerInv' /\ Range(queue') = Range(ids) \cup Range(queue)
<1> USE DEF LedgerInv, RestoreToQueue
<1>0. Range(ids) \subseteq Dispatch
  BY DEF Range
<1>1. /\ queue' \in Seq(Dispatch)
      /\ Range(queue') = Range(ids) \cup Range(queue)
      /\ IsInjective(queue')
  BY RestoreIds DEF LedgerTypeOK, QueueIsOpenDispatches
<1>2. LedgerTypeOK'
  BY <1>1 DEF LedgerTypeOK, Status
<1>3. QueueIsOpenDispatches'
  BY <1>0, <1>1 DEF LedgerTypeOK, QueueIsOpenDispatches
<1>4. OneEntryPerKey'
  BY DEF LedgerTypeOK, Status, OneEntryPerKey, ActiveStatus
<1> QED  BY <1>1, <1>2, <1>3, <1>4

(* ingestAnswer. *)
LEMMA AcceptAnswerKeeps ==
  ASSUME LedgerInv, NEW d \in Dispatch, AcceptAnswer(d)
  PROVE  LedgerInv' /\ Range(queue') = Range(queue) \ {d}
<1> USE DEF LedgerInv, AcceptAnswer
<1>1. /\ queue' \in Seq(Dispatch)
      /\ Range(queue') = Range(queue) \ {d}
      /\ IsInjective(queue')
  BY WithoutId DEF LedgerTypeOK, QueueIsOpenDispatches
<1>2. LedgerTypeOK'
  BY <1>1 DEF LedgerTypeOK, Status
<1>3. QueueIsOpenDispatches'
  BY <1>1 DEF LedgerTypeOK, QueueIsOpenDispatches
<1>4. OneEntryPerKey'
  BY DEF LedgerTypeOK, Status, OneEntryPerKey, ActiveStatus
<1> QED  BY <1>1, <1>2, <1>3, <1>4

(* recordHeartbeat, endSession and the passing of time leave the entries   *)
(* and the queue alone.                                                    *)
LEMMA PresenceKeeps ==
  ASSUME LedgerInv, UNCHANGED <<status, queue, answers>>,
         ended' \in BOOLEAN, seen' \in Presence
  PROVE  LedgerInv'
BY DEF LedgerInv, LedgerTypeOK, QueueIsOpenDispatches, OneEntryPerKey

----------------------------------------------------------------------------
(* The inductive invariant.  That queue and statuses agree survives a      *)
(* restore only because a batch on its way back shares nothing with the    *)
(* queue, which in turn holds only because every drained batch is apart    *)
(* from all others and from what harnesses have.                           *)

(* No batch names an id twice. *)
NoRepeats == IsInjective(batch) /\ \A r \in restoring : IsInjective(r.ids)

(* What has been drained has an entry. *)
DrainedIsKnown == \A d \in InHand \cup Handed : status[d] # "absent"

PlaceInv ==
  /\ OnePlaceAtATime
  /\ NoRepeats
  /\ DrainedIsKnown
  /\ AtMostOnePollDelivery

IInv == LedgerInv /\ FlowTypeOK /\ PlaceInv

(* The initial state has nothing anywhere. *)
LEMMA InitInv == Init => IInv
<1> SUFFICES ASSUME Init PROVE IInv
  OBVIOUS
<1>1. LedgerInv
  BY LedgerInitially DEF Init
<1>2. FlowTypeOK
  <2>1. holder \in [kind : HolderKind, by : Worker \cup {NoOne}]
    BY DEF Init, Free, HolderKind
  <2>2. batch \in Seq(Dispatch)
    BY DEF Init
  <2>3. probe \in {"unknown", "yes", "no"}
    BY DEF Init, ProbeResult
  <2>4. restoring \in SUBSET [by : Poll, ids : Seq(Dispatch)]
    BY DEF Init
  <2>5. /\ click \in [Dispatch -> ClickState]
        /\ target \in [Dispatch -> Dispatch]
        /\ poll \in [Poll -> {"new"} \cup OpenPoll \cup Outcome]
        /\ sock \in [Poll -> {"open", "closing", "closed"}]
        /\ wakes \in [Poll -> Nat]
        /\ inFlight \in SUBSET Dispatch
        /\ cards \in [Dispatch -> Nat]
        /\ crashes \in Nat
        /\ restored \in [Poll -> SUBSET Dispatch]
    BY DEF Init, ClickState
  <2>6. work \in [Worker -> [Dispatch -> WorkState]]
    BY DEF Init, WorkState
  <2> QED  BY <2>1, <2>2, <2>3, <2>4, <2>5, <2>6 DEF FlowTypeOK
<1>3. InHand = {} /\ Handed = {}
  <2>1. Range(batch) = {}
    BY EmptyQueue DEF Init
  <2>2. UNION {Range(r.ids) : r \in restoring} = {}
    BY DEF Init
  <2>3. Poll \subseteq Worker
    BY DEF Worker
  <2>4. Handed = {}
    BY <2>3 DEF Init, Handed
  <2> QED  BY <2>1, <2>2, <2>4 DEF InHand
<1>4. PlaceInv
  <2>1. IsInjective(batch) /\ restoring = {}
    BY EmptyQueue DEF Init
  <2>2. AtMostOnePollDelivery
    BY DEF Init, AtMostOnePollDelivery, Worker
  <2> QED  BY <1>3, <2>1, <2>2
           DEF PlaceInv, OnePlaceAtATime, NoRepeats, DrainedIsKnown
<1> QED  BY <1>1, <1>2, <1>4 DEF IInv

----------------------------------------------------------------------------
(* The requests' own state keeps its types *)

(* attemptDrain finds nothing to take, or takes the whole queue. *)
LEMMA AttemptDrainCases ==
  ASSUME AttemptDrain
  PROVE  \/ batch' = <<>> /\ UNCHANGED ledgerVars
         \/ batch' = queue /\ DrainQueue
<1>1. CASE ended \/ queue = <<>>
  BY <1>1, Zenon DEF AttemptDrain
<1>2. CASE ~(ended \/ queue = <<>>)
  BY <1>2, Zenon DEF AttemptDrain
<1> QED  BY <1>1, <1>2

(* A drain leaves a sequence of ids in the caller's hands. *)
LEMMA AttemptDrainTypes ==
  ASSUME LedgerTypeOK, AttemptDrain
  PROVE  batch' \in Seq(Dispatch)
<1>1. batch' = <<>> \/ batch' = queue
  BY AttemptDrainCases
<1>2. <<>> \in Seq(Dispatch) /\ queue \in Seq(Dispatch)
  BY DEF LedgerTypeOK
<1> QED  BY <1>1, <1>2

(* A child is started for the id the request was given, or none is. *)
LEMMA SpawnTypes ==
  ASSUME FlowTypeOK, NEW c \in Dispatch, NEW found, Spawn(c, found)
  PROVE  /\ inFlight' \in SUBSET Dispatch
         /\ work' \in [Worker -> [Dispatch -> WorkState]]
<1>0. c \in Worker
  BY DEF Worker
<1>1. CASE found = "yes"
  <2>1. /\ inFlight' = inFlight \cup {target[c]}
        /\ work' = [work EXCEPT ![c][target[c]] = "working"]
    BY <1>1, Zenon DEF Spawn
  <2> QED  BY <1>0, <2>1 DEF FlowTypeOK, WorkState
<1>2. CASE found # "yes"
  <2>1. inFlight' = inFlight /\ work' = work
    BY <1>2, Zenon DEF Spawn
  <2> QED  BY <2>1 DEF FlowTypeOK
<1> QED  BY <1>1, <1>2

(* Whoever takes the mutex or is told of an event is a request. *)
LEMMA HolderTypes ==
  /\ Free \in [kind : HolderKind, by : Worker \cup {NoOne}]
  /\ \A k \in HolderKind, w \in Worker \cup {NoOne} :
       Held(k, w) \in [kind : HolderKind, by : Worker \cup {NoOne}]
BY DEF Free, Held, HolderKind

(* Only the listeners of waiting polls are called. *)
LEMMA EmitTypes ==
  ASSUME FlowTypeOK, Emit
  PROVE  wakes' \in [Poll -> Nat]
BY DEF FlowTypeOK, Emit

(* Create requests. *)
LEMMA CreateTypes ==
  ASSUME LedgerTypeOK, FlowTypeOK, NEW c \in Dispatch, Create(c)
  PROVE  FlowTypeOK'
<1> USE HolderTypes, EmitTypes DEF FlowTypeOK, ClickState
<1>0. c \in Worker
  BY DEF Worker
<1>1. CASE CreateNew(c)
  BY <1>0, <1>1 DEF CreateNew, HolderKind
<1>2. CASE CreateReopened(c)
  BY <1>0, <1>2 DEF CreateReopened, Duplicates, HolderKind
<1>3. CASE CreateDuplicate(c)
  BY <1>3 DEF CreateDuplicate
<1>4. CASE Shortcut(c)
  BY <1>0, <1>4 DEF Shortcut, Resume, WorkState
<1>5. CASE LeaveToPoll(c)
  BY <1>5 DEF LeaveToPoll, Resume
<1>6. CASE StartProbe(c)
  BY <1>6 DEF StartProbe, Resume
<1>7. CASE UseCachedProbe(c)
  BY <1>7, SpawnTypes DEF UseCachedProbe, Resume
<1>8. CASE ProbeAnswers(c)
  BY <1>8, SpawnTypes DEF ProbeAnswers, ProbeResult
<1> QED  BY <1>1, <1>2, <1>3, <1>4, <1>5, <1>6, <1>7, <1>8 DEF Create

(* What a hand-over and a restore write. *)
LEMMA HandOverTypes ==
  ASSUME FlowTypeOK, NEW p \in Poll
  PROVE  /\ HandOver(p) => /\ poll' \in [Poll -> {"new"} \cup OpenPoll \cup Outcome]
                           /\ work' \in [Worker -> [Dispatch -> WorkState]]
                           /\ restoring' \in SUBSET [by : Poll, ids : Seq(Dispatch)]
         /\ BeginRestore(p) => /\ work' \in [Worker -> [Dispatch -> WorkState]]
                               /\ restoring' \in SUBSET [by : Poll, ids : Seq(Dispatch)]
<1> USE DEF FlowTypeOK
<1>1. p \in Worker
  BY DEF Worker
<1>2. ASSUME HandOver(p)
      PROVE  /\ poll' \in [Poll -> {"new"} \cup OpenPoll \cup Outcome]
             /\ work' \in [Worker -> [Dispatch -> WorkState]]
             /\ restoring' \in SUBSET [by : Poll, ids : Seq(Dispatch)]
  BY <1>1, <1>2 DEF HandOver, Outcome, WorkState
<1>3. ASSUME BeginRestore(p)
      PROVE  /\ work' \in [Worker -> [Dispatch -> WorkState]]
             /\ restoring' \in SUBSET [by : Poll, ids : Seq(Dispatch)]
  BY <1>3 DEF BeginRestore
<1> QED  BY <1>2, <1>3

(* Poll requests. *)
LEMMA ServePollTypes ==
  ASSUME LedgerTypeOK, FlowTypeOK, NEW p \in Poll, ServePoll(p)
  PROVE  FlowTypeOK'
<1> USE DEF FlowTypeOK
<1>0. p \in Worker
  BY DEF Worker
<1>1. CASE PollArrives(p)
  BY <1>1 DEF PollArrives, OpenPoll
<1>2. CASE FirstAttempt(p)
  BY <1>0, <1>2, AttemptDrainTypes, HolderTypes DEF FirstAttempt, HolderKind
<1>3. CASE FirstResult(p)
  <2>1. /\ holder' = Free /\ batch' = <<>>
        /\ UNCHANGED <<ledgerVars, click, target, sock, wakes, inFlight, probe,
                       cards, crashes, restored>>
    BY <1>3 DEF FirstResult
  <2>2. /\ poll' \in [Poll -> {"new"} \cup OpenPoll \cup Outcome]
        /\ work' \in [Worker -> [Dispatch -> WorkState]]
        /\ restoring' \in SUBSET [by : Poll, ids : Seq(Dispatch)]
    <3>1. CASE HandOver(p)
      BY <3>1, HandOverTypes
    <3>2. CASE UNCHANGED <<restoring, work>>
               /\ poll' = [poll EXCEPT ![p] = IF ended THEN "ended" ELSE "waiting"]
      BY <3>2 DEF OpenPoll, Outcome
    <3>3. CASE BeginRestore(p) /\ poll' = [poll EXCEPT ![p] = "restoring"]
      BY <3>3, HandOverTypes DEF OpenPoll
    <3> QED  BY <1>3, <3>1, <3>2, <3>3 DEF FirstResult
  <2> QED  BY <2>1, <2>2, HolderTypes
<1>4. CASE WakeAttempt(p)
  BY <1>0, <1>4, AttemptDrainTypes, HolderTypes DEF WakeAttempt, HolderKind
<1>5. CASE WakeResult(p)
  <2>1. /\ holder' = Free /\ batch' = <<>>
        /\ UNCHANGED <<ledgerVars, click, target, sock, wakes, inFlight, probe,
                       cards, crashes, restored>>
    BY <1>5 DEF WakeResult
  <2>2. /\ poll' \in [Poll -> {"new"} \cup OpenPoll \cup Outcome]
        /\ work' \in [Worker -> [Dispatch -> WorkState]]
        /\ restoring' \in SUBSET [by : Poll, ids : Seq(Dispatch)]
    <3>1. CASE HandOver(p)
      BY <3>1, HandOverTypes
    <3>2. CASE /\ UNCHANGED <<restoring, work>>
               /\ \/ UNCHANGED poll
                  \/ poll' = [poll EXCEPT ![p] = IF ended THEN "ended" ELSE "waiting"]
      BY <3>2 DEF OpenPoll, Outcome
    <3>3. CASE BeginRestore(p) /\ UNCHANGED poll
      BY <3>3, HandOverTypes
    <3> QED  BY <1>5, <3>1, <3>2, <3>3 DEF WakeResult
  <2> QED  BY <2>1, <2>2, HolderTypes
<1>6. CASE SocketCloses(p)
  BY <1>6 DEF SocketCloses
<1>7. CASE CloseCallback(p)
  BY <1>7 DEF CloseCallback, Outcome
<1>8. CASE OverallTimeout(p)
  BY <1>8 DEF OverallTimeout, Outcome
<1>9. CASE CheckDisconnect(p)
  BY <1>9 DEF CheckDisconnect, Outcome
<1> QED  BY <1>1, <1>2, <1>3, <1>4, <1>5, <1>6, <1>7, <1>8, <1>9 DEF ServePoll

(* Answers. *)
LEMMA AnswerTypes ==
  ASSUME FlowTypeOK, NEW w \in Worker, NEW d \in Dispatch, Answer(w, d)
  PROVE  FlowTypeOK'
<1> USE DEF FlowTypeOK, WorkState, memVars
<1>1. CASE WorkFails(w, d)
  BY <1>1 DEF WorkFails, Leave
<1>2. CASE Submit(w, d)
  BY <1>2 DEF Submit
<1>3. CASE Refuse(w, d)
  BY <1>3 DEF Refuse
<1>4. CASE Ingest(w, d)
  BY <1>4 DEF Ingest
<1>5. CASE AlreadyTerminal(w, d)
  BY <1>5 DEF AlreadyTerminal, Leave
<1>6. CASE AppendCard(w, d)
  <2>1. \/ /\ work' = [work EXCEPT ![w][d] = "done"]
           /\ cards' = [cards EXCEPT ![d] = @ + 1]
        \/ work' = [work EXCEPT ![w][d] = "noCard"] /\ UNCHANGED cards
    BY <1>6 DEF AppendCard
  <2>2. work' \in [Worker -> [Dispatch -> WorkState]]
    <3>1. PICK x \in {"done", "noCard"} : work' = [work EXCEPT ![w][d] = x]
      BY <2>1, Zenon
    <3>2. [work[w] EXCEPT ![d] = x] \in [Dispatch -> WorkState]
      OBVIOUS
    <3> QED  BY <3>1, <3>2
  <2>3. cards' \in [Dispatch -> Nat]
    <3>1. cards[d] + 1 \in Nat
      OBVIOUS
    <3>2. cards' = [cards EXCEPT ![d] = cards[d] + 1] \/ cards' = cards
      BY <2>1
    <3> QED  BY <3>1, <3>2
  <2>4. inFlight' \in SUBSET Dispatch
    BY <1>6 DEF AppendCard, Leave
  <2> QED  BY <1>6, <2>2, <2>3, <2>4 DEF AppendCard
<1> QED  BY <1>1, <1>2, <1>3, <1>4, <1>5, <1>6 DEF Answer

(* A crash. *)
LEMMA CrashTypes ==
  ASSUME FlowTypeOK, Crash
  PROVE  FlowTypeOK'
<1> USE DEF FlowTypeOK, Crash
<1>1. holder' \in [kind : HolderKind, by : Worker \cup {NoOne}]
  BY HolderTypes
<1>2. work' \in [Worker -> [Dispatch -> WorkState]]
  BY DEF WorkState
<1>3. /\ click' \in [Dispatch -> ClickState]
      /\ poll' \in [Poll -> {"new"} \cup OpenPoll \cup Outcome]
  BY DEF ClickState, Outcome
<1>4. batch' \in Seq(Dispatch)
  OBVIOUS
<1> QED  BY <1>1, <1>2, <1>3, <1>4

(* A restore, which the history notes. *)
LEMMA RestoreTypes ==
  ASSUME FlowTypeOK, NEW r \in restoring, Restore(r)
  PROVE  FlowTypeOK'
<1> USE DEF FlowTypeOK
<1>1. r.by \in Poll /\ Range(r.ids) \subseteq Dispatch
  BY DEF Range
<1>2. restored' \in [Poll -> SUBSET Dispatch]
  BY <1>1 DEF Restore
<1>3. poll' \in [Poll -> {"new"} \cup OpenPoll \cup Outcome]
  BY <1>1 DEF Restore, Outcome
<1> QED  BY <1>2, <1>3 DEF Restore

(* Every step. *)
LEMMA NextTypes ==
  ASSUME LedgerTypeOK, FlowTypeOK, Next
  PROVE  FlowTypeOK'
<1>1. CASE \E c \in Dispatch : Create(c)
  BY <1>1, CreateTypes
<1>2. CASE \E p \in Poll : ServePoll(p)
  BY <1>2, ServePollTypes
<1>3. CASE \E r \in restoring : Restore(r)
  BY <1>3, RestoreTypes
<1>4. CASE \E w \in Worker, d \in Dispatch : Answer(w, d)
  BY <1>4, AnswerTypes
<1>5. CASE Heartbeat \/ GraceExpires
  BY <1>5 DEF FlowTypeOK, Heartbeat, GraceExpires, memVars
<1>6. CASE End
  BY <1>6, HolderTypes DEF FlowTypeOK, End, HolderKind
<1>7. CASE EndResumes
  BY <1>7, HolderTypes, EmitTypes DEF FlowTypeOK, EndResumes
<1>8. CASE Crash
  BY <1>8, CrashTypes
<1> QED  BY <1>1, <1>2, <1>3, <1>4, <1>5, <1>6, <1>7, <1>8 DEF Next

----------------------------------------------------------------------------
(* The ledger under every step *)

(* No entry disappears. *)
EntriesStay ==
  \A d \in Dispatch : status[d] # "absent" => status'[d] # "absent"

(* A step that leaves the ledger alone. *)
LEMMA LedgerUnchanged ==
  ASSUME LedgerInv, UNCHANGED ledgerVars
  PROVE  LedgerInv' /\ EntriesStay /\ Range(queue') = Range(queue)
BY DEF LedgerInv, LedgerTypeOK, QueueIsOpenDispatches, OneEntryPerKey,
       ledgerVars, EntriesStay

(* attemptDrain. *)
LEMMA AttemptDrainKeeps ==
  ASSUME LedgerInv, AttemptDrain
  PROVE  LedgerInv' /\ EntriesStay
<1>1. CASE UNCHANGED ledgerVars
  BY <1>1, LedgerUnchanged
<1>2. CASE DrainQueue
  <2>1. EntriesStay
    BY <1>2 DEF DrainQueue, EntriesStay
  <2> QED  BY <1>2, <2>1, DrainQueueKeeps
<1> QED  BY <1>1, <1>2, AttemptDrainCases

(* A create request adds an entry at most, under an id nobody has. *)
LEMMA CreateLedger ==
  ASSUME LedgerInv, NEW c \in Dispatch, Create(c)
  PROVE  /\ LedgerInv' /\ EntriesStay
         /\ Range(queue') \subseteq
              Range(queue) \cup {d \in Dispatch : status[d] = "absent"}
<1>1. CASE CreateNew(c)
  <2>1. EnqueueNew(c) /\ status[c] = "absent"
    BY <1>1, NewIsAbsent DEF CreateNew, EnqueueNew, LedgerInv
  <2>2. LedgerInv'
    BY <2>1, EnqueueNewKeeps
  <2>3. Range(queue') = Range(queue) \cup {c}
    BY <2>1, AppendId DEF EnqueueNew, LedgerInv, LedgerTypeOK
  <2>4. EntriesStay
    BY <2>1 DEF EnqueueNew, LedgerInv, LedgerTypeOK, EntriesStay
  <2> QED  BY <2>1, <2>2, <2>3, <2>4
<1>2. CASE CreateReopened(c)
  <2>1. PICK e \in Dispatch : status[e] = "open" /\ Reopen(e)
    BY <1>2 DEF CreateReopened, Duplicates, ShouldReopen
  <2>2. UNCHANGED ledgerVars
    BY <2>1, ReopenChangesNothing
  <2> QED  BY <2>2, LedgerUnchanged
<1>3. CASE UNCHANGED ledgerVars
  BY <1>3, LedgerUnchanged
<1> QED
  <2>1. CASE CreateDuplicate(c) \/ Shortcut(c) \/ LeaveToPoll(c) \/ StartProbe(c)
             \/ UseCachedProbe(c) \/ ProbeAnswers(c)
    BY <2>1, <1>3 DEF CreateDuplicate, Shortcut, LeaveToPoll, StartProbe,
                      UseCachedProbe, ProbeAnswers
  <2> QED  BY <1>1, <1>2, <2>1 DEF Create

(* A poll's own steps drain the queue or leave the ledger alone. *)
LEMMA ServePollLedger ==
  ASSUME LedgerInv, NEW p \in Poll, ServePoll(p)
  PROVE  LedgerInv' /\ EntriesStay
<1>1. CASE FirstAttempt(p) \/ WakeAttempt(p)
  BY <1>1, AttemptDrainKeeps DEF FirstAttempt, WakeAttempt
<1>2. CASE ~(FirstAttempt(p) \/ WakeAttempt(p))
  <2>1. UNCHANGED ledgerVars
    BY <1>2 DEF ServePoll, PollArrives, FirstResult, WakeResult, SocketCloses,
                CloseCallback, OverallTimeout, CheckDisconnect
  <2> QED  BY <2>1, LedgerUnchanged
<1> QED  BY <1>1, <1>2

(* A batch on its way back finds its ids known and not queued. *)
LEMMA RestoreLedger ==
  ASSUME IInv, NEW r \in restoring, Restore(r)
  PROVE  /\ LedgerInv' /\ EntriesStay
         /\ Range(queue') = Range(r.ids) \cup Range(queue)
<1>1. r.ids \in Seq(Dispatch)
  BY DEF IInv, FlowTypeOK
<1>2. Range(r.ids) \subseteq InHand
  BY DEF InHand
<1>3. /\ IsInjective(r.ids)
      /\ \A d \in Range(r.ids) : status[d] # "absent" /\ d \notin Range(queue)
  BY <1>2 DEF IInv, PlaceInv, OnePlaceAtATime, NoRepeats, DrainedIsKnown
<1>4. RestoreToQueue(r.ids)
  BY DEF Restore
<1>5. LedgerInv' /\ Range(queue') = Range(r.ids) \cup Range(queue)
  BY <1>1, <1>3, <1>4, RestoreToQueueKeeps DEF IInv
<1>6. EntriesStay
  BY <1>4 DEF RestoreToQueue, EntriesStay
<1> QED  BY <1>5, <1>6

(* An answer takes its id off the queue, if it is accepted. *)
LEMMA AnswerLedger ==
  ASSUME LedgerInv, NEW w \in Worker, NEW d \in Dispatch, Answer(w, d)
  PROVE  LedgerInv' /\ EntriesStay /\ Range(queue') \subseteq Range(queue)
<1>1. CASE Ingest(w, d)
  <2>1. AcceptAnswer(d)
    BY <1>1 DEF Ingest
  <2>2. EntriesStay
    BY <2>1 DEF AcceptAnswer, EntriesStay, LedgerInv, LedgerTypeOK
  <2> QED  BY <2>1, <2>2, AcceptAnswerKeeps
<1>2. CASE ~Ingest(w, d)
  <2>1. UNCHANGED ledgerVars
    BY <1>2 DEF Answer, WorkFails, Submit, Refuse, AlreadyTerminal, AppendCard
  <2> QED  BY <2>1, LedgerUnchanged
<1> QED  BY <1>1, <1>2

(* Heartbeats, the grace period, the end of the session and its wake-up. *)
LEMMA PresenceLedger ==
  ASSUME LedgerInv, Heartbeat \/ GraceExpires \/ End \/ EndResumes
  PROVE  LedgerInv' /\ EntriesStay /\ queue' = queue
<1>1. /\ UNCHANGED <<status, queue, answers>>
      /\ ended' \in BOOLEAN /\ seen' \in Presence
  <2>1. CASE Heartbeat
    BY <2>1 DEF Heartbeat, RecordHeartbeat, Presence, LedgerInv, LedgerTypeOK
  <2>2. CASE GraceExpires
    BY <2>2 DEF GraceExpires, Presence, LedgerInv, LedgerTypeOK
  <2>3. CASE End
    <3>1. TRUE \in BOOLEAN
      BY Zenon
    <3> QED  BY <2>3, <3>1 DEF End, EndSession, LedgerInv, LedgerTypeOK
  <2>4. CASE EndResumes
    BY <2>4 DEF EndResumes, ledgerVars, LedgerInv, LedgerTypeOK
  <2> QED  BY <2>1, <2>2, <2>3, <2>4
<1>2. EntriesStay
  BY <1>1 DEF EntriesStay
<1> QED  BY <1>1, <1>2, PresenceKeeps

(* Every step. *)
LEMMA NextLedger ==
  ASSUME IInv, Next
  PROVE  LedgerInv'
<1> USE DEF IInv
<1>1. CASE \E c \in Dispatch : Create(c)
  BY <1>1, CreateLedger
<1>2. CASE \E p \in Poll : ServePoll(p)
  BY <1>2, ServePollLedger
<1>3. CASE \E r \in restoring : Restore(r)
  BY <1>3, RestoreLedger
<1>4. CASE \E w \in Worker, d \in Dispatch : Answer(w, d)
  BY <1>4, AnswerLedger
<1>5. CASE Heartbeat \/ GraceExpires \/ End \/ EndResumes
  BY <1>5, PresenceLedger
<1>6. CASE Crash
  BY <1>6, LedgerUnchanged DEF Crash
<1> QED  BY <1>1, <1>2, <1>3, <1>4, <1>5, <1>6 DEF Next

----------------------------------------------------------------------------
(* Batches and hand-overs under every step *)

(* A step that neither drains, restores nor hands over, and queues nothing *)
(* that has been drained.                                                  *)
LEMMA PlacesKept ==
  ASSUME IInv, EntriesStay,
         UNCHANGED <<batch, restoring>>,
         \A p \in Poll, d \in Dispatch :
            work'[p][d] # "none" <=> work[p][d] # "none",
         Range(queue') \cap (InHand \cup Handed) = {}
  PROVE  PlaceInv'
<1> USE DEF IInv, PlaceInv
<1>1. InHand' = InHand /\ Handed' = Handed
  BY DEF InHand, Handed
<1>2. InHand \subseteq Dispatch /\ Handed \subseteq Dispatch
  BY DEF InHand, Handed, FlowTypeOK, Range
<1>3. OnePlaceAtATime'
  BY <1>1 DEF OnePlaceAtATime
<1>4. NoRepeats'
  BY DEF NoRepeats
<1>5. DrainedIsKnown'
  BY <1>1, <1>2 DEF DrainedIsKnown, EntriesStay
<1>6. AtMostOnePollDelivery'
  BY DEF AtMostOnePollDelivery
<1> QED  BY <1>3, <1>4, <1>5, <1>6

(* A drain moves the queue into the caller's hands. *)
LEMMA AttemptDrainPlaces ==
  ASSUME IInv, AttemptDrain, UNCHANGED <<restoring, work>>
  PROVE  PlaceInv'
<1> USE DEF IInv, PlaceInv
<1> DEFINE Returning == UNION {Range(r.ids) : r \in restoring}
<1>1. Handed' = Handed /\ Returning' = Returning
  BY DEF Handed
<1>2. /\ IsInjective(batch') /\ Range(batch') \subseteq Range(queue)
      /\ Range(batch') \cap Range(queue') = {}
      /\ Range(queue') \subseteq Range(queue)
  <2>1. CASE batch' = <<>> /\ UNCHANGED ledgerVars
    BY <2>1, EmptyQueue DEF ledgerVars
  <2>2. CASE batch' = queue /\ DrainQueue
    BY <2>2, DrainQueueKeeps, EmptyQueue DEF LedgerInv, QueueIsOpenDispatches
  <2> QED  BY <2>1, <2>2, AttemptDrainCases
<1>3. Returning \subseteq InHand /\ InHand' = Range(batch') \cup Returning
  BY <1>1 DEF InHand
<1> HIDE DEF Returning
<1>4. OnePlaceAtATime'
  <2>1. (InHand' \cup Handed') \cap Range(queue') = {} /\ InHand' \cap Handed' = {}
    BY <1>1, <1>2, <1>3 DEF OnePlaceAtATime
  <2>2. \A r \in restoring : Range(r.ids) \cap Range(batch') = {}
    <3>1. \A r \in restoring : Range(r.ids) \subseteq InHand
      BY DEF InHand
    <3> QED  BY <3>1, <1>2 DEF OnePlaceAtATime
  <2> QED  BY <2>1, <2>2 DEF OnePlaceAtATime
<1>5. NoRepeats'
  BY <1>2 DEF NoRepeats
<1>6. DrainedIsKnown'
  <2>1. EntriesStay
    BY AttemptDrainKeeps
  <2>2. \A d \in Range(queue) : d \in Dispatch /\ status[d] # "absent"
    BY DEF LedgerInv, QueueIsOpenDispatches
  <2>3. InHand \subseteq Dispatch /\ Handed \subseteq Dispatch
    BY DEF InHand, Handed, FlowTypeOK, Range
  <2> QED  BY <1>1, <1>2, <1>3, <2>1, <2>2, <2>3 DEF DrainedIsKnown, EntriesStay
<1>7. AtMostOnePollDelivery'
  BY DEF AtMostOnePollDelivery
<1> QED  BY <1>4, <1>5, <1>6, <1>7

(* A batch on its way back is in hand as it was before. *)
LEMMA BeginRestoreHolds ==
  ASSUME NEW p, BeginRestore(p), batch' = <<>>
  PROVE  InHand' = InHand /\ Handed' = Handed
<1> DEFINE new == [by |-> p, ids |-> batch]
<1>1. restoring' = restoring \cup {new} /\ work' = work
  BY DEF BeginRestore
<1>2. UNION {Range(r.ids) : r \in restoring'} =
        Range(batch) \cup UNION {Range(r.ids) : r \in restoring}
  <2>1. new.ids = batch
    OBVIOUS
  <2> HIDE DEF new
  <2> QED  BY <1>1, <2>1
<1> QED  BY <1>1, <1>2, EmptyQueue DEF InHand, Handed

(* A hand-over adds its batch to what harnesses have. *)
LEMMA HandOverHands ==
  ASSUME FlowTypeOK, NEW p \in Poll, HandOver(p)
  PROVE  Handed' = Handed \cup Range(batch)
<1>1. /\ \A q \in Poll \ {p} : work'[q] = work[q]
      /\ \A d \in Dispatch : work'[p][d] # "none" <=>
                               d \in Range(batch) \/ work[p][d] # "none"
  BY DEF HandOver, FlowTypeOK, Worker
<1>2. Range(batch) \subseteq Dispatch
  BY DEF FlowTypeOK, Range
<1> QED  BY <1>1, <1>2 DEF Handed

(* What was drained is forgotten, sent back or handed over, never two of   *)
(* these.                                                                  *)
LEMMA ResultPlaces ==
  ASSUME IInv, NEW p \in Poll, UNCHANGED ledgerVars, batch' = <<>>,
         UNCHANGED <<restoring, work>> \/ HandOver(p) \/ BeginRestore(p)
  PROVE  PlaceInv'
<1> USE DEF IInv, PlaceInv
<1>0. /\ p \in Worker /\ Range(batch') = {} /\ IsInjective(batch')
      /\ status' = status /\ Range(queue') = Range(queue)
  BY EmptyQueue DEF Worker, ledgerVars
<1>1. CASE UNCHANGED <<restoring, work>>
  <2>1. InHand' \subseteq InHand /\ Handed' = Handed
    BY <1>0, <1>1 DEF InHand, Handed
  <2>2. OnePlaceAtATime'
    BY <1>0, <1>1, <2>1 DEF OnePlaceAtATime
  <2>3. NoRepeats'
    BY <1>0, <1>1 DEF NoRepeats
  <2>4. DrainedIsKnown'
    BY <1>0, <2>1 DEF DrainedIsKnown
  <2>5. AtMostOnePollDelivery'
    BY <1>1 DEF AtMostOnePollDelivery
  <2> QED  BY <2>2, <2>3, <2>4, <2>5
<1>2. CASE BeginRestore(p)
  <2> DEFINE new == [by |-> p, ids |-> batch]
  <2>1. restoring' = restoring \cup {new} /\ work' = work
    BY <1>2 DEF BeginRestore
  <2>2. InHand' = InHand /\ Handed' = Handed
    BY <1>2, BeginRestoreHolds
  <2>3. OnePlaceAtATime'
    <3>1. ASSUME NEW r \in restoring', NEW s \in restoring', r # s
          PROVE  Range(r.ids) \cap Range(s.ids) = {}
      BY <2>1, <3>1 DEF OnePlaceAtATime
    <3> QED  BY <1>0, <2>2, <3>1 DEF OnePlaceAtATime
  <2>4. NoRepeats'
    BY <1>0, <2>1 DEF NoRepeats
  <2>5. DrainedIsKnown'
    BY <1>0, <2>2 DEF DrainedIsKnown
  <2>6. AtMostOnePollDelivery'
    BY <2>1 DEF AtMostOnePollDelivery
  <2> QED  BY <2>3, <2>4, <2>5, <2>6
<1>3. CASE HandOver(p)
  <2>1. /\ restoring' = restoring
        /\ \A q \in Poll \ {p} : work'[q] = work[q]
        /\ \A d \in Dispatch : work'[p][d] # "none" <=>
                                 d \in Range(batch) \/ work[p][d] # "none"
    BY <1>0, <1>3 DEF HandOver, FlowTypeOK, Worker
  <2>2. Handed' = Handed \cup Range(batch)
    BY <1>3, HandOverHands
  <2>3. /\ Range(batch) \subseteq InHand /\ InHand' \subseteq InHand
        /\ InHand' \cap Range(batch) = {}
    BY <1>0, <2>1 DEF InHand, OnePlaceAtATime
  <2>4. OnePlaceAtATime'
    <3>1. (InHand' \cup Handed') \cap Range(queue') = {} /\ InHand' \cap Handed' = {}
      BY <1>0, <2>2, <2>3 DEF OnePlaceAtATime
    <3> QED  BY <1>0, <2>1, <3>1 DEF OnePlaceAtATime
  <2>5. NoRepeats'
    BY <1>0, <2>1 DEF NoRepeats
  <2>6. DrainedIsKnown'
    BY <1>0, <2>2, <2>3 DEF DrainedIsKnown
  <2>7. AtMostOnePollDelivery'
    <3> SUFFICES ASSUME NEW d \in Dispatch, NEW q \in Poll, NEW s \in Poll,
                        work'[q][d] # "none", work'[s][d] # "none"
                 PROVE  q = s
      BY DEF AtMostOnePollDelivery
    <3>1. CASE d \in Range(batch)
      <4>1. d \notin Handed
        BY <2>3, <3>1 DEF OnePlaceAtATime
      <4>2. \A x \in Poll : work[x][d] = "none"
        BY <4>1 DEF Handed
      <4> QED  BY <2>1, <4>2
    <3>2. CASE d \notin Range(batch)
      <4>1. work[q][d] # "none" /\ work[s][d] # "none"
        BY <2>1, <3>2
      <4> QED  BY <4>1 DEF AtMostOnePollDelivery
    <3> QED  BY <3>1, <3>2
  <2> QED  BY <2>4, <2>5, <2>6, <2>7
<1> QED  BY <1>1, <1>2, <1>3

(* A batch goes back in front of what is queued. *)
LEMMA RestorePlaces ==
  ASSUME IInv, NEW r \in restoring, Restore(r)
  PROVE  PlaceInv'
<1> USE DEF IInv, PlaceInv
<1>1. /\ EntriesStay /\ Range(queue') = Range(r.ids) \cup Range(queue)
      /\ restoring' = restoring \ {r} /\ batch' = batch /\ work' = work
  BY RestoreLedger DEF Restore
<1>2. /\ Range(r.ids) \subseteq InHand
      /\ InHand' \subseteq InHand /\ InHand' \cap Range(r.ids) = {}
      /\ Handed' = Handed
  <2>1. Range(r.ids) \subseteq InHand /\ InHand' \subseteq InHand /\ Handed' = Handed
    BY <1>1 DEF InHand, Handed
  <2>2. ASSUME NEW d \in InHand' PROVE d \notin Range(r.ids)
    <3>1. CASE d \in Range(batch)
      BY <3>1 DEF OnePlaceAtATime
    <3>2. CASE \E s \in restoring \ {r} : d \in Range(s.ids)
      BY <3>2 DEF OnePlaceAtATime
    <3> QED  BY <1>1, <3>1, <3>2 DEF InHand
  <2> QED  BY <2>1, <2>2
<1>3. OnePlaceAtATime'
  BY <1>1, <1>2 DEF OnePlaceAtATime
<1>4. NoRepeats'
  BY <1>1 DEF NoRepeats
<1>5. DrainedIsKnown'
  <2>1. InHand \subseteq Dispatch /\ Handed \subseteq Dispatch
    BY DEF InHand, Handed, FlowTypeOK, Range
  <2> QED  BY <1>1, <1>2, <2>1 DEF DrainedIsKnown, EntriesStay
<1>6. AtMostOnePollDelivery'
  BY <1>1 DEF AtMostOnePollDelivery
<1> QED  BY <1>3, <1>4, <1>5, <1>6

(* A crash forgets every batch and leaves harnesses what they have. *)
LEMMA CrashPlaces ==
  ASSUME IInv, Crash
  PROVE  PlaceInv'
<1> USE DEF IInv, PlaceInv
<1>1. /\ Range(batch') = {} /\ IsInjective(batch') /\ restoring' = {}
      /\ status' = status /\ queue' = queue
  BY EmptyQueue DEF Crash, ledgerVars
<1>2. \A p \in Poll, d \in Dispatch :
         work'[p][d] # "none" <=> work[p][d] # "none"
  BY DEF Crash, FlowTypeOK, Worker
<1>3. InHand' = {} /\ Handed' = Handed
  BY <1>1, <1>2 DEF InHand, Handed
<1>4. OnePlaceAtATime' /\ NoRepeats' /\ DrainedIsKnown'
  BY <1>1, <1>3 DEF OnePlaceAtATime, NoRepeats, DrainedIsKnown
<1>5. AtMostOnePollDelivery'
  BY <1>2 DEF AtMostOnePollDelivery
<1> QED  BY <1>4, <1>5

(* A create request works for no harness. *)
LEMMA CreateLeavesHarnesses ==
  ASSUME IInv, NEW c \in Dispatch, Create(c)
  PROVE  \A p \in Poll : work'[p] = work[p]
<1>1. c \notin Poll /\ Poll \subseteq Worker
  BY FlowAssumption DEF Worker
<1>2. work' = work \/ \E x \in WorkState : work' = [work EXCEPT ![c][target[c]] = x]
  <2>1. CASE CreateNew(c) \/ CreateReopened(c) \/ CreateDuplicate(c)
             \/ LeaveToPoll(c) \/ StartProbe(c)
    BY <2>1 DEF CreateNew, CreateReopened, CreateDuplicate, LeaveToPoll, StartProbe
  <2>2. CASE Shortcut(c)
    BY <2>2 DEF Shortcut, WorkState
  <2>3. ASSUME NEW found, Spawn(c, found)
        PROVE  work' = work \/ work' = [work EXCEPT ![c][target[c]] = "working"]
    BY <2>3, Zenon DEF Spawn
  <2>4. CASE UseCachedProbe(c) \/ ProbeAnswers(c)
    BY <2>3, <2>4 DEF UseCachedProbe, ProbeAnswers, WorkState
  <2> QED  BY <2>1, <2>2, <2>4 DEF Create
<1> QED  BY <1>1, <1>2 DEF IInv, FlowTypeOK

(* Requests, answers and the session's own steps. *)
LEMMA CreatePlaces ==
  ASSUME IInv, NEW c \in Dispatch, Create(c)
  PROVE  PlaceInv'
<1>1. EntriesStay /\ Range(queue') \cap (InHand \cup Handed) = {}
  <2>1. /\ EntriesStay
        /\ Range(queue') \subseteq
             Range(queue) \cup {d \in Dispatch : status[d] = "absent"}
    BY CreateLedger DEF IInv
  <2> QED  BY <2>1 DEF IInv, PlaceInv, OnePlaceAtATime, DrainedIsKnown
<1>2. UNCHANGED <<batch, restoring>>
  BY DEF Create, CreateNew, CreateReopened, CreateDuplicate, Shortcut,
         LeaveToPoll, StartProbe, UseCachedProbe, ProbeAnswers
<1>3. \A p \in Poll : work'[p] = work[p]
  BY CreateLeavesHarnesses
<1> QED  BY <1>1, <1>2, <1>3, PlacesKept

LEMMA ServePollPlaces ==
  ASSUME IInv, NEW p \in Poll, ServePoll(p)
  PROVE  PlaceInv'
<1>1. CASE FirstAttempt(p) \/ WakeAttempt(p)
  BY <1>1, AttemptDrainPlaces DEF FirstAttempt, WakeAttempt
<1>2. CASE FirstResult(p) \/ WakeResult(p)
  <2>1. /\ UNCHANGED ledgerVars /\ batch' = <<>>
        /\ UNCHANGED <<restoring, work>> \/ HandOver(p) \/ BeginRestore(p)
    BY <1>2 DEF FirstResult, WakeResult
  <2> QED  BY <2>1, ResultPlaces
<1>3. CASE PollArrives(p) \/ SocketCloses(p) \/ CloseCallback(p)
           \/ OverallTimeout(p) \/ CheckDisconnect(p)
  <2>1. UNCHANGED <<ledgerVars, batch, restoring, work>>
    BY <1>3 DEF PollArrives, SocketCloses, CloseCallback, OverallTimeout,
                CheckDisconnect
  <2>2. EntriesStay /\ Range(queue') = Range(queue)
    BY <2>1, LedgerUnchanged DEF IInv
  <2>3. Range(queue') \cap (InHand \cup Handed) = {}
    BY <2>2 DEF IInv, PlaceInv, OnePlaceAtATime
  <2> QED  BY <2>1, <2>2, <2>3, PlacesKept
<1> QED  BY <1>1, <1>2, <1>3 DEF ServePoll

(* Whoever answers had the work before, and has had it since. *)
LEMMA AnswerLeavesPlaces ==
  ASSUME IInv, NEW w \in Worker, NEW d \in Dispatch, Answer(w, d)
  PROVE  \A p \in Poll, e \in Dispatch :
            work'[p][e] # "none" <=> work[p][e] # "none"
<1>1. /\ work[w][d] # "none"
      /\ \E x \in WorkState \ {"none"} : work' = [work EXCEPT ![w][d] = x]
  BY DEF Answer, WorkFails, Submit, Refuse, Ingest, AlreadyTerminal,
         AppendCard, WorkState
<1> QED  BY <1>1 DEF IInv, FlowTypeOK, Worker

LEMMA AnswerPlaces ==
  ASSUME IInv, NEW w \in Worker, NEW d \in Dispatch, Answer(w, d)
  PROVE  PlaceInv'
<1>1. EntriesStay /\ Range(queue') \cap (InHand \cup Handed) = {}
  <2>1. EntriesStay /\ Range(queue') \subseteq Range(queue)
    BY AnswerLedger DEF IInv
  <2> QED  BY <2>1 DEF IInv, PlaceInv, OnePlaceAtATime
<1>2. UNCHANGED <<batch, restoring>>
  BY DEF Answer, WorkFails, Submit, Refuse, Ingest, AlreadyTerminal,
         AppendCard, memVars
<1>3. \A p \in Poll, e \in Dispatch :
         work'[p][e] # "none" <=> work[p][e] # "none"
  BY AnswerLeavesPlaces
<1> QED  BY <1>1, <1>2, <1>3, PlacesKept

(* Every step. *)
LEMMA NextPlaces ==
  ASSUME IInv, Next
  PROVE  PlaceInv'
<1>1. CASE \E c \in Dispatch : Create(c)
  BY <1>1, CreatePlaces
<1>2. CASE \E p \in Poll : ServePoll(p)
  BY <1>2, ServePollPlaces
<1>3. CASE \E r \in restoring : Restore(r)
  BY <1>3, RestorePlaces
<1>4. CASE \E w \in Worker, d \in Dispatch : Answer(w, d)
  BY <1>4, AnswerPlaces
<1>5. CASE Heartbeat \/ GraceExpires \/ End \/ EndResumes
  <2>1. EntriesStay /\ queue' = queue
    BY <1>5, PresenceLedger DEF IInv
  <2>2. UNCHANGED <<batch, restoring, work>>
    BY <1>5 DEF Heartbeat, GraceExpires, End, EndResumes, memVars
  <2>3. Range(queue') \cap (InHand \cup Handed) = {}
    BY <2>1 DEF IInv, PlaceInv, OnePlaceAtATime
  <2> QED  BY <2>1, <2>2, <2>3, PlacesKept
<1>6. CASE Crash
  BY <1>6, CrashPlaces
<1> QED  BY <1>1, <1>2, <1>3, <1>4, <1>5, <1>6 DEF Next

----------------------------------------------------------------------------
(* The theorems *)

(* The invariant is inductive. *)
LEMMA StepInv == IInv /\ [Next]_vars => IInv'
<1> SUFFICES ASSUME IInv, [Next]_vars PROVE IInv'
  OBVIOUS
<1>1. CASE Next
  BY <1>1, NextLedger, NextTypes, NextPlaces DEF IInv, LedgerInv
<1>2. CASE UNCHANGED vars
  <2>1. LedgerInv' /\ EntriesStay /\ queue' = queue
    BY <1>2, LedgerUnchanged DEF IInv, vars, ledgerVars
  <2>2. FlowTypeOK'
    BY <1>2 DEF IInv, FlowTypeOK, vars, memVars
  <2>3. UNCHANGED <<batch, restoring, work>>
    BY <1>2 DEF vars, memVars
  <2>4. Range(queue') \cap (InHand \cup Handed) = {}
    BY <2>1 DEF IInv, PlaceInv, OnePlaceAtATime
  <2>5. PlaceInv'
    BY <2>1, <2>3, <2>4, PlacesKept
  <2> QED  BY <2>1, <2>2, <2>5 DEF IInv
<1> QED  BY <1>1, <1>2

LEMMA Invariance == Spec => []IInv
BY InitInv, StepInv, PTL DEF Spec

(* Every variable keeps its type, whatever requests overlap or die. *)
THEOREM TypeCorrect == Spec => []TypeOK
<1>1. IInv => TypeOK
  BY DEF IInv, LedgerInv, TypeOK
<1> QED  BY <1>1, Invariance, PTL

(* Queue and statuses agree in every reachable state: what can be drained  *)
(* is exactly what is open, each id once.                                  *)
THEOREM QueueAgreesWithStatus == Spec => []QueueIsOpenDispatches
<1>1. IInv => QueueIsOpenDispatches
  BY DEF IInv, LedgerInv
<1> QED  BY <1>1, Invariance, PTL

(* No dedupe key ever has two live entries. *)
THEOREM NoDuplicateEntry == Spec => []OneEntryPerKey
<1>1. IInv => OneEntryPerKey
  BY DEF IInv, LedgerInv
<1> QED  BY <1>1, Invariance, PTL

(* A dispatch is queued, in one batch or handed over, never two of these. *)
THEOREM NeverInTwoPlaces == Spec => []OnePlaceAtATime
<1>1. IInv => OnePlaceAtATime
  BY DEF IInv, PlaceInv
<1> QED  BY <1>1, Invariance, PTL

(* No two polls ever hand the same dispatch to their harnesses. *)
THEOREM NeverDeliveredTwice == Spec => []AtMostOnePollDelivery
<1>1. IInv => AtMostOnePollDelivery
  BY DEF IInv, PlaceInv
<1> QED  BY <1>1, Invariance, PTL

(* Who writes statuses and answers: a request for a new dispatch, a drain  *)
(* before the end, a restore, or an accepted answer.                       *)
LEMMA LedgerWriters ==
  ASSUME IInv, Next
  PROVE  \/ UNCHANGED <<status, answers>>
         \/ \E c \in Dispatch : CreateNew(c)
         \/ ~ended /\ DrainQueue
         \/ \E r \in restoring : Restore(r)
         \/ \E w \in Worker, d \in Dispatch : Ingest(w, d)
<1>1. ASSUME NEW c \in Dispatch, CreateReopened(c) PROVE UNCHANGED <<status, answers>>
  <2>1. PICK e \in Dispatch : status[e] = "open" /\ Reopen(e)
    BY <1>1 DEF CreateReopened, Duplicates, ShouldReopen
  <2> QED  BY <2>1, ReopenChangesNothing DEF IInv, ledgerVars
<1>2. ASSUME NEW c \in Dispatch, Create(c)
      PROVE  CreateNew(c) \/ UNCHANGED <<status, answers>>
  BY <1>1, <1>2 DEF Create, CreateDuplicate, Shortcut, LeaveToPoll, StartProbe,
                    UseCachedProbe, ProbeAnswers, ledgerVars
<1>3. ASSUME AttemptDrain PROVE (~ended /\ DrainQueue) \/ UNCHANGED <<status, answers>>
  <2>1. CASE ended \/ queue = <<>>
    BY <1>3, <2>1, Zenon DEF AttemptDrain, ledgerVars
  <2>2. CASE ~(ended \/ queue = <<>>)
    BY <1>3, <2>2, Zenon DEF AttemptDrain
  <2> QED  BY <2>1, <2>2
<1>4. ASSUME NEW p \in Poll, ServePoll(p)
      PROVE  (~ended /\ DrainQueue) \/ UNCHANGED <<status, answers>>
  BY <1>3, <1>4 DEF ServePoll, PollArrives, FirstAttempt, FirstResult, WakeAttempt,
       WakeResult, SocketCloses, CloseCallback, OverallTimeout, CheckDisconnect,
       ledgerVars
<1>5. ASSUME NEW w \in Worker, NEW d \in Dispatch, Answer(w, d)
      PROVE  Ingest(w, d) \/ UNCHANGED <<status, answers>>
  BY <1>5 DEF Answer, WorkFails, Submit, Refuse, AlreadyTerminal, AppendCard, ledgerVars
<1>6. ASSUME Heartbeat \/ GraceExpires \/ End \/ EndResumes \/ Crash
      PROVE  UNCHANGED <<status, answers>>
  BY <1>6 DEF Heartbeat, RecordHeartbeat, GraceExpires, End, EndSession,
              EndResumes, Crash, ledgerVars
<1> QED  BY <1>2, <1>4, <1>5, <1>6 DEF Next

(* Once a session has ended, nothing in its queue is given to a poll. *)
THEOREM NothingDrainedAfterTheEnd == Spec => EndedSessionDrainsNothing
<1> DEFINE Kept == ended => \A d \in Dispatch :
                     status[d] = "open" => status'[d] # "delivered"
<1>1. IInv /\ [Next]_vars => [Kept]_vars
  <2> SUFFICES ASSUME IInv, Next, ended PROVE Kept
    BY Zenon
  <2>1. CASE \E c \in Dispatch : CreateNew(c)
    BY <2>1 DEF CreateNew, EnqueueNew, IInv, LedgerInv, LedgerTypeOK
  <2>2. CASE \E r \in restoring : Restore(r)
    BY <2>2 DEF Restore, RestoreToQueue
  <2>3. CASE \E w \in Worker, d \in Dispatch : Ingest(w, d)
    BY <2>3 DEF Ingest, AcceptAnswer, IInv, LedgerInv, LedgerTypeOK
  <2>4. CASE UNCHANGED <<status, answers>>
    BY <2>4
  <2> QED  BY <2>1, <2>2, <2>3, <2>4, LedgerWriters
<1> QED  BY <1>1, Invariance, PTL DEF Spec, EndedSessionDrainsNothing

(* Only a batch on its way back makes an answered entry open again: a new  *)
(* click, a drain and a re-open do not touch it.                           *)
THEOREM AnsweredStaysAnswered == Spec => AnsweredUndoneOnlyByRestore
<1> DEFINE Undone == \A d \in Dispatch :
             status[d] = "answered" /\ status'[d] # "answered"
               => \E r \in restoring : d \in Range(r.ids)
<1>1. IInv /\ [Next]_vars => [Undone]_vars
  <2> SUFFICES ASSUME IInv, Next, NEW d \in Dispatch,
                      status[d] = "answered", status'[d] # "answered"
               PROVE  \E r \in restoring : d \in Range(r.ids)
    BY Zenon
  <2>1. ASSUME NEW c \in Dispatch, CreateNew(c) PROVE FALSE
    <3>1. status[c] = "absent" /\ status' = [status EXCEPT ![c] = "open"]
      BY <2>1, NewIsAbsent DEF CreateNew, EnqueueNew, IInv, LedgerInv
    <3> QED  BY <3>1 DEF IInv, LedgerInv, LedgerTypeOK
  <2>2. ASSUME DrainQueue PROVE FALSE
    <3>1. d \notin Range(queue)
      BY DEF IInv, LedgerInv, QueueIsOpenDispatches
    <3> QED  BY <2>2, <3>1 DEF DrainQueue
  <2>3. ASSUME NEW w \in Worker, NEW e \in Dispatch, Ingest(w, e) PROVE FALSE
    BY <2>3 DEF Ingest, AcceptAnswer, IInv, LedgerInv, LedgerTypeOK
  <2>4. CASE \E r \in restoring : Restore(r)
    BY <2>4 DEF Restore, RestoreToQueue
  <2> QED  BY <2>1, <2>2, <2>3, <2>4, LedgerWriters
<1> QED  BY <1>1, Invariance, PTL DEF Spec, AnsweredUndoneOnlyByRestore

----------------------------------------------------------------------------
(* The refinement.  Whoever is not between a drain and its result holds no *)
(* batch: without that, a second drain would forget the first.             *)
BatchIsHeld == holder.kind \notin {"first", "wake"} => batch = <<>>

LEMMA BatchInitially == Init => BatchIsHeld
BY DEF Init, BatchIsHeld

LEMMA BatchKept == BatchIsHeld /\ [Next]_vars => BatchIsHeld'
<1> SUFFICES ASSUME BatchIsHeld, [Next]_vars PROVE BatchIsHeld'
  OBVIOUS
<1> USE DEF BatchIsHeld, Free, Held
<1>1. ASSUME NEW c \in Dispatch, Create(c) PROVE BatchIsHeld'
  BY <1>1 DEF Create, CreateNew, CreateReopened, CreateDuplicate, Shortcut,
              LeaveToPoll, StartProbe, UseCachedProbe, ProbeAnswers, Resume
<1>2. ASSUME NEW p \in Poll, ServePoll(p) PROVE BatchIsHeld'
  BY <1>2 DEF ServePoll, PollArrives, FirstAttempt, FirstResult, WakeAttempt,
              WakeResult, SocketCloses, CloseCallback, OverallTimeout, CheckDisconnect
<1>3. ASSUME NEW r \in restoring, Restore(r) PROVE BatchIsHeld'
  BY <1>3 DEF Restore
<1>4. ASSUME NEW w \in Worker, NEW d \in Dispatch, Answer(w, d) PROVE BatchIsHeld'
  BY <1>4 DEF Answer, WorkFails, Submit, Refuse, Ingest, AlreadyTerminal,
              AppendCard, memVars
<1>5. CASE Heartbeat \/ GraceExpires \/ End \/ EndResumes
  BY <1>5 DEF Heartbeat, GraceExpires, End, EndResumes, memVars
<1>6. CASE Crash
  BY <1>6 DEF Crash
<1>7. CASE UNCHANGED vars
  BY <1>7 DEF vars, memVars
<1> QED  BY <1>1, <1>2, <1>3, <1>4, <1>5, <1>6, <1>7 DEF Next

(* What a delivery step sees of the ledger. *)
Offered == {d \in Dispatch : status[d] # "absent"}

(* A step that moves nothing from its place is a stutter. *)
LEMMA Unseen ==
  ASSUME UNCHANGED <<status, queue, batch, restoring>>,
         \A p \in Poll, d \in Dispatch :
            work'[p][d] # "none" <=> work[p][d] # "none"
  PROVE  UNCHANGED Delivery!vars
<1>1. InHand' = InHand /\ Handed' = Handed
  BY DEF InHand, Handed
<1> QED  BY <1>1 DEF Delivery!vars

(* A create request offers what it enqueues. *)
LEMMA CreateMaps ==
  ASSUME IInv, NEW c \in Dispatch, Create(c)
  PROVE  Delivery!Offer(c) \/ UNCHANGED Delivery!vars
<1>1. CASE CreateNew(c)
  <2>1. EnqueueNew(c) /\ status[c] = "absent" /\ UNCHANGED <<batch, restoring, work>>
    BY <1>1, NewIsAbsent DEF CreateNew, EnqueueNew, IInv, LedgerInv
  <2>2. Range(queue') = Range(queue) \cup {c}
    BY <2>1, AppendId DEF EnqueueNew, IInv, LedgerInv, LedgerTypeOK
  <2>3. Offered' = Offered \cup {c} /\ c \notin Offered
    BY <2>1 DEF EnqueueNew, Offered, IInv, LedgerInv, LedgerTypeOK
  <2>4. InHand' = InHand /\ Handed' = Handed
    BY <2>1 DEF InHand, Handed
  <2> QED  BY <2>2, <2>3, <2>4 DEF Delivery!Offer, Offered
<1>2. CASE ~CreateNew(c)
  <2>1. UNCHANGED <<status, queue>>
    <3>1. CASE CreateReopened(c)
      <4>1. PICK e \in Dispatch : status[e] = "open" /\ Reopen(e)
        BY <3>1 DEF CreateReopened, Duplicates, ShouldReopen
      <4> QED  BY <4>1, ReopenChangesNothing DEF ledgerVars, IInv
    <3> QED  BY <1>2, <3>1 DEF Create, CreateDuplicate, Shortcut, LeaveToPoll,
               StartProbe, UseCachedProbe, ProbeAnswers, ledgerVars
  <2>2. UNCHANGED <<batch, restoring>>
    BY DEF Create, CreateNew, CreateReopened, CreateDuplicate, Shortcut,
           LeaveToPoll, StartProbe, UseCachedProbe, ProbeAnswers
  <2>3. \A p \in Poll : work'[p] = work[p]
    BY CreateLeavesHarnesses
  <2> QED  BY <2>1, <2>2, <2>3, Unseen
<1> QED  BY <1>1, <1>2

(* attemptDrain takes everything, or nothing. *)
LEMMA DrainMaps ==
  ASSUME IInv, batch = <<>>, AttemptDrain, UNCHANGED <<restoring, work>>
  PROVE  Delivery!Take \/ UNCHANGED Delivery!vars
<1>1. CASE batch' = <<>> /\ UNCHANGED ledgerVars
  BY <1>1, Unseen DEF ledgerVars
<1>2. CASE batch' = queue /\ DrainQueue
  <2>1. Range(queue') = {} /\ Range(batch) = {}
    BY <1>2, DrainQueueKeeps, EmptyQueue DEF IInv
  <2>2. InHand' = InHand \cup Range(queue) /\ Handed' = Handed
    BY <1>2, <2>1 DEF InHand, Handed
  <2>3. Offered' = Offered
    BY <1>2 DEF DrainQueue, Offered
  <2> QED  BY <2>1, <2>2, <2>3 DEF Delivery!Take, Offered
<1> QED  BY <1>1, <1>2, AttemptDrainCases

(* The result hands the batch over, forgets it or still holds it. *)
LEMMA ResultMaps ==
  ASSUME IInv, NEW p \in Poll, UNCHANGED ledgerVars, batch' = <<>>,
         UNCHANGED <<restoring, work>> \/ HandOver(p) \/ BeginRestore(p)
  PROVE  \/ \E S \in SUBSET InHand : Delivery!HandOver(S) \/ Delivery!Forget(S)
         \/ UNCHANGED Delivery!vars
<1>1. /\ Range(batch) \in SUBSET InHand /\ Range(batch') = {}
      /\ Offered' = Offered /\ Range(queue') = Range(queue)
  BY EmptyQueue DEF InHand, Offered, ledgerVars
<1>2. CASE UNCHANGED <<restoring, work>>
  <2>1. Handed' = Handed /\ InHand' = InHand \ Range(batch)
    BY <1>1, <1>2 DEF InHand, Handed, IInv, PlaceInv, OnePlaceAtATime
  <2>2. Delivery!Forget(Range(batch))
    BY <1>1, <2>1 DEF Delivery!Forget, Offered
  <2> QED  BY <1>1, <2>2
<1>3. CASE HandOver(p)
  <2>1. InHand' = InHand \ Range(batch)
    BY <1>1, <1>3 DEF HandOver, InHand, IInv, PlaceInv, OnePlaceAtATime
  <2>2. Handed' = Handed \cup Range(batch)
    BY <1>3, HandOverHands DEF IInv
  <2>3. Delivery!HandOver(Range(batch))
    BY <1>1, <2>1, <2>2 DEF Delivery!HandOver, Offered
  <2> QED  BY <1>1, <2>3
<1>4. CASE BeginRestore(p)
  <2>1. InHand' = InHand /\ Handed' = Handed
    BY <1>1, <1>4, BeginRestoreHolds
  <2> QED  BY <1>1, <2>1 DEF Delivery!vars, Offered
<1> QED  BY <1>2, <1>3, <1>4

(* A poll. *)
LEMMA ServePollMaps ==
  ASSUME IInv, BatchIsHeld, NEW p \in Poll, ServePoll(p)
  PROVE  \/ Delivery!Take
         \/ \E S \in SUBSET InHand : Delivery!HandOver(S) \/ Delivery!Forget(S)
         \/ UNCHANGED Delivery!vars
<1>1. CASE FirstAttempt(p) \/ WakeAttempt(p)
  <2>1. holder = Free /\ AttemptDrain /\ UNCHANGED <<restoring, work>>
    BY <1>1 DEF FirstAttempt, WakeAttempt
  <2>2. batch = <<>>
    BY <2>1 DEF BatchIsHeld, Free
  <2> QED  BY <2>1, <2>2, DrainMaps
<1>2. CASE FirstResult(p) \/ WakeResult(p)
  <2>1. /\ UNCHANGED ledgerVars /\ batch' = <<>>
        /\ UNCHANGED <<restoring, work>> \/ HandOver(p) \/ BeginRestore(p)
    BY <1>2 DEF FirstResult, WakeResult
  <2> QED  BY <2>1, ResultMaps
<1>3. CASE PollArrives(p) \/ SocketCloses(p) \/ CloseCallback(p)
           \/ OverallTimeout(p) \/ CheckDisconnect(p)
  <2>1. UNCHANGED <<status, queue, batch, restoring, work>>
    BY <1>3 DEF PollArrives, SocketCloses, CloseCallback, OverallTimeout,
                CheckDisconnect, ledgerVars
  <2> QED  BY <2>1, Unseen
<1> QED  BY <1>1, <1>2, <1>3 DEF ServePoll

(* A restore gives its batch back. *)
LEMMA RestoreMaps ==
  ASSUME IInv, NEW r \in restoring, Restore(r)
  PROVE  Range(r.ids) \in SUBSET InHand /\ Delivery!GiveBack(Range(r.ids))
<1>1. /\ Range(queue') = Range(queue) \cup Range(r.ids)
      /\ restoring' = restoring \ {r} /\ batch' = batch /\ work' = work
  BY RestoreLedger DEF Restore
<1>2. Range(r.ids) \in SUBSET InHand /\ Handed' = Handed
  BY <1>1 DEF InHand, Handed
<1>3. InHand' = InHand \ Range(r.ids)
  <2>1. ASSUME NEW d PROVE d \in InHand' <=> d \in InHand /\ d \notin Range(r.ids)
    BY <1>1 DEF InHand, IInv, PlaceInv, OnePlaceAtATime
  <2> QED  BY <2>1
<1>4. Offered' = Offered
  BY DEF Restore, RestoreToQueue, Offered
<1> QED  BY <1>1, <1>2, <1>3, <1>4 DEF Delivery!GiveBack, Offered

(* An accepted answer withdraws what was queued again. *)
LEMMA AnswerMaps ==
  ASSUME IInv, NEW w \in Worker, NEW d \in Dispatch, Answer(w, d)
  PROVE  \/ d \in Range(queue) /\ Delivery!Withdraw(d)
         \/ UNCHANGED Delivery!vars
<1>1. UNCHANGED <<batch, restoring>>
  BY DEF Answer, WorkFails, Submit, Refuse, Ingest, AlreadyTerminal,
         AppendCard, memVars
<1>2. \A p \in Poll, e \in Dispatch :
         work'[p][e] # "none" <=> work[p][e] # "none"
  BY AnswerLeavesPlaces
<1>3. CASE Ingest(w, d)
  <2>1. Range(queue') = Range(queue) \ {d}
    BY <1>3, AcceptAnswerKeeps DEF Ingest, IInv
  <2>2. Offered' = Offered
    BY <1>3 DEF Ingest, AcceptAnswer, Offered, IInv, LedgerInv, LedgerTypeOK
  <2>3. InHand' = InHand /\ Handed' = Handed
    BY <1>1, <1>2 DEF InHand, Handed
  <2>4. Delivery!Withdraw(d)
    BY <2>1, <2>2, <2>3 DEF Delivery!Withdraw, Offered
  <2>5. CASE d \notin Range(queue)
    BY <2>1, <2>2, <2>3, <2>5 DEF Delivery!vars, Offered
  <2> QED  BY <2>4, <2>5
<1>4. CASE ~Ingest(w, d)
  <2>1. UNCHANGED <<status, queue>>
    BY <1>4 DEF Answer, WorkFails, Submit, Refuse, AlreadyTerminal, AppendCard,
                ledgerVars
  <2> QED  BY <1>1, <1>2, <2>1, Unseen
<1> QED  BY <1>3, <1>4

(* A crash forgets every batch. *)
LEMMA CrashMaps ==
  ASSUME IInv, Crash
  PROVE  Delivery!Forget(InHand)
<1>1. /\ Range(batch') = {} /\ restoring' = {} /\ status' = status /\ queue' = queue
  BY EmptyQueue DEF Crash, ledgerVars
<1>2. \A p \in Poll, d \in Dispatch :
         work'[p][d] # "none" <=> work[p][d] # "none"
  BY DEF Crash, FlowTypeOK, Worker, IInv
<1>3. InHand' = {} /\ Handed' = Handed
  BY <1>1, <1>2 DEF InHand, Handed
<1> QED  BY <1>1, <1>3 DEF Delivery!Forget

LEMMA InitMaps == Init => Delivery!Init
<1> SUFFICES ASSUME Init PROVE Delivery!Init
  OBVIOUS
<1>1. Range(queue) = {} /\ Range(batch) = {} /\ restoring = {}
  BY EmptyQueue DEF Init, LedgerInit
<1>2. InHand = {} /\ Handed = {}
  BY <1>1 DEF InHand, Handed, Init, Worker
<1>3. Offered = {}
  BY DEF Init, LedgerInit, Offered
<1> QED  BY <1>1, <1>2, <1>3 DEF Delivery!Init, Offered

LEMMA StepMaps ==
  IInv /\ BatchIsHeld /\ [Next]_vars => [Delivery!Next]_(Delivery!vars)
<1> SUFFICES ASSUME IInv, BatchIsHeld, [Next]_vars
             PROVE  Delivery!Next \/ UNCHANGED Delivery!vars
  BY Zenon
<1>1. CASE \E c \in Dispatch : Create(c)
  BY <1>1, CreateMaps DEF Delivery!Next
<1>2. CASE \E p \in Poll : ServePoll(p)
  BY <1>2, ServePollMaps DEF Delivery!Next
<1>3. CASE \E r \in restoring : Restore(r)
  BY <1>3, RestoreMaps DEF Delivery!Next
<1>4. CASE \E w \in Worker, d \in Dispatch : Answer(w, d)
  BY <1>4, AnswerMaps DEF Delivery!Next
<1>5. CASE Heartbeat \/ GraceExpires \/ End \/ EndResumes
  <2>1. UNCHANGED <<status, queue, batch, restoring, work>>
    BY <1>5 DEF Heartbeat, RecordHeartbeat, GraceExpires, End, EndSession,
                EndResumes, memVars, ledgerVars
  <2> QED  BY <2>1, Unseen
<1>6. CASE Crash
  <2>1. InHand \in SUBSET InHand
    OBVIOUS
  <2> QED  BY <1>6, <2>1, CrashMaps DEF Delivery!Next
<1>7. CASE UNCHANGED vars
  BY <1>7, Unseen DEF vars, memVars, ledgerVars
<1> QED  BY <1>1, <1>2, <1>3, <1>4, <1>5, <1>6, <1>7 DEF Next

(* The ledger, its mutex, polls, sockets, timers, children and crashes     *)
(* implement DispatchQueue: offered once, in one place at a time, and from *)
(* a harness nothing comes back.                                           *)
THEOREM DeliveryIsImplemented == Spec => ImplementsDispatchQueue
<1>1. Spec => []BatchIsHeld
  BY BatchInitially, BatchKept, PTL DEF Spec
<1>2. Init => Delivery!Init
  BY InitMaps
<1>3. IInv /\ BatchIsHeld /\ [Next]_vars => [Delivery!Next]_(Delivery!vars)
  BY StepMaps
<1> QED  BY <1>1, <1>2, <1>3, Invariance, PTL
         DEF Spec, ImplementsDispatchQueue, Delivery!Spec
============================================================================
