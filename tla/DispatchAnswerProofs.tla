------------------------ MODULE DispatchAnswerProofs ------------------------
(* Answers, their cards, and the children that work them out: what keeps   *)
(* two requests for one dispatch from paying for it twice, for any number  *)
(* of dispatches, polls, dead connections and crashes.                     *)
EXTENDS DispatchProofs, FiniteSetTheorems

----------------------------------------------------------------------------
(* A second answer *)

(* What a poll restores, it drained before it settled, and it settles with *)
(* that: nothing is restored twice by one poll, and only over a connection *)
(* that stays dead.                                                        *)
ReturnInv ==
  /\ \A p \in Poll : restored[p] # {} => IsClosed(p) /\ poll[p] \notin {"new"} \cup OpenPoll
  /\ \A r \in restoring : /\ IsClosed(r.by)
                          /\ poll[r.by] \notin {"new", "first"}
                          /\ Range(r.ids) \cap restored[r.by] = {}
  /\ \A p \in Poll : holder = Held("first", p) => poll[p] = "first"

(* The mutex has one holder, in one capacity. *)
LEMMA WhoFirst ==
  /\ \A p : Free # Held("first", p) /\ Held("end", NoOne) # Held("first", p)
  /\ \A c, p : Held("create", c) # Held("first", p) /\ Held("wake", c) # Held("first", p)
  /\ \A p, q : Held("first", p) = Held("first", q) => p = q
<1>1. \A k, w : Held(k, w).kind = k /\ Held(k, w).by = w
  BY DEF Held
<1>2. Free.kind = "free"
  BY DEF Free
<1> QED  BY <1>1, <1>2

LEMMA ReturnInitially == Init => ReturnInv
BY WhoFirst DEF Init, ReturnInv

(* A step in which nothing is taken back. *)
LEMMA ReturnKept ==
  ASSUME ReturnInv,
         UNCHANGED <<restoring, restored>>,
         \A p \in Poll : IsClosed(p) => IsClosed(p)',
         \A p \in Poll : poll[p] \notin {"new"} \cup OpenPoll => poll'[p] \notin {"new"} \cup OpenPoll,
         \A p \in Poll : poll[p] \notin {"new", "first"} => poll'[p] \notin {"new", "first"},
         \A p \in Poll : holder' = Held("first", p) => poll'[p] = "first",
         \A r \in restoring : r.by \in Poll
  PROVE  ReturnInv'
<1>1. \A p \in Poll : restored'[p] # {} =>
         IsClosed(p)' /\ poll'[p] \notin {"new"} \cup OpenPoll
  BY DEF ReturnInv
<1>2. \A r \in restoring' : /\ IsClosed(r.by)'
                            /\ poll'[r.by] \notin {"new", "first"}
                            /\ Range(r.ids) \cap restored'[r.by] = {}
  BY DEF ReturnInv
<1> QED  BY <1>1, <1>2 DEF ReturnInv

(* A poll that begins to put its batch back has put nothing back before.   *)
LEMMA ReturnBegins ==
  ASSUME IInv, ReturnInv, NEW p \in Poll, BeginRestore(p),
         IsClosed(p), poll[p] \in OpenPoll,
         UNCHANGED <<sock, restored>>,
         \A q \in Poll : poll'[q] = IF q = p THEN poll'[p] ELSE poll[q],
         poll'[p] \in {"restoring", "waiting"},
         holder' = Free
  PROVE  ReturnInv'
<1> USE DEF IInv, FlowTypeOK
<1>1. restored[p] = {}
  BY DEF ReturnInv
<1>2. \A q \in Poll : restored'[q] # {} =>
         IsClosed(q)' /\ poll'[q] \notin {"new"} \cup OpenPoll
  BY <1>1 DEF ReturnInv, IsClosed
<1>3. ASSUME NEW r \in restoring'
      PROVE  /\ IsClosed(r.by)' /\ poll'[r.by] \notin {"new", "first"}
             /\ Range(r.ids) \cap restored'[r.by] = {}
  <2>1. CASE r \in restoring
    <3>1. /\ IsClosed(r.by) /\ poll[r.by] \notin {"new", "first"} /\ r.by \in Poll
          /\ Range(r.ids) \cap restored[r.by] = {}
      BY <2>1 DEF ReturnInv
    <3> QED  BY <3>1 DEF IsClosed
  <2>2. CASE r = [by |-> p, ids |-> batch]
    BY <1>1, <2>2 DEF IsClosed
  <2> QED  BY <1>3, <2>1, <2>2 DEF BeginRestore
<1>4. \A q \in Poll : holder' = Held("first", q) => poll'[q] = "first"
  BY WhoFirst
<1> QED  BY <1>2, <1>3, <1>4 DEF ReturnInv

LEMMA ReturnServes ==
  ASSUME IInv, ReturnInv, NEW p \in Poll, ServePoll(p)
  PROVE  ReturnInv'
<1> USE DEF IInv, FlowTypeOK
<1>0. \A r \in restoring : r.by \in Poll
  OBVIOUS
<1>1. CASE PollArrives(p) \/ SocketCloses(p) \/ CloseCallback(p) \/ OverallTimeout(p)
           \/ CheckDisconnect(p)
  <2>1. UNCHANGED <<holder, restoring, restored>>
    BY <1>1 DEF PollArrives, SocketCloses, CloseCallback, OverallTimeout, CheckDisconnect
  <2>2. \A q \in Poll : IsClosed(q) => IsClosed(q)'
    BY <1>1 DEF PollArrives, SocketCloses, CloseCallback, OverallTimeout, CheckDisconnect,
                IsClosed
  <2>3. \A q \in Poll :
           poll'[q] = poll[q] \/ (poll[q] = "new" /\ poll'[q] = "first")
              \/ (poll[q] = "waiting" /\ poll'[q] \notin {"new"} \cup OpenPoll)
    BY <1>1 DEF PollArrives, SocketCloses, CloseCallback, OverallTimeout, CheckDisconnect,
                OpenPoll
  <2>4. \A q \in Poll : holder' = Held("first", q) => poll'[q] = "first"
    BY <2>1, <2>3 DEF ReturnInv
  <2> QED  BY <1>0, <2>1, <2>2, <2>3, <2>4, ReturnKept DEF OpenPoll
<1>2. CASE FirstAttempt(p) \/ WakeAttempt(p)
  <2>1. UNCHANGED <<poll, sock, restoring, restored>>
    BY <1>2 DEF FirstAttempt, WakeAttempt
  <2>2. \A q \in Poll : holder' = Held("first", q) => poll'[q] = "first"
    BY <1>2, <2>1, WhoFirst DEF FirstAttempt, WakeAttempt
  <2> QED  BY <1>0, <2>1, <2>2, ReturnKept DEF IsClosed
<1>3. CASE FirstResult(p) \/ WakeResult(p)
  <2>1. holder' = Free /\ UNCHANGED <<sock, restored>> /\ \A q \in Poll : holder' # Held("first", q)
    BY <1>3, WhoFirst DEF FirstResult, WakeResult
  <2>2. \/ UNCHANGED poll
        \/ poll[p] \in {"first", "waiting"}
    BY <1>3 DEF FirstResult, WakeResult, ReturnInv
  <2>3. CASE UNCHANGED restoring
    <3>1. \/ UNCHANGED poll
          \/ poll' = [poll EXCEPT ![p] = IF ended THEN "ended" ELSE "waiting"]
          \/ poll' = [poll EXCEPT ![p] = "dispatch"]
          \/ poll' = [poll EXCEPT ![p] = "restoring"]
      BY <1>3 DEF FirstResult, WakeResult, HandOver
    <3>2. \A q \in Poll : poll'[q] = poll[q] \/
             (poll[q] \in {"first", "waiting"} /\ poll'[q] \notin {"new", "first"})
      BY <2>2, <3>1
    <3> QED  BY <1>0, <2>1, <2>3, <3>2, ReturnKept DEF OpenPoll, IsClosed
  <2>4. CASE ~ UNCHANGED restoring
    <3>1. /\ BeginRestore(p) /\ IsClosed(p)
          /\ \/ poll' = [poll EXCEPT ![p] = "restoring"]
             \/ poll[p] = "waiting" /\ UNCHANGED poll
      BY <1>3, <2>4 DEF FirstResult, WakeResult, HandOver
    <3>2. poll[p] \in OpenPoll
      BY <1>3, <3>1 DEF FirstResult, WakeResult, ReturnInv, OpenPoll
    <3>3. /\ \A q \in Poll : poll'[q] = IF q = p THEN poll'[p] ELSE poll[q]
          /\ poll'[p] \in {"restoring", "waiting"}
      BY <3>1
    <3> HIDE DEF IInv, FlowTypeOK
    <3> QED  BY <2>1, <3>1, <3>2, <3>3, ReturnBegins
  <2> QED  BY <2>3, <2>4
<1> QED  BY <1>1, <1>2, <1>3 DEF ServePoll

LEMMA ReturnRestores ==
  ASSUME IInv, ReturnInv, NEW r \in restoring, Restore(r)
  PROVE  ReturnInv'
<1> USE DEF IInv, FlowTypeOK
<1>1. /\ r.by \in Poll /\ IsClosed(r.by) /\ poll[r.by] \notin {"new", "first"}
      /\ sock' = sock /\ holder' = holder /\ holder = Free
      /\ restored' = [restored EXCEPT ![r.by] = @ \cup Range(r.ids)]
      /\ restoring' = restoring \ {r}
      /\ poll' = [poll EXCEPT ![r.by] = IF @ \in OpenPoll THEN "aborted" ELSE @]
  BY DEF ReturnInv, Restore
<1>2. \A p \in Poll : restored'[p] # {} =>
         IsClosed(p)' /\ poll'[p] \notin {"new"} \cup OpenPoll
  BY <1>1 DEF ReturnInv, IsClosed, OpenPoll
<1>3. ASSUME NEW s \in restoring'
      PROVE  /\ IsClosed(s.by)' /\ poll'[s.by] \notin {"new", "first"}
             /\ Range(s.ids) \cap restored'[s.by] = {}
  <2>1. /\ s \in restoring /\ s # r /\ s.by \in Poll
        /\ IsClosed(s.by) /\ poll[s.by] \notin {"new", "first"}
        /\ Range(s.ids) \cap restored[s.by] = {}
    BY <1>1 DEF ReturnInv
  <2>2. Range(s.ids) \cap Range(r.ids) = {}
    BY <2>1 DEF PlaceInv, OnePlaceAtATime
  <2>3. restored'[s.by] \subseteq restored[s.by] \cup Range(r.ids)
    BY <1>1, <2>1
  <2> QED  BY <1>1, <2>1, <2>2, <2>3 DEF IsClosed
<1>4. \A p \in Poll : holder' = Held("first", p) => poll'[p] = "first"
  BY <1>1, WhoFirst
<1> QED  BY <1>2, <1>3, <1>4 DEF ReturnInv

LEMMA ReturnStep == IInv /\ ReturnInv /\ [Next]_vars => ReturnInv'
<1> SUFFICES ASSUME IInv, ReturnInv, [Next]_vars PROVE ReturnInv'
  OBVIOUS
<1>0. \A r \in restoring : r.by \in Poll
  BY DEF IInv, FlowTypeOK
<1>1. ASSUME NEW c \in Dispatch, Create(c) PROVE ReturnInv'
  <2>1. UNCHANGED <<poll, sock, restoring, restored>>
    BY <1>1 DEF Create, CreateNew, CreateReopened, CreateDuplicate, Shortcut,
                LeaveToPoll, StartProbe, UseCachedProbe, ProbeAnswers, Resume
  <2>2. holder' \in {holder, Free, Held("create", c)}
    BY <1>1 DEF Create, CreateNew, CreateReopened, CreateDuplicate, Shortcut,
                LeaveToPoll, StartProbe, UseCachedProbe, ProbeAnswers, Resume
  <2>3. \A p \in Poll : holder' = Held("first", p) => poll'[p] = "first"
    BY <2>1, <2>2, WhoFirst DEF ReturnInv
  <2> QED  BY <1>0, <2>1, <2>3, ReturnKept DEF IsClosed
<1>2. ASSUME NEW p \in Poll, ServePoll(p) PROVE ReturnInv'
  BY <1>2, ReturnServes
<1>3. ASSUME NEW r \in restoring, Restore(r) PROVE ReturnInv'
  BY <1>3, ReturnRestores
<1>4. CASE \/ \E w \in Worker, d \in Dispatch : Answer(w, d)
           \/ Heartbeat \/ GraceExpires \/ UNCHANGED vars
  <2>1. UNCHANGED <<holder, poll, sock, restoring, restored>>
    BY <1>4 DEF Answer, WorkFails, Submit, Refuse, Ingest, AlreadyTerminal, AppendCard,
                Heartbeat, GraceExpires, memVars, vars
  <2> QED  BY <1>0, <2>1, ReturnKept DEF ReturnInv, IsClosed
<1>5. CASE End \/ EndResumes
  <2>1. /\ UNCHANGED <<poll, sock, restoring, restored>>
        /\ holder' \in {Free, Held("end", NoOne)}
    BY <1>5 DEF End, EndResumes
  <2>2. \A p \in Poll : holder' # Held("first", p)
    BY <2>1, WhoFirst
  <2> QED  BY <1>0, <2>1, <2>2, ReturnKept DEF IsClosed
<1>6. CASE Crash
  <2>1. /\ UNCHANGED <<sock, restored>> /\ restoring' = {} /\ holder' = Free
        /\ \A p \in Poll : poll'[p] = IF poll[p] \in OpenPoll THEN "gone" ELSE poll[p]
    BY <1>6 DEF Crash
  <2> QED  BY <2>1, WhoFirst DEF ReturnInv, IsClosed, OpenPoll
<1> QED  BY <1>1, <1>2, <1>3, <1>4, <1>5, <1>6 DEF Next

(* Each answer but the one an answered entry has was paid for by a poll    *)
(* that put the entry back.                                                *)
Paid(d) == Cardinality(Returners(d)) + (IF status[d] = "answered" THEN 1 ELSE 0)

AnswersArePaid ==
  \A d \in Dispatch : IsFiniteSet(Returners(d)) /\ answers[d] <= Paid(d)

LEMMA PaidInitially == Init => AnswersArePaid
<1> SUFFICES ASSUME Init, NEW d \in Dispatch
             PROVE  IsFiniteSet(Returners(d)) /\ answers[d] <= Paid(d)
  BY DEF AnswersArePaid
<1>1. Returners(d) = {}
  BY DEF Init, Returners
<1>2. IsFiniteSet({}) /\ Cardinality({}) = 0
  BY FS_EmptySet
<1> QED  BY <1>1, <1>2 DEF Paid, Init, LedgerInit

(* Who has put d back is changed by a restore alone. *)
LEMMA ReturnersKept ==
  ASSUME IInv, ReturnInv, ReturnInv', restored' = restored, NEW d \in Dispatch
  PROVE  Returners(d)' = Returners(d)
<1>1. \A p \in Poll : d \in restored[p] => IsClosed(p) /\ IsClosed(p)'
  BY DEF ReturnInv
<1> QED  BY <1>1 DEF Returners

LEMMA PaidByRestore ==
  ASSUME IInv, ReturnInv, ReturnInv', AnswersArePaid, NEW r \in restoring, Restore(r)
  PROVE  AnswersArePaid'
<1> USE DEF IInv, FlowTypeOK
<1> SUFFICES ASSUME NEW d \in Dispatch
             PROVE  IsFiniteSet(Returners(d)') /\ answers'[d] <= Paid(d)'
  BY DEF AnswersArePaid
<1>1. /\ r.by \in Poll /\ sock' = sock /\ answers' = answers /\ IsClosed(r.by)
      /\ restored' = [restored EXCEPT ![r.by] = @ \cup Range(r.ids)]
      /\ Range(r.ids) \cap restored[r.by] = {}
      /\ status' = [e \in Dispatch |-> IF e \in Range(r.ids) /\ status[e] # "absent"
                                       THEN "open" ELSE status[e]]
  BY DEF Restore, RestoreToQueue, ReturnInv
<1>2. /\ IsFiniteSet(Returners(d)) /\ Cardinality(Returners(d)) \in Nat
      /\ answers[d] <= Paid(d) /\ answers[d] \in Nat
  BY FS_CardinalityType DEF AnswersArePaid, LedgerInv, LedgerTypeOK
<1>3. CASE d \in Range(r.ids)
  <2>1. Returners(d)' = Returners(d) \cup {r.by} /\ r.by \notin Returners(d)
    BY <1>1, <1>3 DEF Returners, IsClosed
  <2>2. /\ IsFiniteSet(Returners(d)')
        /\ Cardinality(Returners(d)') = Cardinality(Returners(d)) + 1
    <3> HIDE DEF IInv, FlowTypeOK
    <3> DEFINE R == Returners(d)
    <3>1. IsFiniteSet(R) /\ r.by \notin R /\ Returners(d)' = R \cup {r.by}
      BY <1>2, <2>1
    <3> HIDE DEF R
    <3>2. /\ IsFiniteSet(R \cup {r.by})
          /\ Cardinality(R \cup {r.by}) = Cardinality(R) + 1
      BY <3>1, FS_AddElement
    <3>3. /\ IsFiniteSet(Returners(d)')
          /\ Cardinality(Returners(d)') = Cardinality(R) + 1
      BY <3>1, <3>2, Zenon
    <3> QED  BY <3>3 DEF R
  <2>3. Paid(d) <= Cardinality(Returners(d)) + 1 /\ Paid(d)' >= Cardinality(Returners(d)) + 1
    BY <1>2, <2>2 DEF Paid
  <2>4. Paid(d) \in Nat /\ Paid(d)' \in Nat
    BY <1>2, <2>2 DEF Paid
  <2> QED  BY <1>1, <1>2, <2>2, <2>3, <2>4
<1>4. CASE d \notin Range(r.ids)
  <2>1. Returners(d)' = Returners(d)
    BY <1>1, <1>4 DEF Returners, IsClosed
  <2>2. status'[d] = status[d]
    BY <1>1, <1>4
  <2> QED  BY <1>1, <1>2, <2>1, <2>2 DEF Paid
<1> QED  BY <1>3, <1>4

LEMMA PaidStep ==
  ASSUME IInv, ReturnInv, ReturnInv', AnswersArePaid, [Next]_vars
  PROVE  AnswersArePaid'
<1>1. CASE \E r \in restoring : Restore(r)
  BY <1>1, PaidByRestore
<1>2. CASE ~ \E r \in restoring : Restore(r)
  <2>1. restored' = restored
    BY <1>2 DEF Next, Create, CreateNew, CreateReopened, CreateDuplicate, Shortcut,
                LeaveToPoll, StartProbe, UseCachedProbe, ProbeAnswers, Resume,
                ServePoll, PollArrives, FirstAttempt, FirstResult, WakeAttempt, WakeResult,
                SocketCloses, CloseCallback, OverallTimeout, CheckDisconnect,
                Answer, WorkFails, Submit, Refuse, Ingest, AlreadyTerminal, AppendCard,
                Heartbeat, GraceExpires, End, EndResumes, Crash, vars
  <2> SUFFICES ASSUME NEW d \in Dispatch
               PROVE  IsFiniteSet(Returners(d)') /\ answers'[d] <= Paid(d)'
    BY DEF AnswersArePaid
  <2>2. Returners(d)' = Returners(d)
    BY <2>1, ReturnersKept
  <2>3. /\ IsFiniteSet(Returners(d)) /\ Cardinality(Returners(d)) \in Nat
        /\ answers[d] \in Nat
        /\ answers[d] <= Cardinality(Returners(d))
                           + (IF status[d] = "answered" THEN 1 ELSE 0)
    BY FS_CardinalityType DEF AnswersArePaid, IInv, LedgerInv, LedgerTypeOK, Paid
  <2> DEFINE n == Cardinality(Returners(d))
  <2> SUFFICES answers'[d] <= n + (IF status'[d] = "answered" THEN 1 ELSE 0)
    BY <2>2, <2>3 DEF Paid
  <2> USE DEF IInv, LedgerInv, LedgerTypeOK
  <2>4. n \in Nat /\ answers[d] \in Nat
        /\ answers[d] <= n + (IF status[d] = "answered" THEN 1 ELSE 0)
    BY <2>3
  <2> HIDE DEF n
  <2>5. ASSUME NEW c \in Dispatch, CreateNew(c)
        PROVE  answers'[d] <= n + (IF status'[d] = "answered" THEN 1 ELSE 0)
    <3>1. status[c] = "absent" /\ status' = [status EXCEPT ![c] = "open"] /\ answers' = answers
      BY <2>5, NewIsAbsent DEF CreateNew, EnqueueNew
    <3> QED  BY <2>4, <3>1
  <2>6. CASE DrainQueue
    <3>1. status[d] = "answered" => d \notin Range(queue)
      BY DEF QueueIsOpenDispatches
    <3>2. answers' = answers /\ (status[d] = "answered" => status'[d] = "answered")
      BY <2>6, <3>1 DEF DrainQueue
    <3> QED  BY <2>4, <3>2
  <2>7. ASSUME NEW w \in Worker, NEW e \in Dispatch, Ingest(w, e)
        PROVE  answers'[d] <= n + (IF status'[d] = "answered" THEN 1 ELSE 0)
    BY <2>4, <2>7 DEF Ingest, AcceptAnswer, IsTerminal
  <2>8. CASE UNCHANGED <<status, answers>>
    BY <2>4, <2>8
  <2>9. CASE Next
    BY <1>2, <2>5, <2>6, <2>7, <2>8, <2>9, LedgerWriters
  <2>10. CASE UNCHANGED vars
    BY <2>8, <2>10 DEF vars, ledgerVars
  <2> QED  BY <2>9, <2>10
<1> QED  BY <1>1, <1>2

(* However many polls, clicks and crashes: a dispatch has one answer, and  *)
(* one more for each poll that had drained that dispatch and put it back   *)
(* over a dead connection.                                                 *)
THEOREM SecondAnswerIsARestore == Spec => []SecondAnswerNeedsDeadPoll
<1>1. IInv /\ AnswersArePaid => SecondAnswerNeedsDeadPoll
  <2> SUFFICES ASSUME IInv, AnswersArePaid, NEW d \in Dispatch
               PROVE  answers[d] <= 1 + Cardinality(Returners(d))
    BY DEF SecondAnswerNeedsDeadPoll
  <2>1. answers[d] \in Nat /\ Cardinality(Returners(d)) \in Nat /\ answers[d] <= Paid(d)
    BY FS_CardinalityType DEF IInv, LedgerInv, LedgerTypeOK, AnswersArePaid
  <2> QED  BY <2>1 DEF Paid
<1>2. IInv /\ IInv' /\ ReturnInv /\ AnswersArePaid /\ [Next]_vars
        => ReturnInv' /\ AnswersArePaid'
  BY ReturnStep, PaidStep
<1> QED  BY <1>1, <1>2, ReturnInitially, PaidInitially, Invariance, PTL DEF Spec

----------------------------------------------------------------------------
(* What a create request has done so far *)

(* A request works on nothing before it resumed; while it is on its way    *)
(* its dispatch has an entry; it probes, and its child runs, only for what *)
(* a shortcut does not answer.                                             *)
NotBegun == \A c \in Dispatch :
  click[c] \in {"idle", "committed", "probing"} => \A d \in Dispatch : work[c][d] = "none"

ResumesOnce == \A c \in Dispatch :
  holder = Held("create", c) => click[c] = "committed"

TargetIsKnown == \A c \in Dispatch :
  click[c] \in {"committed", "probing"} => status[target[c]] # "absent"

ProbesGroundable == \A c \in Dispatch :
  click[c] = "probing" => target[c] \notin Ungroundable

WorkIsKnown == \A c, d \in Dispatch :
  work[c][d] # "none" => status[d] # "absent"

NoChildForShortcuts == \A c \in Dispatch, d \in Ungroundable :
  work[c][d] # "working"

ClickInv ==
  /\ NotBegun
  /\ ResumesOnce
  /\ TargetIsKnown
  /\ ProbesGroundable
  /\ WorkIsKnown
  /\ NoChildForShortcuts

(* The mutex has one holder, in one capacity. *)
LEMMA WhoHolds ==
  /\ \A x, y : Held("create", x) = Held("create", y) => x = y
  /\ \A x : Held("create", x) # Free
<1>1. \A x : Held("create", x).kind = "create" /\ Held("create", x).by = x
  BY DEF Held
<1>2. Free.kind = "free"
  BY DEF Free
<1> QED  BY <1>1, <1>2

LEMMA ClickInitially == Init => ClickInv
<1> SUFFICES ASSUME Init PROVE ClickInv
  OBVIOUS
<1>1. \A c, d \in Dispatch : work[c][d] = "none" /\ click[c] = "idle"
  BY DEF Init, Worker
<1>2. \A c \in Dispatch : holder # Held("create", c)
  BY WhoHolds DEF Init
<1> QED  BY <1>1, <1>2, FlowAssumption
         DEF ClickInv, NotBegun, ResumesOnce, TargetIsKnown, ProbesGroundable,
             WorkIsKnown, NoChildForShortcuts

(* No entry disappears, whatever happens. *)
LEMMA NextEntriesStay ==
  ASSUME IInv, Next
  PROVE  EntriesStay
<1> USE DEF IInv
<1>1. CASE \E c \in Dispatch : CreateNew(c)
  BY <1>1, CreateLedger DEF Create
<1>2. CASE DrainQueue
  BY <1>2 DEF DrainQueue, EntriesStay
<1>3. CASE \E r \in restoring : Restore(r)
  BY <1>3, RestoreLedger
<1>4. CASE \E w \in Worker, d \in Dispatch : Ingest(w, d)
  BY <1>4, AnswerLedger DEF Answer
<1>5. CASE UNCHANGED <<status, answers>>
  BY <1>5 DEF EntriesStay
<1> QED  BY <1>1, <1>2, <1>3, <1>4, <1>5, LedgerWriters

(* What a resuming request may begin. *)
LEMMA SpawnEffect ==
  ASSUME FlowTypeOK, NEW c \in Dispatch, NEW found, Spawn(c, found)
  PROVE  \/ UNCHANGED <<inFlight, work>>
         \/ /\ inFlight' = inFlight \cup {target[c]}
            /\ work' = [work EXCEPT ![c][target[c]] = "working"]
BY Zenon DEF Spawn

(* What one request does is its own affair. *)
LEMMA OneClick ==
  ASSUME ClickInv, EntriesStay, NEW c \in Dispatch,
         \A e \in Dispatch \ {c} :
            click'[e] = click[e] /\ target'[e] = target[e] /\ work'[e] = work[e],
         target \in [Dispatch -> Dispatch],
         \A e \in Dispatch \ {c} : holder' = Held("create", e) => holder = Held("create", e),
         holder' = Held("create", c) => click'[c] = "committed",
         click'[c] \in {"idle", "committed", "probing"} =>
            \A d \in Dispatch : work'[c][d] = "none",
         click'[c] \in {"committed", "probing"} => status'[target'[c]] # "absent",
         click'[c] = "probing" => target'[c] \notin Ungroundable,
         \A d \in Dispatch : work'[c][d] # "none" => status'[d] # "absent",
         \A d \in Ungroundable : work'[c][d] # "working"
  PROVE  ClickInv'
<1> USE DEF ClickInv, EntriesStay
<1>1. NotBegun'
  BY DEF NotBegun
<1>2. ResumesOnce'
  BY DEF ResumesOnce
<1>3. TargetIsKnown' /\ ProbesGroundable'
  BY DEF TargetIsKnown, ProbesGroundable
<1>4. WorkIsKnown'
  BY DEF WorkIsKnown
<1>5. NoChildForShortcuts'
  BY DEF NoChildForShortcuts
<1> QED  BY <1>1, <1>2, <1>3, <1>4, <1>5

(* A request touches its own state only. *)
LEMMA CreateIsLocal ==
  ASSUME IInv, NEW c \in Dispatch, Create(c)
  PROVE  /\ \A e \in Dispatch \ {c} :
              click'[e] = click[e] /\ target'[e] = target[e] /\ work'[e] = work[e]
         /\ holder' \in {holder, Free, Held("create", c)}
<1> USE DEF IInv, FlowTypeOK
<1>0. c \in Worker /\ Dispatch \subseteq Worker
  BY DEF Worker
<1>1. \/ click' = click
      \/ \E x : click' = [click EXCEPT ![c] = x]
  BY DEF Create, CreateNew, CreateReopened, CreateDuplicate, Shortcut, LeaveToPoll,
         StartProbe, UseCachedProbe, ProbeAnswers
<1>2. target' = target \/ \E x : target' = [target EXCEPT ![c] = x]
  BY DEF Create, CreateNew, CreateReopened, CreateDuplicate, Shortcut, LeaveToPoll,
         StartProbe, UseCachedProbe, ProbeAnswers
<1>3. work' = work \/ \E x : work' = [work EXCEPT ![c][target[c]] = x]
  <2>1. CASE UseCachedProbe(c) \/ ProbeAnswers(c)
    BY <2>1, SpawnEffect DEF UseCachedProbe, ProbeAnswers
  <2>2. CASE ~(UseCachedProbe(c) \/ ProbeAnswers(c))
    BY <2>2 DEF Create, CreateNew, CreateReopened, CreateDuplicate, Shortcut,
                LeaveToPoll, StartProbe
  <2> QED  BY <2>1, <2>2
<1>4. holder' \in {holder, Free, Held("create", c)}
  BY DEF Create, CreateNew, CreateReopened, CreateDuplicate, Shortcut, LeaveToPoll,
         StartProbe, UseCachedProbe, ProbeAnswers, Resume
<1> QED  BY <1>0, <1>1, <1>2, <1>3, <1>4

(* A request that has not resumed, and does not in this step, begins nothing. *)
LEMMA CreateClicks ==
  ASSUME IInv, ClickInv, NEW c \in Dispatch, Create(c)
  PROVE  ClickInv'
<1> USE DEF IInv, FlowTypeOK, ClickState, WorkState
<1>1. EntriesStay
  BY CreateLedger
<1>2. \A e \in Dispatch \ {c} : holder' = Held("create", e) => holder = Held("create", e)
  BY CreateIsLocal, WhoHolds
<1>3. c \in Worker /\ \A d \in Dispatch : work[c][d] # "none" => status'[d] # "absent"
  BY <1>1 DEF Worker, ClickInv, WorkIsKnown, EntriesStay
<1>4. \A d \in Ungroundable : d \in Dispatch /\ work[c][d] # "working"
  BY FlowAssumption DEF ClickInv, NoChildForShortcuts
<1>5. CASE CreateNew(c) \/ CreateReopened(c)
  <2>1. /\ click[c] = "idle" /\ click'[c] = "committed" /\ work' = work
        /\ holder' = Held("create", c)
    BY <1>5 DEF CreateNew, CreateReopened
  <2>2. status'[target'[c]] # "absent"
    <3>1. CASE CreateNew(c)
      BY <3>1 DEF CreateNew, EnqueueNew, LedgerInv, LedgerTypeOK
    <3>2. CASE CreateReopened(c)
      BY <1>1, <3>2 DEF CreateReopened, Duplicates, ShouldReopen, EntriesStay
    <3> QED  BY <1>5, <3>1, <3>2
  <2>3. \A d \in Dispatch : work'[c][d] = "none"
    BY <2>1 DEF ClickInv, NotBegun
  <2> QED  BY <1>1, <1>2, <1>4, <2>1, <2>2, <2>3, CreateIsLocal, OneClick
<1>6. CASE CreateDuplicate(c)
  <2>1. click'[c] = "done" /\ work' = work /\ holder' = Free
    BY <1>6 DEF CreateDuplicate
  <2>2. \A e \in Dispatch : holder' # Held("create", e)
    BY <2>1 DEF Free, Held
  <2>3. /\ click'[c] \notin {"idle", "committed", "probing"}
        /\ \A d \in Dispatch : work'[c][d] # "none" => status'[d] # "absent"
        /\ \A d \in Ungroundable : work'[c][d] # "working"
    BY <1>3, <1>4, <2>1
  <2>4. \A e \in Dispatch \ {c} :
           click'[e] = click[e] /\ target'[e] = target[e] /\ work'[e] = work[e]
    BY CreateIsLocal
  <2>5. target \in [Dispatch -> Dispatch]
    OBVIOUS
  <2> HIDE DEF IInv, FlowTypeOK, ClickState, WorkState
  <2> QED  BY <1>1, <1>2, <2>2, <2>3, <2>4, <2>5, OneClick
<1>7. CASE Shortcut(c) \/ LeaveToPoll(c) \/ StartProbe(c) \/ UseCachedProbe(c)
           \/ ProbeAnswers(c)
  <2>1. /\ click[c] \in {"committed", "probing"} /\ UNCHANGED <<status, target>>
        /\ status'[target'[c]] # "absent" /\ target[c] \in Dispatch
    BY <1>7 DEF Shortcut, LeaveToPoll, StartProbe, UseCachedProbe, ProbeAnswers,
                Resume, ledgerVars, ClickInv, ResumesOnce, TargetIsKnown
  <2>2. holder' = Held("create", c) => click[c] = "probing" /\ holder = Held("create", c)
    BY <1>7 DEF Shortcut, LeaveToPoll, StartProbe, UseCachedProbe, ProbeAnswers,
                Resume, Free, Held
  <2>3. holder' # Held("create", c)
    BY <2>2 DEF ClickInv, ResumesOnce
  <2>4. CASE StartProbe(c)
    <3>1. click'[c] = "probing" /\ target'[c] \notin Ungroundable /\ work' = work
      BY <2>1, <2>4 DEF StartProbe
    <3>2. \A d \in Dispatch : work'[c][d] = "none"
      BY <2>1, <3>1 DEF ClickInv, NotBegun
    <3> QED  BY <1>1, <1>2, <1>4, <2>1, <2>3, <3>1, <3>2, CreateIsLocal, OneClick
  <2>5. CASE Shortcut(c) \/ LeaveToPoll(c) \/ UseCachedProbe(c) \/ ProbeAnswers(c)
    <3>1. click'[c] \in {"done", "probed"}
      BY <2>5 DEF Shortcut, LeaveToPoll, UseCachedProbe, ProbeAnswers
    <3>2. /\ \A d \in Dispatch \ {target[c]} : work'[c][d] = work[c][d]
          /\ work'[c][target[c]] = "working" =>
               work[c][target[c]] = "working" \/ target[c] \notin Ungroundable
      <4>1. CASE Shortcut(c)
        BY <1>3, <2>1, <4>1 DEF Shortcut
      <4>2. CASE LeaveToPoll(c)
        BY <4>2 DEF LeaveToPoll
      <4>3. CASE UseCachedProbe(c) \/ ProbeAnswers(c)
        <5>1. target[c] \notin Ungroundable
          BY <4>3 DEF UseCachedProbe, ProbeAnswers, ClickInv, ProbesGroundable
        <5>2. work' = work \/ work' = [work EXCEPT ![c][target[c]] = "working"]
          BY <4>3, SpawnEffect DEF UseCachedProbe, ProbeAnswers
        <5> QED  BY <1>3, <2>1, <5>1, <5>2
      <4> QED  BY <2>5, <4>1, <4>2, <4>3
    <3>3. \A d \in Dispatch : work'[c][d] # "none" => status'[d] # "absent"
      BY <1>3, <2>1, <3>2
    <3>4. \A d \in Ungroundable : work'[c][d] # "working"
      BY <1>4, <3>2
    <3> QED  BY <1>1, <1>2, <2>1, <2>3, <3>1, <3>3, <3>4, CreateIsLocal, OneClick
  <2> QED  BY <1>7, <2>4, <2>5
<1> QED  BY <1>5, <1>6, <1>7 DEF Create

(* Everything else leaves requests where they are, or kills them. *)
LEMMA OtherClicks ==
  ASSUME IInv, ClickInv, EntriesStay,
         UNCHANGED <<click, target>>,
         \A c \in Dispatch : holder' = Held("create", c) => holder = Held("create", c),
         \A c, d \in Dispatch : work'[c][d] # "none" => work[c][d] # "none",
         \A c, d \in Dispatch : work'[c][d] = "working" => work[c][d] = "working"
  PROVE  ClickInv'
<1> USE DEF ClickInv, EntriesStay
<1>1. NotBegun'
  BY DEF NotBegun
<1>2. ResumesOnce'
  BY DEF ResumesOnce
<1>3. TargetIsKnown' /\ ProbesGroundable'
  BY DEF TargetIsKnown, ProbesGroundable, IInv, FlowTypeOK
<1>4. WorkIsKnown'
  BY DEF WorkIsKnown
<1>5. NoChildForShortcuts'
  BY FlowAssumption DEF NoChildForShortcuts
<1> QED  BY <1>1, <1>2, <1>3, <1>4, <1>5

(* A poll works for its own harness and takes the mutex for itself. *)
LEMMA ServePollLeavesClicks ==
  ASSUME IInv, NEW p \in Poll, ServePoll(p)
  PROVE  /\ UNCHANGED <<click, target, inFlight>>
         /\ \A c \in Dispatch : work'[c] = work[c]
         /\ \A c \in Dispatch : holder' = Held("create", c) => holder = Held("create", c)
<1> USE DEF IInv, FlowTypeOK, Free, Held
<1>1. UNCHANGED <<click, target, inFlight>>
  BY DEF ServePoll, PollArrives, FirstAttempt, FirstResult, WakeAttempt,
         WakeResult, SocketCloses, CloseCallback, OverallTimeout, CheckDisconnect
<1>2. \A c \in Dispatch : work'[c] = work[c]
  <2>1. work' = work \/ \E f : work' = [work EXCEPT ![p] = f]
    BY DEF ServePoll, PollArrives, FirstAttempt, FirstResult, WakeAttempt,
           WakeResult, SocketCloses, CloseCallback, OverallTimeout,
           CheckDisconnect, HandOver, BeginRestore
  <2> QED  BY <2>1, FlowAssumption DEF Worker
<1>3. \A c \in Dispatch : holder' = Held("create", c) => holder = Held("create", c)
  BY DEF ServePoll, PollArrives, FirstAttempt, FirstResult, WakeAttempt,
         WakeResult, SocketCloses, CloseCallback, OverallTimeout, CheckDisconnect
<1> QED  BY <1>1, <1>2, <1>3

(* An answer goes on with work that was begun. *)
LEMMA AnswerLeavesClicks ==
  ASSUME IInv, NEW w \in Worker, NEW d \in Dispatch, Answer(w, d)
  PROVE  /\ UNCHANGED <<click, target, holder>>
         /\ \A c, e \in Dispatch : work'[c][e] # "none" => work[c][e] # "none"
         /\ \A c, e \in Dispatch : work'[c][e] = "working" => work[c][e] = "working"
<1>1. UNCHANGED <<click, target, holder>>
  BY DEF Answer, WorkFails, Submit, Refuse, Ingest, AlreadyTerminal,
         AppendCard, memVars
<1>2. /\ work[w][d] # "none"
      /\ \E x \in WorkState : /\ work' = [work EXCEPT ![w][d] = x]
                              /\ x = "working" => w \in Poll
  BY DEF Answer, WorkFails, Submit, Refuse, Ingest, AlreadyTerminal,
         AppendCard, WorkState
<1> QED  BY <1>1, <1>2, FlowAssumption DEF IInv, FlowTypeOK, Worker

LEMMA ClickStep == IInv /\ ClickInv /\ [Next]_vars => ClickInv'
<1> SUFFICES ASSUME IInv, ClickInv, [Next]_vars PROVE ClickInv'
  OBVIOUS
<1>0. EntriesStay
  BY NextEntriesStay DEF vars, ledgerVars, EntriesStay
<1>1. CASE \E c \in Dispatch : Create(c)
  BY <1>1, CreateClicks
<1>2. CASE \E p \in Poll : ServePoll(p)
  BY <1>0, <1>2, ServePollLeavesClicks, OtherClicks
<1>3. CASE \E w \in Worker, d \in Dispatch : Answer(w, d)
  BY <1>0, <1>3, AnswerLeavesClicks, OtherClicks
<1>4. CASE \/ \E r \in restoring : Restore(r)
           \/ Heartbeat \/ GraceExpires \/ End \/ EndResumes \/ UNCHANGED vars
  <2>1. /\ UNCHANGED <<click, target, work>>
        /\ \A c \in Dispatch : holder' = Held("create", c) => holder = Held("create", c)
    BY <1>4 DEF Restore, Heartbeat, GraceExpires, End, EndResumes, memVars, vars,
                Held, Free
  <2> QED  BY <1>0, <2>1, OtherClicks
<1>5. CASE Crash
  <2> USE DEF IInv, FlowTypeOK, ClickInv
  <2>1. /\ \A c \in Dispatch : click'[c] \notin {"committed", "probing"}
        /\ \A c \in Dispatch : click'[c] = "idle" => click[c] = "idle"
        /\ holder' = Free /\ status' = status
    BY <1>5 DEF Crash, ledgerVars, ClickState
  <2>2. \A c, d \in Dispatch : /\ work'[c][d] # "none" => work[c][d] # "none"
                               /\ work'[c][d] # "working"
    BY <1>5, FlowAssumption DEF Crash, Worker
  <2>3. NotBegun' /\ TargetIsKnown' /\ ProbesGroundable'
    BY <2>1, <2>2, ZenonT(30) DEF NotBegun, TargetIsKnown, ProbesGroundable
  <2>5. \A c \in Dispatch : Free # Held("create", c)
    BY DEF Free, Held
  <2>6. ResumesOnce'
    BY <2>1, <2>5 DEF ResumesOnce
  <2>4. WorkIsKnown' /\ NoChildForShortcuts'
    BY <2>1, <2>2, FlowAssumption DEF WorkIsKnown, NoChildForShortcuts
  <2> QED  BY <2>3, <2>4, <2>6
<1> QED  BY <1>1, <1>2, <1>3, <1>4, <1>5 DEF Next

LEMMA ClickInvariance == Spec => []ClickInv
BY ClickInitially, ClickStep, Invariance, PTL DEF Spec

----------------------------------------------------------------------------
(* Cards *)

(* Those who had an answer to d accepted and its card not appended. *)
Carding(d) == {w \in Worker : work[w][d] \in {"card", "noCard"}}

(* There are finitely many, and with the cards there are they account for  *)
(* every accepted answer.                                                  *)
CardInv ==
  \A d \in Dispatch : /\ IsFiniteSet(Carding(d))
                      /\ answers[d] = cards[d] + Cardinality(Carding(d))

LEMMA CardsInitially == Init => CardInv
<1> SUFFICES ASSUME Init, NEW d \in Dispatch
             PROVE  /\ IsFiniteSet(Carding(d))
                    /\ answers[d] = cards[d] + Cardinality(Carding(d))
  BY DEF CardInv
<1>1. Carding(d) = {}
  BY DEF Init, Carding
<1>2. answers[d] = 0 /\ cards[d] = 0
  BY DEF Init, LedgerInit
<1> QED  BY <1>1, <1>2, FS_EmptySet

(* A step that accepts no answer and appends no card. *)
LEMMA CardsKept ==
  ASSUME CardInv, UNCHANGED <<answers, cards>>,
         \A w \in Worker, d \in Dispatch :
            work'[w][d] \in {"card", "noCard"} <=> work[w][d] \in {"card", "noCard"}
  PROVE  CardInv'
<1>1. \A d \in Dispatch : Carding(d)' = Carding(d)
  BY DEF Carding
<1> QED  BY <1>1 DEF CardInv

(* A step that accepts an answer to one dispatch, or appends its card. *)
LEMMA CardsOfOthersKept ==
  ASSUME CardInv, NEW d \in Dispatch,
         \A e \in Dispatch \ {d} :
            Carding(e)' = Carding(e) /\ answers'[e] = answers[e] /\ cards'[e] = cards[e],
         IsFiniteSet(Carding(d)'),
         answers'[d] = cards'[d] + Cardinality(Carding(d)')
  PROVE  CardInv'
<1> SUFFICES ASSUME NEW e \in Dispatch
             PROVE  /\ IsFiniteSet(Carding(e)')
                    /\ answers'[e] = cards'[e] + Cardinality(Carding(e)')
  BY DEF CardInv
<1>1. CASE e = d
  BY <1>1
<1>2. CASE e # d
  BY <1>2 DEF CardInv
<1> QED  BY <1>1, <1>2

(* What a request begins, it had not begun before. *)
LEMMA CreateCards ==
  ASSUME IInv, ClickInv, CardInv, NEW c \in Dispatch, Create(c)
  PROVE  CardInv'
<1>1. UNCHANGED <<answers, cards>>
  <2>1. UNCHANGED cards
    BY DEF Create, CreateNew, CreateReopened, CreateDuplicate, Shortcut, LeaveToPoll,
           StartProbe, UseCachedProbe, ProbeAnswers
  <2>2. UNCHANGED answers
    BY DEF Create, CreateNew, EnqueueNew, CreateReopened, Reopen, CreateDuplicate,
           Shortcut, LeaveToPoll, StartProbe, UseCachedProbe, ProbeAnswers, ledgerVars
  <2> QED  BY <2>1, <2>2
<1>2. CASE work' = work
  BY <1>1, <1>2, CardsKept
<1>3. CASE work' # work
  <2>1. /\ click[c] \in {"committed", "probing"}
        /\ \E x \in {"submit", "working"} : work' = [work EXCEPT ![c][target[c]] = x]
    <3>1. CASE Shortcut(c)
      BY <3>1 DEF Shortcut, Resume, ClickInv, ResumesOnce
    <3>2. CASE UseCachedProbe(c) \/ ProbeAnswers(c)
      <4>1. work' = [work EXCEPT ![c][target[c]] = "working"]
        BY <1>3, <3>2, SpawnEffect DEF UseCachedProbe, ProbeAnswers, IInv
      <4> QED  BY <3>2, <4>1 DEF UseCachedProbe, ProbeAnswers, Resume, ClickInv, ResumesOnce
    <3> QED  BY <1>3, <3>1, <3>2
             DEF Create, CreateNew, CreateReopened, CreateDuplicate, LeaveToPoll, StartProbe
  <2>2. \A d \in Dispatch : work[c][d] = "none"
    BY <2>1 DEF ClickInv, NotBegun
  <2>3. /\ \A w \in Worker \ {c}, d \in Dispatch : work'[w][d] = work[w][d]
        /\ \A d \in Dispatch : work'[c][d] \in {"none", "submit", "working"}
    BY <2>1, <2>2 DEF IInv, FlowTypeOK, Worker
  <2> QED  BY <1>1, <2>2, <2>3, CardsKept
<1> QED  BY <1>2, <1>3

(* A harness that is handed a batch had nothing of it. *)
LEMMA HandedAfresh ==
  ASSUME IInv, NEW p \in Poll, HandOver(p)
  PROVE  \A w \in Worker, d \in Dispatch :
            \/ work'[w][d] = work[w][d]
            \/ w = p /\ work[w][d] = "none" /\ work'[w][d] = "working"
<1> SUFFICES ASSUME NEW w \in Worker, NEW d \in Dispatch
             PROVE  \/ work'[w][d] = work[w][d]
                    \/ w = p /\ work[w][d] = "none" /\ work'[w][d] = "working"
  OBVIOUS
<1>1. d \in Range(batch) => work[p][d] = "none"
  BY DEF IInv, PlaceInv, OnePlaceAtATime, InHand, Handed
<1>2. /\ w # p => work'[w][d] = work[w][d]
      /\ work'[p][d] = IF d \in Range(batch) THEN "working" ELSE work[p][d]
  BY DEF HandOver, IInv, FlowTypeOK, Worker
<1> QED  BY <1>1, <1>2

LEMMA ServePollCards ==
  ASSUME IInv, CardInv, NEW p \in Poll, ServePoll(p)
  PROVE  CardInv'
<1>1. UNCHANGED cards
  BY DEF ServePoll, PollArrives, FirstAttempt, FirstResult, WakeAttempt,
         WakeResult, SocketCloses, CloseCallback, OverallTimeout, CheckDisconnect
<1>2. UNCHANGED answers
  <2>1. AttemptDrain => UNCHANGED answers
    BY AttemptDrainCases DEF DrainQueue, ledgerVars
  <2> QED  BY <2>1 DEF ServePoll, PollArrives, FirstAttempt, FirstResult, WakeAttempt,
         WakeResult, SocketCloses, CloseCallback, OverallTimeout, CheckDisconnect,
         ledgerVars
<1>3. work' = work \/ HandOver(p)
  BY DEF ServePoll, PollArrives, FirstAttempt, FirstResult, WakeAttempt, WakeResult,
         SocketCloses, CloseCallback, OverallTimeout, CheckDisconnect, BeginRestore
<1>4. \A w \in Worker, d \in Dispatch :
         work'[w][d] \in {"card", "noCard"} <=> work[w][d] \in {"card", "noCard"}
  BY <1>3, HandedAfresh
<1> QED  BY <1>1, <1>2, <1>4, CardsKept

(* An answer that is accepted adds its author, a card that is appended     *)
(* takes one away.                                                         *)
LEMMA AnswerCards ==
  ASSUME IInv, CardInv, NEW w \in Worker, NEW d \in Dispatch, Answer(w, d)
  PROVE  CardInv'
<1> USE DEF IInv, LedgerInv, LedgerTypeOK, FlowTypeOK
<1>1. CASE Ingest(w, d)
  <2>1. /\ work[w][d] = "submit" /\ work' = [work EXCEPT ![w][d] = "card"]
        /\ answers' = [answers EXCEPT ![d] = @ + 1] /\ cards' = cards
    BY <1>1 DEF Ingest, AcceptAnswer
  <2>2. Carding(d)' = Carding(d) \cup {w} /\ w \notin Carding(d)
    BY <2>1 DEF Carding
  <2>3. \A e \in Dispatch \ {d} : /\ Carding(e)' = Carding(e)
                                /\ answers'[e] = answers[e] /\ cards'[e] = cards[e]
    BY <2>1 DEF Carding
  <2>4. IsFiniteSet(Carding(d)) /\ answers[d] = cards[d] + Cardinality(Carding(d))
    BY DEF CardInv
  <2>5. /\ IsFiniteSet(Carding(d) \cup {w})
        /\ Cardinality(Carding(d) \cup {w}) = Cardinality(Carding(d)) + 1
    BY <2>2, <2>4, FS_AddElement
  <2>6. answers'[d] = cards'[d] + Cardinality(Carding(d)')
    <3>1. answers'[d] = answers[d] + 1 /\ cards'[d] = cards[d]
      BY <2>1
    <3>2. Cardinality(Carding(d)) \in Nat /\ cards[d] \in Nat
      BY <2>4, FS_CardinalityType
    <3> QED  BY <2>2, <2>4, <2>5, <3>1, <3>2
  <2>7. IsFiniteSet(Carding(d)')
    BY <2>2, <2>5
  <2> QED  BY <2>3, <2>6, <2>7, CardsOfOthersKept
<1>2. CASE AppendCard(w, d) /\ work' = [work EXCEPT ![w][d] = "done"]
                            /\ cards' = [cards EXCEPT ![d] = @ + 1]
  <2>1. work[w][d] = "card" /\ answers' = answers
    BY <1>2 DEF AppendCard, ledgerVars
  <2>2. Carding(d)' = Carding(d) \ {w} /\ w \in Carding(d)
    BY <1>2, <2>1 DEF Carding
  <2>3. \A e \in Dispatch \ {d} : /\ Carding(e)' = Carding(e)
                                /\ answers'[e] = answers[e] /\ cards'[e] = cards[e]
    BY <1>2, <2>1 DEF Carding
  <2>4. IsFiniteSet(Carding(d)) /\ answers[d] = cards[d] + Cardinality(Carding(d))
    BY DEF CardInv
  <2>5. /\ IsFiniteSet(Carding(d) \ {w})
        /\ Cardinality(Carding(d) \ {w}) = Cardinality(Carding(d)) - 1
    BY <2>2, <2>4, FS_RemoveElement
  <2>6. answers'[d] = cards'[d] + Cardinality(Carding(d)')
    <3>1. answers'[d] = answers[d] /\ cards'[d] = cards[d] + 1
      BY <1>2, <2>1
    <3>2. Cardinality(Carding(d)) \in Nat /\ cards[d] \in Nat
      BY <2>4, FS_CardinalityType
    <3> QED  BY <2>2, <2>4, <2>5, <3>1, <3>2
  <2>7. IsFiniteSet(Carding(d)')
    BY <2>2, <2>5
  <2> QED  BY <2>3, <2>6, <2>7, CardsOfOthersKept
<1>3. CASE AppendCard(w, d) /\ work' = [work EXCEPT ![w][d] = "noCard"]
                            /\ cards' = cards
  <2>1. work[w][d] = "card" /\ answers' = answers
    BY <1>3 DEF AppendCard, ledgerVars
  <2> QED  BY <1>3, <2>1, CardsKept
<1>4. CASE WorkFails(w, d) \/ Submit(w, d) \/ Refuse(w, d) \/ AlreadyTerminal(w, d)
  <2>1. /\ work[w][d] \in {"working", "submit"}
        /\ \E x \in {"over", "submit", "working"} : work' = [work EXCEPT ![w][d] = x]
        /\ UNCHANGED <<answers, cards>>
    BY <1>4 DEF WorkFails, Submit, Refuse, AlreadyTerminal, ledgerVars
  <2> QED  BY <2>1, CardsKept
<1> QED  BY <1>1, <1>2, <1>3, <1>4 DEF Answer, AppendCard

LEMMA CardStep == IInv /\ ClickInv /\ CardInv /\ [Next]_vars => CardInv'
<1> SUFFICES ASSUME IInv, ClickInv, CardInv, [Next]_vars PROVE CardInv'
  OBVIOUS
<1>1. CASE \E c \in Dispatch : Create(c)
  BY <1>1, CreateCards
<1>2. CASE \E p \in Poll : ServePoll(p)
  BY <1>2, ServePollCards
<1>3. CASE \E w \in Worker, d \in Dispatch : Answer(w, d)
  BY <1>3, AnswerCards
<1>4. CASE \/ \E r \in restoring : Restore(r)
           \/ Heartbeat \/ GraceExpires \/ End \/ EndResumes \/ UNCHANGED vars
  <2>1. UNCHANGED <<answers, cards, work>>
    BY <1>4 DEF Restore, RestoreToQueue, Heartbeat, RecordHeartbeat, GraceExpires,
                End, EndSession, EndResumes, vars, ledgerVars
  <2> QED  BY <2>1, CardsKept
<1>5. CASE Crash
  <2>1. UNCHANGED <<answers, cards>>
    BY <1>5 DEF Crash, ledgerVars
  <2>2. \A w \in Worker, d \in Dispatch :
           work'[w][d] \in {"card", "noCard"} <=> work[w][d] \in {"card", "noCard"}
    BY <1>5 DEF Crash, IInv, FlowTypeOK, WorkState
  <2> QED  BY <2>1, <2>2, CardsKept
<1> QED  BY <1>1, <1>2, <1>3, <1>4, <1>5 DEF Next

(* Every accepted answer has its card, or its card is being appended, or   *)
(* that one append failed: also across a crash, and with second answers.   *)
THEOREM AnswersAccountedFor == Spec => []AcceptedAnswerHasCard
<1>1. CardInv => AcceptedAnswerHasCard
  BY DEF CardInv, Carding, AcceptedAnswerHasCard
<1> QED  BY <1>1, CardsInitially, CardStep, ClickInvariance, Invariance, PTL DEF Spec

----------------------------------------------------------------------------
(* Children *)

(* A request for d ran the probe itself. *)
Probed(d) == \E c \in Dispatch : target[c] = d /\ click[c] = "probed"

(* The requests whose child is at work on d, or whose answer is. *)
Active(d) == {c \in Dispatch : work[c][d] \in {"working", "submit", "card"}}

(* There is one at most, it is marked in flight, and no request that is    *)
(* about to start another one for d holds the mutex.                       *)
OneChild(d) ==
  /\ \A b, c \in Active(d) : b = c
  /\ Active(d) # {} => d \in inFlight
  /\ \A c \in Dispatch : holder = Held("create", c) /\ target[c] = d => Active(d) = {}

ChildInv == \A d \in Dispatch \ Ungroundable : ~Probed(d) => OneChild(d)

LEMMA ChildInitially == Init => ChildInv
<1> SUFFICES ASSUME Init, NEW d \in Dispatch PROVE OneChild(d)
  BY DEF ChildInv
<1>1. Active(d) = {}
  BY DEF Init, Active, Worker
<1> QED  BY <1>1 DEF OneChild

(* Who ran the probe for d did so for ever. *)
LEMMA ProbedStays ==
  ASSUME IInv, ClickInv, [Next]_vars, NEW d \in Dispatch, Probed(d)
  PROVE  Probed(d)'
<1> USE DEF IInv, FlowTypeOK
<1>1. PICK e \in Dispatch : target[e] = d /\ click[e] = "probed"
  BY DEF Probed
<1> SUFFICES target'[e] = d /\ click'[e] = "probed"
  BY DEF Probed
<1>2. ASSUME NEW c \in Dispatch, Create(c)
      PROVE  target'[e] = d /\ click'[e] = "probed"
  <2>1. CASE e = c
    <3>1. CASE ProbeAnswers(c)
      BY <1>1, <2>1, <3>1 DEF ProbeAnswers
    <3>2. CASE CreateNew(c) \/ CreateReopened(c) \/ CreateDuplicate(c)
      BY <1>1, <2>1, <3>2 DEF CreateNew, CreateReopened, CreateDuplicate
    <3>3. CASE Shortcut(c) \/ LeaveToPoll(c) \/ StartProbe(c) \/ UseCachedProbe(c)
      BY <1>1, <2>1, <3>3
      DEF Shortcut, LeaveToPoll, StartProbe, UseCachedProbe, Resume, ClickInv, ResumesOnce
    <3> QED  BY <1>2, <3>1, <3>2, <3>3 DEF Create
  <2>2. CASE e # c
    BY <1>1, <1>2, <2>2, CreateIsLocal
  <2> QED  BY <2>1, <2>2
<1>3. ASSUME NEW p \in Poll, ServePoll(p) PROVE UNCHANGED <<click, target>>
  BY <1>3, ServePollLeavesClicks
<1>4. ASSUME NEW w \in Worker, NEW x \in Dispatch, Answer(w, x)
      PROVE  UNCHANGED <<click, target>>
  BY <1>4, AnswerLeavesClicks
<1>5. CASE \/ \E r \in restoring : Restore(r)
           \/ Heartbeat \/ GraceExpires \/ End \/ EndResumes \/ UNCHANGED vars
  BY <1>1, <1>5 DEF Restore, Heartbeat, GraceExpires, End, EndResumes, memVars, vars
<1>6. CASE Crash
  BY <1>1, <1>6 DEF Crash
<1> QED  BY <1>1, <1>2, <1>3, <1>4, <1>5, <1>6 DEF Next

(* A step that starts no child for d. *)
LEMMA ChildKept ==
  ASSUME NEW d \in Dispatch, OneChild(d),
         Active(d)' \subseteq Active(d),
         d \in inFlight => d \in inFlight' \/ Active(d)' = {},
         \A c \in Dispatch : holder' = Held("create", c) /\ target'[c] = d =>
            \/ holder = Held("create", c) /\ target[c] = d
            \/ Active(d)' = {}
  PROVE  OneChild(d)'
<1>1. \A b, c \in Active(d)' : b = c
  BY DEF OneChild
<1>2. Active(d)' # {} => d \in inFlight'
  BY DEF OneChild
<1>3. \A c \in Dispatch : holder' = Held("create", c) /\ target'[c] = d => Active(d)' = {}
  BY DEF OneChild
<1> QED  BY <1>1, <1>2, <1>3 DEF OneChild

(* A new or re-opened dispatch has no child; one that resumes starts one   *)
(* where there was none.                                                   *)
LEMMA CreateChildren ==
  ASSUME IInv, ClickInv, NEW d \in Dispatch \ Ungroundable, OneChild(d),
         NEW c \in Dispatch, Create(c), ~Probed(d)'
  PROVE  OneChild(d)'
<1>0. d \in Dispatch
  OBVIOUS
<1>9. /\ c \in Worker /\ Dispatch \subseteq Worker
      /\ work \in [Worker -> [Dispatch -> WorkState]] /\ target \in [Dispatch -> Dispatch]
  BY DEF Worker, IInv, FlowTypeOK
<1>1. CASE CreateNew(c) \/ CreateReopened(c)
  <2>1. /\ Active(d)' = Active(d) /\ inFlight' = inFlight
        /\ \A e \in Dispatch : holder' = Held("create", e) => e = c
    BY <1>1, WhoHolds DEF CreateNew, CreateReopened, Active
  <2>2. target'[c] = d => Active(d) = {}
    <3>1. CASE CreateNew(c)
      <4>1. target'[c] = c /\ status[c] = "absent"
        BY <3>1, <1>9, NewIsAbsent DEF CreateNew, EnqueueNew, IInv, LedgerInv
      <4> QED  BY <4>1 DEF ClickInv, WorkIsKnown, Active
    <3>2. CASE CreateReopened(c)
      <4>1. target'[c] \notin inFlight
        BY <3>2, <1>9 DEF CreateReopened, ShouldReopen, Duplicates
      <4> QED  BY <4>1 DEF OneChild
    <3> QED  BY <1>1, <3>1, <3>2
  <2> QED  BY <2>1, <2>2, <1>0, ChildKept
<1>2. CASE CreateDuplicate(c)
  <2>1. Active(d)' = Active(d) /\ UNCHANGED <<inFlight, holder, target>>
    BY <1>2 DEF CreateDuplicate, Active
  <2> QED  BY <2>1, <1>0, ChildKept
<1>3. CASE ProbeAnswers(c)
  <2>1. target[c] # d
    <3>1. click'[c] = "probed" /\ target'[c] = target[c]
      BY <1>3 DEF ProbeAnswers, IInv, FlowTypeOK
    <3> QED  BY <3>1 DEF Probed
  <2>2. UNCHANGED <<holder, target>>
    BY <1>3 DEF ProbeAnswers
  <2>3. Active(d)' = Active(d) /\ inFlight \subseteq inFlight'
    <3>1. \/ UNCHANGED <<inFlight, work>>
          \/ /\ inFlight' = inFlight \cup {target[c]}
             /\ work' = [work EXCEPT ![c][target[c]] = "working"]
      BY <1>3, SpawnEffect DEF ProbeAnswers, IInv
    <3>2. \A e \in Dispatch : work'[e][d] = work[e][d]
      BY <1>9, <2>1, <3>1
    <3> QED  BY <3>1, <3>2 DEF Active
  <2> QED  BY <2>2, <2>3, <1>0, ChildKept
<1>4. CASE Shortcut(c) \/ LeaveToPoll(c) \/ StartProbe(c) \/ UseCachedProbe(c)
  <2>1. /\ holder = Held("create", c) /\ target' = target
        /\ \A e \in Dispatch : holder' # Held("create", e)
    BY <1>4, WhoHolds DEF Shortcut, LeaveToPoll, StartProbe, UseCachedProbe, Resume
  <2>2. CASE UNCHANGED <<inFlight, work>>
    <3>1. Active(d)' = Active(d)
      BY <2>2 DEF Active
    <3> QED  BY <2>1, <2>2, <3>1, <1>0, ChildKept
  <2>3. CASE Shortcut(c)
    <3>1. target[c] # d /\ inFlight' = inFlight
          /\ work' = [work EXCEPT ![c][target[c]] = "submit"]
      BY <2>3 DEF Shortcut
    <3>2. Active(d)' = Active(d)
      BY <1>9, <3>1 DEF Active
    <3> QED  BY <2>1, <3>1, <3>2, <1>0, ChildKept
  <2>4. CASE UseCachedProbe(c) /\ ~ UNCHANGED <<inFlight, work>>
    <3>1. /\ inFlight' = inFlight \cup {target[c]}
          /\ work' = [work EXCEPT ![c][target[c]] = "working"]
      BY <2>4, SpawnEffect DEF UseCachedProbe, IInv
    <3>2. CASE target[c] = d
      <4>1. Active(d) = {}
        BY <2>1, <3>2 DEF OneChild
      <4>2. Active(d)' \subseteq {c} /\ d \in inFlight'
        BY <1>9, <3>1, <3>2, <4>1 DEF Active
      <4> QED  BY <2>1, <4>2 DEF OneChild
    <3>3. CASE target[c] # d
      <4>1. Active(d)' = Active(d) /\ inFlight \subseteq inFlight'
        BY <1>9, <3>1, <3>3 DEF Active
      <4> QED  BY <2>1, <4>1, <1>0, ChildKept
    <3> QED  BY <3>2, <3>3
  <2> QED  BY <1>4, <2>2, <2>3, <2>4 DEF LeaveToPoll, StartProbe
<1> QED  BY <1>1, <1>2, <1>3, <1>4 DEF Create

(* A child leaves the set of those in flight when its work is over. *)
LEMMA AnswerChildren ==
  ASSUME IInv, NEW d \in Dispatch, OneChild(d),
         NEW w \in Worker, NEW e \in Dispatch, Answer(w, e)
  PROVE  OneChild(d)'
<1> USE DEF IInv, FlowTypeOK
<1>1. UNCHANGED <<holder, target>>
  BY AnswerLeavesClicks
<1>2. PICK x \in WorkState : work' = [work EXCEPT ![w][e] = x]
  BY DEF Answer, WorkFails, Submit, Refuse, Ingest, AlreadyTerminal, AppendCard, WorkState
<1>3. inFlight' = inFlight \/ (w \in Dispatch /\ inFlight' = inFlight \ {e})
  BY DEF Answer, WorkFails, Submit, Refuse, Ingest, AlreadyTerminal, AppendCard,
         Leave, memVars
<1>4. CASE e # d \/ w \in Poll
  <2>1. Active(d)' = Active(d)
    BY <1>2, <1>4, FlowAssumption DEF Active, Worker
  <2>2. d \in inFlight => d \in inFlight'
    BY <1>3, <1>4, FlowAssumption
  <2> QED  BY <1>1, <2>1, <2>2, ChildKept
<1>5. CASE e = d /\ w \in Dispatch
  <2>1. w \in Active(d) /\ Active(d)' \subseteq Active(d)
    BY <1>2, <1>5, FlowAssumption
    DEF Active, Worker, Answer, WorkFails, Submit, Refuse, Ingest, AlreadyTerminal,
        AppendCard
  <2>2. CASE inFlight' = inFlight
    BY <1>1, <2>1, <2>2, ChildKept
  <2>3. CASE inFlight' # inFlight
    <3>1. x \in {"over", "done", "noCard"}
      <4>1. WorkFails(w, e) \/ AlreadyTerminal(w, e) \/ AppendCard(w, e)
        BY <2>3 DEF Answer, Submit, Refuse, Ingest, memVars
      <4>2. work'[w][e] \in {"over", "done", "noCard"}
        BY <4>1 DEF WorkFails, AlreadyTerminal, AppendCard
      <4> QED  BY <1>2, <4>2
    <3>2. w \notin Active(d)'
      BY <1>2, <1>5, <3>1 DEF Active
    <3>3. Active(d)' = {}
      BY <2>1, <3>2 DEF OneChild
    <3> QED  BY <1>1, <2>1, <3>3, ChildKept
  <2> QED  BY <2>2, <2>3
<1> QED  BY <1>4, <1>5 DEF Worker

LEMMA ChildStep == IInv /\ ClickInv /\ ChildInv /\ [Next]_vars => ChildInv'
<1> SUFFICES ASSUME IInv, ClickInv, ChildInv, [Next]_vars,
                    NEW d \in Dispatch \ Ungroundable, ~Probed(d)'
             PROVE  OneChild(d)'
  BY DEF ChildInv
<1>0. d \in Dispatch /\ OneChild(d)
  BY ProbedStays DEF ChildInv
<1>1. CASE \E c \in Dispatch : Create(c)
  BY <1>0, <1>1, CreateChildren
<1>2. ASSUME NEW p \in Poll, ServePoll(p) PROVE OneChild(d)'
  <2>1. /\ UNCHANGED <<target, inFlight>> /\ \A c \in Dispatch : work'[c] = work[c]
        /\ \A c \in Dispatch : holder' = Held("create", c) => holder = Held("create", c)
    BY <1>2, ServePollLeavesClicks
  <2>2. Active(d)' = Active(d)
    BY <2>1 DEF Active
  <2> QED  BY <1>0, <2>1, <2>2, ChildKept
<1>3. CASE \E w \in Worker, e \in Dispatch : Answer(w, e)
  BY <1>0, <1>3, AnswerChildren
<1>4. CASE \/ \E r \in restoring : Restore(r)
           \/ Heartbeat \/ GraceExpires \/ End \/ EndResumes \/ UNCHANGED vars
  <2>1. /\ UNCHANGED <<target, inFlight, work>>
        /\ \A c \in Dispatch : holder' = Held("create", c) => holder = Held("create", c)
    BY <1>4, WhoHolds DEF Restore, Heartbeat, GraceExpires, End, EndResumes, memVars,
                vars, Held
  <2>2. Active(d)' = Active(d)
    BY <2>1 DEF Active
  <2> QED  BY <1>0, <2>1, <2>2, ChildKept
<1>5. CASE Crash
  <2>1. Active(d)' = {}
    BY <1>5, FlowAssumption DEF Crash, Active, Worker, IInv, FlowTypeOK
  <2> QED  BY <1>0, <2>1, ChildKept
<1> QED  BY <1>1, <1>2, <1>3, <1>4, <1>5 DEF Next

(* Two children run for one dispatch only if one of its requests had to    *)
(* run the probe itself: with the probe cached, the mark and the re-open   *)
(* guard leave no gap.                                                     *)
THEOREM OneChildAtATime == Spec => []OneChildOnceProbed
<1>1. ClickInv /\ ChildInv => OneChildOnceProbed
  <2> SUFFICES ASSUME ClickInv, ChildInv, NEW d \in Dispatch, ~Probed(d)
               PROVE  ~(Cardinality(LiveChildren(d)) > 1)
    BY DEF OneChildOnceProbed, Probed
  <2>1. \A b, c \in LiveChildren(d) : b = c
    BY DEF ClickInv, NoChildForShortcuts, ChildInv, OneChild, Active, LiveChildren
  <2>2. LiveChildren(d) = {} \/ \E c : LiveChildren(d) = {c}
    BY <2>1
  <2>3. Cardinality(LiveChildren(d)) \in {0, 1}
    BY <2>2, FS_EmptySet, FS_Singleton
  <2> QED  BY <2>3
<1> QED  BY <1>1, ChildInitially, ChildStep, ClickInvariance, Invariance, PTL DEF Spec

============================================================================
