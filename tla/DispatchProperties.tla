------------------------- MODULE DispatchProperties -------------------------
(* What DispatchFlow is checked for. *)
EXTENDS DispatchFlow

----------------------------------------------------------------------------
(* Views of the state *)

(* Drained, and neither handed to a harness nor put back yet. *)
InHand == Range(batch) \cup UNION {Range(r.ids) : r \in restoring}

(* In the response of some poll. *)
Handed == {d \in Dispatch : \E p \in Poll : work[p][d] # "none"}

(* The children that are running `claude -p` for d. *)
LiveChildren(d) == {c \in Dispatch : work[c][d] = "working"}

(* d's entry was marked delivered but no harness has its envelope, and no  *)
(* poll will put it back.                                                  *)
Lost(d) == status[d] = "delivered" /\ d \notin InHand \cup Handed

----------------------------------------------------------------------------
(* Safety *)

(* A dispatch is in one place: in the queue, in one drained batch (held by *)
(* a poll or on its way back), or with a harness.  drainQueue empties the  *)
(* queue it returns, finalizeDrainResult either resolves or restores, and  *)
(* restoreToQueue may prepend without looking at what is queued already.   *)
OnePlaceAtATime ==
  /\ (InHand \cup Handed) \cap Range(queue) = {}
  /\ InHand \cap Handed = {}
  /\ \A r \in restoring : Range(r.ids) \cap Range(batch) = {}
  /\ \A r, s \in restoring : r # s => Range(r.ids) \cap Range(s.ids) = {}

(* A dispatch reaches at most one harness through polling, whatever polls  *)
(* overlap, close, time out or are restored, and across daemon restarts:   *)
(* drainQueue takes it off the queue and restoreToQueue returns only what  *)
(* was never handed over.                                                  *)
AtMostOnePollDelivery ==
  \A d \in Dispatch, p, q \in Poll :
    work[p][d] # "none" /\ work[q][d] # "none" => p = q

(* An answer the ledger accepted has its card, or its card is still being  *)
(* written, or that one write failed: handleAnswer and the shortcut both   *)
(* append after every accepted answer.                                     *)
AcceptedAnswerHasCard ==
  \A d \in Dispatch :
    answers[d] = cards[d] + Cardinality({w \in Worker :
                              work[w][d] \in {"card", "noCard"}})

(* The polls that drained d, found their connection dead and put d back.   *)
Returners(d) == {p \in Poll : IsClosed(p) /\ d \in restored[p]}

(* A dispatch is answered once, and once more for each poll that had       *)
(* drained it and put it back over a dead connection: a batch on its way   *)
(* back is the only thing that gets past ingestAnswer's test, and it pays  *)
(* for one answer.                                                         *)
SecondAnswerNeedsDeadPoll ==
  \A d \in Dispatch : answers[d] <= 1 + Cardinality(Returners(d))

(* Two `claude -p` run for one dispatch only if one of its requests had to *)
(* run the probe itself.  With the probe cached, the re-open guard and the *)
(* in-flight mark leave no gap between them.                               *)
OneChildOnceProbed ==
  \A d \in Dispatch : Cardinality(LiveChildren(d)) > 1 =>
    \E c \in Dispatch : target[c] = d /\ click[c] = "probed"

(* An ended session never delivers stale dispatches: nothing leaves its    *)
(* queue for a poll.                                                       *)
EndedSessionDrainsNothing ==
  [][ended => \A d \in Dispatch :
        status[d] = "open" => status'[d] # "delivered"]_vars

(* An answered entry stays answered unless a batch drained before the      *)
(* answer is restored over it.                                             *)
AnsweredUndoneOnlyByRestore ==
  [][\A d \in Dispatch : status[d] = "answered" /\ status'[d] # "answered"
        => \E r \in restoring : d \in Range(r.ids)]_vars

----------------------------------------------------------------------------
(* The delivery promise, implemented *)

Delivery == INSTANCE DispatchQueue WITH
  offered <- {d \in Dispatch : status[d] # "absent"},
  waiting <- Range(queue),
  inHand <- InHand,
  handed <- Handed

(* Ledger, mutex, polls, sockets, timers and crashes together implement    *)
(* DispatchQueue: offered once, in one place at a time.                    *)
ImplementsDispatchQueue == Delivery!Spec

----------------------------------------------------------------------------
(* Liveness *)

(* A waiting poll and a queued dispatch do not stay side by side: every    *)
(* enqueue wakes the polls that registered before it and the others see    *)
(* the queue themselves, "instead of waiting out" their cadence.           *)
EveryQueuedDispatchWakesPolls ==
  \A p \in Poll :
    (poll[p] = "waiting" /\ queue # <<>>) ~> (poll[p] # "waiting" \/ queue = <<>>)

(* Ending the session releases every poll that waits on it. *)
EndReleasesPolls ==
  \A p \in Poll : (ended /\ poll[p] = "waiting") ~> (poll[p] # "waiting")

----------------------------------------------------------------------------
(* Promised by the source, and broken by it *)

(* POLL-02: what a poll drains, it delivers or restores. *)
DrainedIsDeliveredOrRestored == \A d \in Dispatch : ~Lost(d)

(* T-06-06: two clicks in quick succession yield one card and one bill. *)
OneBillForADoubleClick == \A d \in Dispatch : Cardinality(LiveChildren(d)) <= 1

(* ingestAnswer's own postcondition: an answered dispatch is never         *)
(* poll-deliverable.                                                       *)
AnsweredIsNeverDeliverable ==
  \A d \in Dispatch : answers[d] > 0 => d \notin Range(queue)

============================================================================
