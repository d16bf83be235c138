--------------------------- MODULE DispatchLedger ---------------------------
(***************************************************************************)
(* The dispatch ledger of one session: the durable record that             *)
(* daemon/dispatch-ledger.ts and router/ingest.ts keep in the daemon's     *)
(* state file.  Every operator below is one reducer of those files: a pure *)
(* function from the session record to the next one.  The session store    *)
(* runs reducers one at a time (store/session-store.ts), so each is a      *)
(* single step of whoever calls it.                                        *)
(*                                                                         *)
(* A dispatch is named by the id its request mints.  KeyOf[d] stands for   *)
(* computeDedupeKey of its envelope: two requests have the same key when   *)
(* they select the same elements with the same intent and the same note.   *)
(* The session exists: no reducer ever removes one, so the 'not-found'     *)
(* results, which change nothing, do not appear.                           *)
(***************************************************************************)
EXTENDS Naturals, Sequences, Functions

CONSTANTS
  Dispatch,   \* the ids that POST /api/:key/dispatches can mint, one per request
  Key,        \* dedupe keys
  KeyOf       \* the key of each dispatch's envelope

ASSUME KeyOfAssumption == KeyOf \in [Dispatch -> Key]

VARIABLES
  status,     \* record.dispatches[id].status, or "absent" with no entry
  queue,      \* record.queue
  answers,    \* answers accepted for id: its entry's `answer` is null when 0
  ended,      \* record.sessionEndedAt is not null
  seen        \* record.browserLastSeenAt: null, within the grace period, or past it

ledgerVars == <<status, queue, answers, ended, seen>>

(* The members of DISPATCH_STATUSES that the code assigns.  'refused',     *)
(* 'cancelled' and 'expired' are declared and never written.               *)
Status == {"absent", "open", "delivered", "answered"}

Presence == {"never", "fresh", "stale"}

LedgerTypeOK ==
  /\ status \in [Dispatch -> Status]
  /\ queue \in Seq(Dispatch)
  /\ answers \in [Dispatch -> Nat]
  /\ ended \in BOOLEAN
  /\ seen \in Presence

LedgerInit ==
  /\ status = [d \in Dispatch |-> "absent"]
  /\ queue = <<>>
  /\ answers = [d \in Dispatch |-> 0]
  /\ ended = FALSE
  /\ seen = "never"

----------------------------------------------------------------------------
(* enqueueDispatch *)

ActiveStatus == {"open", "delivered", "answered"}

(* Slip: an answered or delivered entry no longer counts as a duplicate.   *)
DuplicatesAmongOpen(d) ==
  {e \in Dispatch : status[e] = "open" /\ KeyOf[e] = KeyOf[d]}

(* The entries a new envelope collides with. *)
Duplicates(d) ==
  {e \in Dispatch : status[e] \in ActiveStatus /\ KeyOf[e] = KeyOf[d]}

(* Slips: re-opening a delivered entry, and re-opening any entry at all.    *)
ShouldReopenDelivered(e, inFlight) ==
  status[e] # "answered" /\ ~inFlight

ShouldReopenAny(e, inFlight) == ~inFlight

(* A collision is re-opened when nothing answered it and nobody works on it. *)
ShouldReopen(e, inFlight) ==
  /\ status[e] = "open"
  /\ answers[e] = 0
  /\ ~inFlight

EnqueueNew(d) ==
  /\ Duplicates(d) = {}
  /\ status' = [status EXCEPT ![d] = "open"]
  /\ queue' = Append(queue, d)
  /\ UNCHANGED <<answers, ended, seen>>

Reopen(e) ==
  /\ status' = [status EXCEPT ![e] = "open"]
  /\ queue' = IF e \in Range(queue) THEN queue ELSE Append(queue, e)
  /\ UNCHANGED <<answers, ended, seen>>

----------------------------------------------------------------------------
(* Slip: the entries are marked and the queue is kept.                     *)
DrainKeepsQueue ==
  /\ status' = [d \in Dispatch |-> IF d \in Range(queue) /\ status[d] # "absent"
                                     THEN "delivered" ELSE status[d]]
  /\ UNCHANGED <<queue, answers, ended, seen>>

(* drainQueue: the whole queue leaves at once, its entries delivered. *)
DrainQueue ==
  /\ status' = [d \in Dispatch |-> IF d \in Range(queue) /\ status[d] # "absent"
                                     THEN "delivered" ELSE status[d]]
  /\ queue' = <<>>
  /\ UNCHANGED <<answers, ended, seen>>

(* Slip: the ids return, their entries stay delivered.                     *)
RestoreIdsOnly(ids) ==
  /\ queue' = ids \o queue
  /\ UNCHANGED <<status, answers, ended, seen>>

(* restoreToQueue: ids go back to the front, their entries open again. *)
RestoreToQueue(ids) ==
  /\ status' = [d \in Dispatch |-> IF d \in Range(ids) /\ status[d] # "absent"
                                     THEN "open" ELSE status[d]]
  /\ queue' = ids \o queue
  /\ UNCHANGED <<answers, ended, seen>>

----------------------------------------------------------------------------
(* ingestAnswer *)

(* queue.filter(id => id !== d) of a queue that holds d at most once. *)
Without(q, d) ==
  IF d \in Range(q)
    THEN LET at == CHOOSE i \in DOMAIN q : q[i] = d
         IN  [i \in 1 .. Len(q) - 1 |-> IF i < at THEN q[i] ELSE q[i + 1]]
    ELSE q

(* Slip: no status is terminal.                                            *)
IsTerminalNever(d) == FALSE

(* TERMINAL_DISPATCH_STATUSES, of which only 'answered' is ever assigned. *)
IsTerminal(d) == status[d] = "answered"

AcceptAnswer(d) ==
  /\ status[d] # "absent"
  /\ ~IsTerminal(d)
  /\ status' = [status EXCEPT ![d] = "answered"]
  /\ answers' = [answers EXCEPT ![d] = @ + 1]
  /\ queue' = Without(queue, d)
  /\ UNCHANGED <<ended, seen>>

----------------------------------------------------------------------------
(* recordHeartbeat, isBrowserConnected, endSession *)

RecordHeartbeat ==
  /\ seen' = "fresh"
  /\ UNCHANGED <<status, queue, answers, ended>>

IsBrowserConnected == seen # "stale"

EndSession ==
  /\ ended' = TRUE
  /\ UNCHANGED <<status, queue, answers, seen>>

----------------------------------------------------------------------------
(* What the reducers keep, whoever calls them and in whatever order. *)

(* The queue is exactly the open dispatches, each once: an open dispatch   *)
(* can always be drained, and nothing else ever is.  enqueueDispatch,      *)
(* drainQueue, restoreToQueue and ingestAnswer each write status and queue *)
(* separately and must agree.                                              *)
QueueIsOpenDispatches ==
  /\ IsInjective(queue)
  /\ Range(queue) = {d \in Dispatch : status[d] = "open"}

(* Two clicks with one key never become two live ledger entries (T-06-06): *)
(* findDuplicate looks at open, delivered and answered entries alike.      *)
OneEntryPerKey ==
  \A d, e \in Dispatch :
    /\ status[d] \in ActiveStatus
    /\ status[e] \in ActiveStatus
    /\ KeyOf[d] = KeyOf[e]
    => d = e

============================================================================
