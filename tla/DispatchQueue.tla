---------------------------- MODULE DispatchQueue ---------------------------
(***************************************************************************)
(* What the ledger and the polls promise together, with no mutex, socket   *)
(* or timer in sight: a dispatch is offered once, and from then on it is   *)
(* in at most one place: waiting in the queue, in the hands of one poll,   *)
(* with one harness, or nowhere any more.  Nothing is ever in two places   *)
(* and nothing comes back from a harness.                                  *)
(***************************************************************************)
CONSTANT Dispatch

VARIABLES
  offered,   \* every dispatch the ledger has taken
  waiting,   \* those a poll can still drain
  inHand,    \* drained, by a poll that has not answered its harness yet
  handed     \* in a poll response

vars == <<offered, waiting, inHand, handed>>

TypeOK ==
  /\ offered \in SUBSET Dispatch
  /\ waiting \in SUBSET offered
  /\ inHand \in SUBSET offered
  /\ handed \in SUBSET offered

Init == offered = {} /\ waiting = {} /\ inHand = {} /\ handed = {}

Offer(d) ==
  /\ d \notin offered
  /\ offered' = offered \cup {d}
  /\ waiting' = waiting \cup {d}
  /\ UNCHANGED <<inHand, handed>>

(* A poll takes everything there is. *)
Take ==
  /\ inHand' = inHand \cup waiting
  /\ waiting' = {}
  /\ UNCHANGED <<offered, handed>>

GiveBack(S) ==
  /\ inHand' = inHand \ S
  /\ waiting' = waiting \cup S
  /\ UNCHANGED <<offered, handed>>

HandOver(S) ==
  /\ inHand' = inHand \ S
  /\ handed' = handed \cup S
  /\ UNCHANGED <<offered, waiting>>

(* A poll that settled otherwise, or a dead daemon, forgets what it holds. *)
Forget(S) ==
  /\ inHand' = inHand \ S
  /\ UNCHANGED <<offered, waiting, handed>>

(* Answered while it waited. *)
Withdraw(d) ==
  /\ waiting' = waiting \ {d}
  /\ UNCHANGED <<offered, inHand, handed>>

Next ==
  \/ \E d \in Dispatch : Offer(d)
  \/ Take
  \/ \E S \in SUBSET inHand : GiveBack(S) \/ HandOver(S) \/ Forget(S)
  \/ \E d \in waiting : Withdraw(d)

Spec == Init /\ [][Next]_vars

============================================================================
