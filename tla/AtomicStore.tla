---------------------------- MODULE AtomicStore ----------------------------
(***************************************************************************)
(* What a store file promises its callers: `mutate` applies its change to  *)
(* the last value, once and whole, or not at all.  A call that resolves    *)
(* has been applied and one that rejects has not, and a process that dies  *)
(* takes nothing of what was applied with it.  A change is the name of the *)
(* call that makes it, so the value is the set of the calls applied.       *)
(***************************************************************************)
CONSTANT Caller

VARIABLES
  value,   \* the calls applied so far
  outcome  \* what each call has come to

AtomicInit ==
  /\ value = {}
  /\ outcome = [c \in Caller |-> "pending"]

Apply(c) ==
  /\ outcome[c] = "pending"
  /\ value' = value \cup {c}
  /\ UNCHANGED outcome

Resolve(c) ==
  /\ outcome[c] = "pending"
  /\ c \in value
  /\ outcome' = [outcome EXCEPT ![c] = "resolved"]
  /\ UNCHANGED value

Reject(c) ==
  /\ outcome[c] = "pending"
  /\ c \notin value
  /\ outcome' = [outcome EXCEPT ![c] = "rejected"]
  /\ UNCHANGED value

(* The callers die with the process, whether applied or not. *)
Die ==
  /\ \E dead \in SUBSET Caller :
       /\ \A c \in dead : outcome[c] = "pending"
       /\ outcome' = [c \in Caller |-> IF c \in dead THEN "dead" ELSE outcome[c]]
  /\ UNCHANGED value

AtomicNext ==
  \/ Die
  \/ \E c \in Caller : Apply(c) \/ Resolve(c) \/ Reject(c)

AtomicSpec == AtomicInit /\ [][AtomicNext]_<<value, outcome>>

============================================================================
