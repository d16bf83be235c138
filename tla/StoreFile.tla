----------------------------- MODULE StoreFile -----------------------------
(***************************************************************************)
(* One JSON file and the calls of `mutate` that change it: the promise     *)
(* chain of store/async-mutex.ts, the read-modify-write of                 *)
(* store/session-store.ts and the temporary file it renames over the old   *)
(* one.  The stores of annotations and of findings have the same shape.    *)
(* All calls go through one instance of the class, as the routes' calls on *)
(* the session store do; FindingsScan has several instances on one file.   *)
(***************************************************************************)
EXTENDS Naturals, FiniteSets, Sequences

CONSTANTS
  Caller,         \* calls of `mutate`
  Attempts,       \* `attempts` of writeAtomic
  MaxStoreCrashes \* bound on deaths of the process

ASSUME StoreAssumption ==
  /\ Attempts \in Nat \ {0}
  /\ MaxStoreCrashes \in Nat

VARIABLES
  file,      \* the calls whose changes the file holds
  line,      \* calls that wait for the mutex, the first one holds it
  call,      \* where each call stands
  current,   \* what each call read
  tries,     \* renames each call was denied
  storeCrashes

storeVars == <<file, line, call, current, tries, storeCrashes>>

Waiting == {"queued", "read", "written", "renamed", "unlink"}
Over == {"resolved", "rejected", "dead"}

StoreTypeOK ==
  /\ file \subseteq Caller
  /\ line \in Seq(Caller)
  /\ call \in [Caller -> {"new"} \cup Waiting \cup Over]
  /\ current \in [Caller -> SUBSET Caller]
  /\ tries \in [Caller -> 0 .. Attempts - 1]
  /\ storeCrashes \in 0 .. MaxStoreCrashes

(* A missing file reads as an empty store. *)
StoreInit ==
  /\ file = {}
  /\ line = <<>>
  /\ call = [c \in Caller |-> "new"]
  /\ current = [c \in Caller |-> {}]
  /\ tries = [c \in Caller |-> 0]
  /\ storeCrashes = 0

----------------------------------------------------------------------------
(* runExclusive: a call waits for the promise of the call before it. *)
Enter(c) ==
  /\ call[c] = "new"
  /\ call' = [call EXCEPT ![c] = "queued"]
  /\ line' = Append(line, c)
  /\ UNCHANGED <<file, current, tries, storeCrashes>>

Holds(c) == line # <<>> /\ Head(line) = c

(* Slip: released only after a return. *)
EndsOnReturn(c, as) ==
  /\ call' = [call EXCEPT ![c] = as]
  /\ line' = IF as = "resolved" THEN Tail(line) ELSE line

(* `release` runs in a finally: the next in line is let in whether the     *)
(* call returned or threw.                                                 *)
Ends(c, as) ==
  /\ call' = [call EXCEPT ![c] = as]
  /\ line' = Tail(line)

(* Slip: the callers are not queued. *)
ReadUnqueued(c) ==
  /\ call[c] = "queued"
  /\ current' = [current EXCEPT ![c] = file]
  /\ call' = [call EXCEPT ![c] = "read"]
  /\ UNCHANGED <<file, line, tries, storeCrashes>>

Read(c) ==
  /\ call[c] = "queued" /\ Holds(c)
  /\ current' = [current EXCEPT ![c] = file]
  /\ call' = [call EXCEPT ![c] = "read"]
  /\ UNCHANGED <<file, line, tries, storeCrashes>>

(* Any error but a missing file rejects the call. *)
ReadFails(c) ==
  /\ call[c] = "queued" /\ Holds(c)
  /\ Ends(c, "rejected")
  /\ UNCHANGED <<file, current, tries, storeCrashes>>

(* writeAtomic: the temporary file has a random name of its own. *)
WriteTemporary(c) ==
  /\ call[c] = "read"
  /\ call' = [call EXCEPT ![c] = "written"]
  /\ UNCHANGED <<file, line, current, tries, storeCrashes>>

(* A failed write is not caught. *)
WriteFails(c) ==
  /\ call[c] = "read"
  /\ Ends(c, "rejected")
  /\ UNCHANGED <<file, current, tries, storeCrashes>>

Rename(c) ==
  /\ call[c] = "written"
  /\ file' = current[c] \cup {c}
  /\ call' = [call EXCEPT ![c] = "renamed"]
  /\ UNCHANGED <<line, current, tries, storeCrashes>>

(* EPERM or EBUSY: wait and try again, except after the last attempt. *)
RenameDenied(c) ==
  /\ call[c] = "written"
  /\ IF tries[c] < Attempts - 1
       THEN /\ tries' = [tries EXCEPT ![c] = @ + 1]
            /\ UNCHANGED call
       ELSE /\ call' = [call EXCEPT ![c] = "unlink"]
            /\ UNCHANGED tries
  /\ UNCHANGED <<file, line, current, storeCrashes>>

RenameFails(c) ==
  /\ call[c] = "written"
  /\ call' = [call EXCEPT ![c] = "unlink"]
  /\ UNCHANGED <<file, line, current, tries, storeCrashes>>

(* The temporary file is removed and the error thrown again. *)
RemoveTemporary(c) ==
  /\ call[c] = "unlink"
  /\ Ends(c, "rejected")
  /\ UNCHANGED <<file, current, tries, storeCrashes>>

Return(c) ==
  /\ call[c] = "renamed"
  /\ Ends(c, "resolved")
  /\ UNCHANGED <<file, current, tries, storeCrashes>>

(* The process dies: its calls with it, what is on the disk stays. *)
StoreCrash ==
  /\ storeCrashes < MaxStoreCrashes
  /\ storeCrashes' = storeCrashes + 1
  /\ call' = [c \in Caller |-> IF call[c] \in Waiting THEN "dead" ELSE call[c]]
  /\ line' = <<>>
  /\ UNCHANGED <<file, current, tries>>

----------------------------------------------------------------------------
Mutate(c) ==
  \/ Read(c) \/ ReadFails(c)
  \/ WriteTemporary(c) \/ WriteFails(c)
  \/ Rename(c) \/ RenameDenied(c) \/ RenameFails(c)
  \/ RemoveTemporary(c) \/ Return(c)

StoreNext == StoreCrash \/ \E c \in Caller : Enter(c) \/ Mutate(c)

(* A call that has begun goes on: file operations answer. *)
StoreFairness == \A c \in Caller : WF_storeVars(Mutate(c))

StoreSpec == StoreInit /\ [][StoreNext]_storeVars /\ StoreFairness

----------------------------------------------------------------------------
Atomic ==
  INSTANCE AtomicStore WITH
    value <- file,
    outcome <- [c \in Caller |-> IF call[c] \in Over THEN call[c] ELSE "pending"]

(* Overlapping mutations, failed or denied renames and deaths of the       *)
(* process never lose, tear or repeat a change: the file is the atomic     *)
(* store of AtomicStore.                                                   *)
MutateIsAtomic == Atomic!AtomicSpec

(* A call that threw does not block those behind it: every call that has   *)
(* entered ends (the `finally` of runExclusive).                           *)
EveryCallEnds == <>[](\A c \in Caller : call[c] \notin Waiting)

============================================================================
