----------------------------- MODULE MCDispatch -----------------------------
(* Finite instances of DispatchFlow for TLC. *)
EXTENDS DispatchProperties, TLC

CONSTANTS d1, d2, k1, k2

(* The same click twice, or two different ones. *)
SameKey == [d \in Dispatch |-> k1]
OwnKeys == [d \in Dispatch |-> IF d = d1 THEN k1 ELSE k2]

(* Polls are interchangeable when all of them are timed. *)
PollSymmetry == Permutations(Poll)

============================================================================
