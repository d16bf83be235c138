----------------------------- MODULE MCProgress -----------------------------
(***************************************************************************)
(* Parts that go on by themselves and share no state, side by side: a      *)
(* behaviour is one of one part, and the others stay as they are.          *)
(***************************************************************************)
EXTENDS FindingsScan, StoreFile, GitPool, ArtifactLoad, ReviewRail

VARIABLE part

Parts == {"scan", "store", "pool", "load", "rail"}

progressVars == <<scanVars, storeVars, poolVars, loadVars, railVars, part>>

Budget(s, c, f, d) == [starts |-> s, changes |-> c, faults |-> f, dismissals |-> d]
TwoDismissals == Budget(1, 0, 0, 2)

ProgressInit ==
  /\ part \in Parts
  /\ (part # "scan" => left = CHOOSE b \in Budgets : b # TwoDismissals) /\ ScanInit
  /\ findings # NoFindings <=> left = TwoDismissals
  /\ StoreInit /\ PoolInit /\ LoadInit /\ RailInit

Aside(p, vars) == part # p => UNCHANGED vars

ProgressNext ==
  /\ \/ part = "scan" /\ ScanNext
     \/ part = "store" /\ StoreNext
     \/ part = "pool" /\ PoolNext
     \/ part = "load" /\ LoadNext
     \/ part = "rail" /\ RailNext
  /\ UNCHANGED part
  /\ Aside("scan", scanVars) /\ Aside("store", storeVars) /\ Aside("pool", poolVars)
  /\ Aside("load", loadVars) /\ Aside("rail", railVars)

(* No fair action of the other parts is enabled where they stay. *)
ProgressSpec ==
  /\ ProgressInit /\ [][ProgressNext]_progressVars
  /\ ScanFairness /\ StoreFairness /\ PoolFairness /\ LoadFairness
  /\ part = "rail" => RailFairness

ScanHistory == <<[a \in Anchor |-> "one"], [a \in Anchor |-> "two"], [a \in Anchor |-> "gone"]>>

ScanBudgets ==
  {Budget(1, 2, 1, 0), Budget(1, 1, 1, 1), Budget(1, 2, 0, 1), Budget(2, 1, 0, 0),
   TwoDismissals}

(* An earlier session left both findings of a region: touched at 2, lost   *)
(* at 3.                                                                   *)
TwoFindings ==
  {[f \in Fingerprint |-> [status |-> "open", dismissedAt |-> Unread,
                           seen |-> IF f[1] = "drift-touched" THEN 2 ELSE 3]]}

----------------------------------------------------------------------------
(* Each part's variables have their types. *)
ProgressTypeOK == ScanTypeOK /\ StoreTypeOK /\ PoolTypeOK /\ LoadTypeOK /\ RailTypeOK

(* AnswersAreShown, where the rail runs. *)
RailShowsAnswers == part = "rail" => AnswersAreShown
=============================================================================
