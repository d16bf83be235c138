---------------------------- MODULE ArtifactLoad ----------------------------
(***************************************************************************)
(* How a browser tab comes to show an artifact: GET /session/:key mints a  *)
(* chrome load token and takes the session over (daemon/load-token.ts,     *)
(* server.ts), the shell's begin call exchanges it for an artifact load    *)
(* (chrome/client.ts), and the frame's document is read between two checks *)
(* of that load (daemon/artifact-load.ts).  Tokens are random and never    *)
(* repeat, so a token is the number of its minting; the artifact's token   *)
(* and revision are minted together and are one number here.               *)
(***************************************************************************)
EXTENDS Naturals, FiniteSets

CONSTANTS
  Tab,            \* tabs of the browser
  MaxMints,       \* bound on openings and reloads
  MaxLoadFaults   \* bound on lost answers and failed reads

ASSUME LoadAssumption == MaxMints \in Nat /\ MaxLoadFaults \in Nat

VARIABLES
  chromeLoadToken, \* of the session record: the last one minted
  artifactLoad,    \* artifactLoadToken and artifactRevision: the last load begun
  holds,           \* the chrome load token in each tab's document
  stage,           \* how far each tab has come
  load,            \* the load in the address of each tab's frame
  opened,          \* history: the tab that took the session over last
  loadFaults

loadVars == <<chromeLoadToken, artifactLoad, holds, stage, load, opened, loadFaults>>

NoTab == "none"
Stage == {"closed", "shell", "refused", "navigate", "reading", "shown",
          "expired", "superseded", "blank"}

LoadTypeOK ==
  /\ chromeLoadToken \in 0 .. MaxMints
  /\ artifactLoad \in 0 .. MaxMints
  /\ holds \in [Tab -> 0 .. MaxMints]
  /\ stage \in [Tab -> Stage]
  /\ load \in [Tab -> 0 .. MaxMints]
  /\ opened \in Tab \cup {NoTab}
  /\ loadFaults \in 0 .. MaxLoadFaults
  /\ \A t \in Tab : stage[t] \in {"navigate", "reading", "shown"} => load[t] # 0

LoadInit ==
  /\ chromeLoadToken = 0
  /\ artifactLoad = 0
  /\ holds = [t \in Tab |-> 0]
  /\ stage = [t \in Tab |-> "closed"]
  /\ load = [t \in Tab |-> 0]
  /\ opened = NoTab
  /\ loadFaults = 0

LoadFault == loadFaults < MaxLoadFaults /\ loadFaults' = loadFaults + 1

Moves(t, to) == stage' = [stage EXCEPT ![t] = to]

----------------------------------------------------------------------------
(* handleOpenSession: every GET mints, the last one wins.  A tab that is   *)
(* reloaded, the take-over button included, opens the session again.       *)
OpenSession(t) ==
  /\ chromeLoadToken < MaxMints
  /\ stage[t] \in {"closed", "shown", "expired", "superseded", "blank"}
  /\ chromeLoadToken' = chromeLoadToken + 1
  /\ holds' = [holds EXCEPT ![t] = chromeLoadToken']
  /\ load' = [load EXCEPT ![t] = 0]
  /\ opened' = t
  /\ Moves(t, "shell")
  /\ UNCHANGED <<artifactLoad, loadFaults>>

(* beginArtifactLoad: 200 for the token minted last, 409 for any other.    *)
(* The answer may be lost, when the shell stays as it is.                  *)
BeginLoad(t) ==
  /\ stage[t] = "shell" /\ holds[t] = chromeLoadToken
  /\ artifactLoad' = artifactLoad + 1
  /\ \/ /\ load' = [load EXCEPT ![t] = artifactLoad']
        /\ Moves(t, "navigate")
        /\ UNCHANGED loadFaults
     \/ /\ LoadFault
        /\ Moves(t, "blank")
        /\ UNCHANGED load
  /\ UNCHANGED <<chromeLoadToken, holds, opened>>

(* Slip: a begin uses its token up, with the session's. *)
SupersededUnlessFirst(t) ==
  /\ stage[t] = "shell"
  /\ holds[t] # chromeLoadToken \/ artifactLoad > 0
  /\ Moves(t, "refused")
  /\ UNCHANGED <<chromeLoadToken, artifactLoad, holds, load, opened, loadFaults>>

BeginSuperseded(t) ==
  /\ stage[t] = "shell"
  /\ holds[t] # chromeLoadToken
  /\ Moves(t, "refused")
  /\ UNCHANGED <<chromeLoadToken, artifactLoad, holds, load, opened, loadFaults>>

(* showSupersededNotice: the frame goes, the button to take over comes. *)
ShowSupersededNotice(t) ==
  /\ stage[t] = "refused"
  /\ Moves(t, "superseded")
  /\ UNCHANGED <<chromeLoadToken, artifactLoad, holds, load, opened, loadFaults>>

Verified(t) == load[t] = artifactLoad

(* handleArtifactEntry, the check before the file is read. *)
CheckBeforeRead(t) ==
  /\ stage[t] = "navigate"
  /\ Moves(t, IF Verified(t) THEN "reading" ELSE "expired")
  /\ UNCHANGED <<chromeLoadToken, artifactLoad, holds, load, opened, loadFaults>>

(* Slip: checked before the read only. *)
NoCheckAfterRead(t) ==
  /\ stage[t] = "reading"
  /\ \/ Moves(t, "shown") /\ UNCHANGED loadFaults
     \/ LoadFault /\ Moves(t, "blank")
  /\ UNCHANGED <<chromeLoadToken, artifactLoad, holds, load, opened>>

(* The file is read and the load checked again; a read that fails is a 500. *)
CheckAfterRead(t) ==
  /\ stage[t] = "reading"
  /\ \/ Moves(t, IF Verified(t) THEN "shown" ELSE "expired") /\ UNCHANGED loadFaults
     \/ LoadFault /\ Moves(t, "blank")
  /\ UNCHANGED <<chromeLoadToken, artifactLoad, holds, load, opened>>

CloseTab(t) ==
  /\ stage[t] # "closed"
  /\ Moves(t, "closed")
  /\ holds' = [holds EXCEPT ![t] = 0]
  /\ load' = [load EXCEPT ![t] = 0]
  /\ opened' = IF opened = t THEN NoTab ELSE opened
  /\ UNCHANGED <<chromeLoadToken, artifactLoad, loadFaults>>

LoadStep(t) ==
  \/ BeginLoad(t) \/ BeginSuperseded(t) \/ ShowSupersededNotice(t)
  \/ CheckBeforeRead(t) \/ CheckAfterRead(t)

LoadNext == \E t \in Tab : OpenSession(t) \/ LoadStep(t) \/ CloseTab(t)

(* Requests are answered and scripts run on; nothing is assumed of who     *)
(* opens or closes what.                                                   *)
LoadFairness == \A t \in Tab : WF_loadVars(LoadStep(t))

LoadSpec == LoadInit /\ [][LoadNext]_loadVars /\ LoadFairness

----------------------------------------------------------------------------
(* No tab is given a document once a later load has begun, in this tab or  *)
(* any other, though the file was being read for it by then; so of tabs    *)
(* that race, the frames of all but one stay without                       *)
(* (readArtifactWithFreshnessGuard).                                       *)
ServedWhileCurrent ==
  [][ \A t \in Tab : stage[t] # "shown" /\ stage'[t] = "shown" =>
        load[t] = artifactLoad /\ \A u \in Tab \ {t} : load[u] < load[t] ]_loadVars

(* Whoever opened or reloaded last gets to see the artifact, however tabs  *)
(* raced before (openChromeSession's "last-writer-wins", "never a dead     *)
(* end"), unless an answer was lost.                                       *)
LastOpenedIsShown ==
  <>[](opened # NoTab => stage[opened] = "shown" \/ loadFaults > 0)

============================================================================
