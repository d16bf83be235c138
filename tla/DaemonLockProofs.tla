-------------------------- MODULE DaemonLockProofs --------------------------
(***************************************************************************)
(* Theorems about DaemonLock, for any number of command lines and any      *)
(* bounds on crashes and late answers.                                     *)
(***************************************************************************)
EXTENDS DaemonLock, FiniteSetTheorems, TLAPS

(* Nobody's lock was taken away: whoever relies on a lock has it. *)
OwnersHoldTheLock ==
  strayed = {} => \A d \in Cli : daemon[d] \in Owning => lock = d

(* Only a daemon that got past its election made the file. *)
LockIsOfTheElected ==
  lock # None => daemon[lock] \notin {"unborn", "starting", "bound"}

(* A record is of a daemon that was started. *)
HasRead == {"check", "reclaim", "ask", "grace", "kill", "term", "replace"}

RecordsAreOfTheBorn ==
  \A c \in Cli : cli[c] \in HasRead => daemon[saw[c]] # "unborn"

(* A command line that may still spawn has not. *)
MaySpawn == HasRead \cup {"idle", "spawn"}

OneChildEach == \A c \in Cli : cli[c] \in MaySpawn => daemon[c] = "unborn"

(* A command that stops a daemon read the record of an elected one, and    *)
(* one that read none names itself, who never had a daemon.                *)
Unelected == {"unborn", "starting", "bound"}

StopsTheElected ==
  \A c \in Cli :
    /\ cli[c] = "idle" => saw[c] = c
    /\ cli[c] \in {"stopCheck", "stopAsk", "stopKill"} => daemon[saw[c]] \notin Unelected
    /\ cli[c] = "stopped" => \/ saw[c] = c /\ daemon[c] = "unborn"
                            \/ daemon[saw[c]] \notin Unelected

(* As long as nothing crashed, a lock is of a daemon that lives. *)
LockIsOfTheLiving == (crashes = 0 /\ lock # None) => Alive(lock)

Inv ==
  /\ OwnersHoldTheLock
  /\ LockIsOfTheElected
  /\ RecordsAreOfTheBorn
  /\ OneChildEach
  /\ StopsTheElected
  /\ StoppedIsGoing
  /\ LockIsOfTheLiving

IInv == TypeOK /\ Inv

LEMMA InitInv == Init => IInv
<1> SUFFICES ASSUME Init PROVE IInv
  OBVIOUS
<1>1. TypeOK
  BY LockAssumption DEF LockAssumption, Init, TypeOK, DaemonState
<1>2. Inv
  BY DEF Init, Inv, OwnersHoldTheLock, Owning, LockIsOfTheElected,
         RecordsAreOfTheBorn, HasRead, OneChildEach, StopsTheElected, Unelected,
         StoppedIsGoing, LockIsOfTheLiving
<1> QED
  BY <1>1, <1>2 DEF IInv

-----------------------------------------------------------------------------
(* Types *)

(* Each step leaves every variable in its type. *)
LEMMA TypeStep == ASSUME TypeOK, [Next]_vars PROVE TypeOK'
<1> USE LockAssumption DEF LockAssumption, TypeOK, Working, Ended, DaemonState,
      goes, becomes, keepLock, moves, turns, TooSlow
<1>1. ASSUME NEW c \in Cli, Ensure(c) PROVE TypeOK'
  BY <1>1 DEF Ensure, ReadLock, Record
<1>2. ASSUME NEW c \in Cli, Stop(c) PROVE TypeOK'
  BY <1>2 DEF Stop, ReadLock, Record
<1>3. ASSUME NEW c \in Cli, Attach(c) PROVE TypeOK'
  BY <1>3 DEF Attach, Healthy
<1>4. ASSUME NEW c \in Cli, Mismatch(c) PROVE TypeOK'
  BY <1>4 DEF Mismatch, Healthy
<1>5. ASSUME NEW c \in Cli, Misowned(c) PROVE TypeOK'
  BY <1>5 DEF Misowned, Unhealthy
<1>6. ASSUME NEW c \in Cli, Reclaim(c) PROVE TypeOK'
  BY <1>6 DEF Reclaim, Unlink
<1>7. ASSUME NEW c \in Cli, AskToStop(c) PROVE TypeOK'
  BY <1>7 DEF AskToStop, Ask
<1>8. ASSUME NEW c \in Cli, OldIsDead(c) PROVE TypeOK'
  BY <1>8 DEF OldIsDead
<1>9. ASSUME NEW c \in Cli, StillAlive(c) PROVE TypeOK'
  BY <1>9 DEF StillAlive
<1>10. ASSUME NEW c \in Cli, KillOld(c) PROVE TypeOK'
  BY <1>10 DEF KillOld, Kill
<1>11. ASSUME NEW c \in Cli, Replace(c) PROVE TypeOK'
  BY <1>11 DEF Replace, Unlink
<1>12. ASSUME NEW c \in Cli, SpawnDaemon(c) PROVE TypeOK'
  BY <1>12 DEF SpawnDaemon
<1>13. ASSUME NEW c \in Cli, WaitRead(c) PROVE TypeOK'
  BY <1>13 DEF WaitRead, Record
<1>14. ASSUME NEW c \in Cli, Started(c) PROVE TypeOK'
  BY <1>14 DEF Started
<1>15. ASSUME NEW c \in Cli, NotYet(c) PROVE TypeOK'
  BY <1>15 DEF NotYet
<1>16. ASSUME NEW c \in Cli, Unanswered(c) PROVE TypeOK'
  BY <1>16 DEF Unanswered
<1>17. ASSUME NEW c \in Cli, GiveUp(c) PROVE TypeOK'
  BY <1>17 DEF GiveUp
<1>18. ASSUME NEW c \in Cli, StopNothing(c) PROVE TypeOK'
  BY <1>18 DEF StopNothing, Unhealthy
<1>19. ASSUME NEW c \in Cli, StopAsks(c) PROVE TypeOK'
  BY <1>19 DEF StopAsks, Healthy
<1>20. ASSUME NEW c \in Cli, StopForce(c) PROVE TypeOK'
  BY <1>20 DEF StopForce, Healthy
<1>21. ASSUME NEW c \in Cli, StopAsk(c) PROVE TypeOK'
  BY <1>21 DEF StopAsk, Ask
<1>22. ASSUME NEW c \in Cli, StopKill(c) PROVE TypeOK'
  BY <1>22 DEF StopKill, Kill
<1>23. ASSUME NEW c \in Cli, Bind(c) PROVE TypeOK'
  BY <1>23 DEF Bind
<1>24. ASSUME NEW c \in Cli, CreateLock(c) PROVE TypeOK'
  BY <1>24 DEF CreateLock
<1>25. ASSUME NEW c \in Cli, LoseElection(c) PROVE TypeOK'
  BY <1>25 DEF LoseElection
<1>26. ASSUME NEW c \in Cli, WriteLock(c) PROVE TypeOK'
  BY <1>26 DEF WriteLock
<1>27. ASSUME NEW c \in Cli, Serve(c) PROVE TypeOK'
  BY <1>27 DEF Serve
<1>28. ASSUME NEW c \in Cli, IdleExpires(c) PROVE TypeOK'
  BY <1>28 DEF IdleExpires
<1>29. ASSUME NEW c \in Cli, ReleaseLock(c) PROVE TypeOK'
  BY <1>29 DEF ReleaseLock, Unlink
<1>30. ASSUME NEW c \in Cli, CloseServer(c) PROVE TypeOK'
  BY <1>30 DEF CloseServer
<1>31. ASSUME NEW c \in Cli, Exit(c) PROVE TypeOK'
  BY <1>31 DEF Exit, Unlink
<1>32. ASSUME NEW c \in Cli, HandleTerm(c) PROVE TypeOK'
  BY <1>32 DEF HandleTerm, Unlink
<1>33. ASSUME NEW c \in Cli, Crash(c) PROVE TypeOK'
  BY <1>33 DEF Crash
<1>34. ASSUME NEW c \in Cli, FailLock(c) PROVE TypeOK'
  BY <1>34 DEF FailLock
<1>35. CASE UNCHANGED vars
  BY <1>35 DEF vars
<1> HIDE DEF TypeOK
<1> QED
  BY <1>1, <1>2, <1>3, <1>4, <1>5, <1>6, <1>7, <1>8, <1>9, <1>10, <1>11,
     <1>12, <1>13, <1>14, <1>15, <1>16, <1>17, <1>18, <1>19, <1>20, <1>21,
     <1>22, <1>23, <1>24, <1>25, <1>26, <1>27, <1>28, <1>29, <1>30, <1>31,
     <1>32, <1>33, <1>34, <1>35 DEF Next, Advance, Elect, Leave

-----------------------------------------------------------------------------
(* The invariant *)

(* Each step preserves the invariant. *)
LEMMA InvStep == ASSUME TypeOK, Inv, [Next]_vars PROVE Inv'
<1> USE LockAssumption DEF LockAssumption, TypeOK, DaemonState, Inv,
      OwnersHoldTheLock, Owning, LockIsOfTheElected, RecordsAreOfTheBorn, HasRead,
      OneChildEach, MaySpawn, StopsTheElected, Unelected, StoppedIsGoing,
      LockIsOfTheLiving, Alive,
      goes, becomes, keepLock, moves, turns
<1>1. ASSUME NEW c \in Cli, Ensure(c) PROVE Inv'
  BY <1>1 DEF Ensure, ReadLock, Record
<1>2. ASSUME NEW c \in Cli, Stop(c) PROVE Inv'
  BY <1>2 DEF Stop, ReadLock, Record
<1>3. ASSUME NEW c \in Cli, Attach(c) PROVE Inv'
  BY <1>3 DEF Attach, Healthy, Listening
<1>4. ASSUME NEW c \in Cli, Mismatch(c) PROVE Inv'
  BY <1>4 DEF Mismatch, Healthy, Listening
<1>5. ASSUME NEW c \in Cli, Misowned(c) PROVE Inv'
  BY <1>5 DEF Misowned, Unhealthy, Listening
<1>6. ASSUME NEW c \in Cli, Reclaim(c) PROVE Inv'
  BY <1>6 DEF Reclaim, Unlink, reliedOn
<1>7. ASSUME NEW c \in Cli, AskToStop(c) PROVE Inv'
  BY <1>7 DEF AskToStop, Ask, Listening
<1>8. ASSUME NEW c \in Cli, OldIsDead(c) PROVE Inv'
  BY <1>8 DEF OldIsDead, SeenDead
<1>9. ASSUME NEW c \in Cli, StillAlive(c) PROVE Inv'
  BY <1>9 DEF StillAlive
<1>10. ASSUME NEW c \in Cli, KillOld(c) PROVE Inv'
  BY <1>10 DEF KillOld, Kill
<1>11. ASSUME NEW c \in Cli, Replace(c) PROVE Inv'
  BY <1>11 DEF Replace, Unlink, reliedOn
<1>12. ASSUME NEW c \in Cli, SpawnDaemon(c) PROVE Inv'
  BY <1>12 DEF SpawnDaemon
<1>13. ASSUME NEW c \in Cli, WaitRead(c) PROVE Inv'
  BY <1>13 DEF WaitRead, Record
<1>14. ASSUME NEW c \in Cli, Started(c) PROVE Inv'
  BY <1>14 DEF Started, Listening, Freed
<1>15. ASSUME NEW c \in Cli, NotYet(c) PROVE Inv'
  BY <1>15 DEF NotYet, Freed
<1>16. ASSUME NEW c \in Cli, Unanswered(c) PROVE Inv'
  BY <1>16 DEF Unanswered
<1>17. ASSUME NEW c \in Cli, GiveUp(c) PROVE Inv'
  BY <1>17 DEF GiveUp
<1>18. ASSUME NEW c \in Cli, StopNothing(c) PROVE Inv'
  BY <1>18 DEF StopNothing, Unhealthy, Listening
<1>19. ASSUME NEW c \in Cli, StopAsks(c) PROVE Inv'
  BY <1>19 DEF StopAsks, Healthy, Listening
<1>20. ASSUME NEW c \in Cli, StopForce(c) PROVE Inv'
  BY <1>20 DEF StopForce, Healthy, Listening
<1>21. ASSUME NEW c \in Cli, StopAsk(c) PROVE Inv'
  BY <1>21 DEF StopAsk, Ask, Listening
<1>22. ASSUME NEW c \in Cli, StopKill(c) PROVE Inv'
  BY <1>22 DEF StopKill, Kill
<1>23. ASSUME NEW c \in Cli, Bind(c) PROVE Inv'
  BY <1>23 DEF Bind
<1>24. ASSUME NEW c \in Cli, CreateLock(c) PROVE Inv'
  BY <1>24 DEF CreateLock
<1>25. ASSUME NEW c \in Cli, LoseElection(c) PROVE Inv'
  BY <1>25 DEF LoseElection
<1>26. ASSUME NEW c \in Cli, WriteLock(c) PROVE Inv'
  BY <1>26 DEF WriteLock
<1>27. ASSUME NEW c \in Cli, Serve(c) PROVE Inv'
  BY <1>27 DEF Serve
<1>28. ASSUME NEW c \in Cli, IdleExpires(c) PROVE Inv'
  BY <1>28 DEF IdleExpires
<1>29. ASSUME NEW c \in Cli, ReleaseLock(c) PROVE Inv'
  BY <1>29 DEF ReleaseLock, Unlink, reliedOn
<1>30. ASSUME NEW c \in Cli, CloseServer(c) PROVE Inv'
  BY <1>30 DEF CloseServer
<1>31. ASSUME NEW c \in Cli, Exit(c) PROVE Inv'
  BY <1>31 DEF Exit, Unlink, reliedOn
<1>32. ASSUME NEW c \in Cli, HandleTerm(c) PROVE Inv'
  BY <1>32 DEF HandleTerm, Unlink, reliedOn
<1>33. ASSUME NEW c \in Cli, Crash(c) PROVE Inv'
  BY <1>33 DEF Crash
<1>34. ASSUME NEW c \in Cli, FailLock(c) PROVE Inv'
  BY <1>34 DEF FailLock
<1>35. CASE UNCHANGED vars
  BY <1>35 DEF vars
<1> HIDE DEF Inv
<1> QED
  BY <1>1, <1>2, <1>3, <1>4, <1>5, <1>6, <1>7, <1>8, <1>9, <1>10, <1>11,
     <1>12, <1>13, <1>14, <1>15, <1>16, <1>17, <1>18, <1>19, <1>20, <1>21,
     <1>22, <1>23, <1>24, <1>25, <1>26, <1>27, <1>28, <1>29, <1>30, <1>31,
     <1>32, <1>33, <1>34, <1>35 DEF Next, Advance, Elect, Leave

-----------------------------------------------------------------------------
(* The theorems *)

(* The invariant holds in every reachable state. *)
LEMMA Invariant == Spec => []IInv
<1>1. IInv /\ [Next]_vars => IInv'
  BY TypeStep, InvStep DEF IInv
<1> QED
  BY InitInv, <1>1, PTL DEF Spec

(* Every variable keeps to its type, and a record is only ever in a lock   *)
(* file of the daemon that created it.                                     *)
THEOREM TypeCorrect == Spec => []TypeOK
<1>1. IInv => TypeOK
  BY DEF IInv
<1> QED
  BY Invariant, <1>1, PTL

(* However many command lines race, stop and restart: as long as nobody    *)
(* removes the lock of a daemon that relies on it, one daemon serves.      *)
THEOREM OneServer == Spec => []OneServerUnlessStrayed
<1>1. IInv => OneServerUnlessStrayed
  <2> SUFFICES ASSUME IInv, strayed = {} PROVE Cardinality(Serving) <= 1
    BY DEF OneServerUnlessStrayed
  <2>1. Serving \subseteq {lock}
    BY DEF IInv, Inv, OwnersHoldTheLock, Owning, Serving
  <2>2. IsFiniteSet({lock}) /\ Cardinality({lock}) = 1
    BY FS_Singleton
  <2>3. IsFiniteSet(Serving) /\ Cardinality(Serving) <= Cardinality({lock})
    BY <2>1, <2>2, FS_Subset
  <2> QED
    BY <2>2, <2>3
<1> QED
  BY Invariant, <1>1, PTL

(* `illuminate stop` reports stopped only a daemon that is going, whatever *)
(* else happens to it meanwhile, unless its probe went without an answer.  *)
THEOREM StopStops == Spec => []StoppedIsGoing
<1>1. IInv => StoppedIsGoing
  BY DEF IInv, Inv
<1> QED
  BY Invariant, <1>1, PTL

(* Short of a crash, a daemon that goes leaves no stale lock behind,       *)
(* whether it was idle, asked or signalled.                                *)
THEOREM NoLockIsLeft == Spec => []CleanExitLeavesNoLock
<1>1. IInv => CleanExitLeavesNoLock
  <2> SUFFICES ASSUME IInv, crashes = 0, \A d \in Cli : ~Alive(d), lock # None
               PROVE  FALSE
    BY DEF CleanExitLeavesNoLock
  <2>1. lock \in Cli
    BY DEF IInv, TypeOK
  <2>2. Alive(lock)
    BY DEF IInv, Inv, LockIsOfTheLiving
  <2> QED
    BY <2>1, <2>2
<1> QED
  BY Invariant, <1>1, PTL

=============================================================================
