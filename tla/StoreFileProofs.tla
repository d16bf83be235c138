-------------------------- MODULE StoreFileProofs --------------------------
(***************************************************************************)
(* Theorems about StoreFile, for any callers and any bounds on renames and *)
(* crashes: the mutex admits one call, and the file it protects implements *)
(* AtomicStore.                                                            *)
(***************************************************************************)
EXTENDS StoreFile, SequenceTheorems, TLAPS

(* The line is the calls that wait or work, each once. *)
LineIsWaiting ==
  /\ \A i \in 1 .. Len(line) : call[line[i]] \in Waiting
  /\ \A c \in Caller : call[c] \in Waiting => \E i \in 1 .. Len(line) : line[i] = c
  /\ \A i, j \in 1 .. Len(line) : line[i] = line[j] => i = j

(* Past the mutex there is one call, the first of the line. *)
Inside == Waiting \ {"queued"}

OneInside == \A c \in Caller : call[c] \in Inside => Holds(c)

(* What the call inside read is still the file, until it renames. *)
ReadIsCurrent ==
  \A c \in Caller : call[c] \in {"read", "written"} => current[c] = file

(* A call is in the file from its rename on; how it ended says whether, *)
(* unless it died.                                                      *)
FileIsRenamed ==
  \A c \in Caller :
     /\ call[c] \in {"new", "queued", "read", "written", "unlink", "rejected"} => c \notin file
     /\ call[c] \in {"renamed", "resolved"} => c \in file

StoreInv ==
  /\ StoreTypeOK
  /\ LineIsWaiting
  /\ OneInside
  /\ ReadIsCurrent
  /\ FileIsRenamed

LEMMA StoreInitInv == StoreInit => StoreInv
  BY StoreAssumption
  DEF StoreInit, StoreInv, StoreTypeOK, LineIsWaiting, OneInside, ReadIsCurrent,
      FileIsRenamed, Waiting, Inside, Over

-----------------------------------------------------------------------------
(* The line, whoever moves *)

(* A call that goes on keeps its place. *)
LEMMA GoesOn ==
  ASSUME StoreInv, NEW c \in Caller, NEW s \in Inside, Holds(c), call[c] \in Waiting,
         call' = [call EXCEPT ![c] = s], UNCHANGED line
  PROVE  LineIsWaiting' /\ OneInside'
<1>1. line \in Seq(Caller)
  BY DEF StoreInv, StoreTypeOK
<1>2. \A d \in Caller : call'[d] \in Waiting <=> call[d] \in Waiting
  BY DEF StoreInv, StoreTypeOK, Inside
<1>3. \A i \in 1 .. Len(line) : line[i] \in Caller
  BY <1>1, ElementOfSeq
<1>4. LineIsWaiting'
  BY <1>2, <1>3 DEF StoreInv, LineIsWaiting
<1>5. OneInside'
  BY DEF StoreInv, StoreTypeOK, OneInside, Holds
<1> QED
  BY <1>4, <1>5

(* A call that ends gives its place to the next, and nobody is inside. *)
LEMMA Leaves ==
  ASSUME StoreInv, NEW c \in Caller, NEW as \in Over, Holds(c), Ends(c, as)
  PROVE  line' \in Seq(Caller) /\ LineIsWaiting' /\ OneInside'
<1>1. line \in Seq(Caller) /\ line # <<>> /\ Head(line) = c
  BY DEF StoreInv, StoreTypeOK, Holds
<1>2. line' \in Seq(Caller) /\ Len(line') = Len(line) - 1 /\ Len(line') \in Nat
      /\ \A i \in 1 .. Len(line') : line'[i] = line[i + 1]
  BY <1>1, HeadTailProperties, LenProperties DEF Ends
<1>3. line[1] = c /\ Len(line) \in Nat
  BY <1>1
<1>4. /\ \A d \in Caller \ {c} : call'[d] = call[d]
      /\ call'[c] \notin Waiting
  BY DEF StoreInv, StoreTypeOK, Ends, Over, Waiting
<1>5. \A i \in 1 .. Len(line') : i + 1 \in 1 .. Len(line)
  BY <1>2, <1>3
<1>6. \A i \in 1 .. Len(line') : line'[i] \in Caller \ {c}
  <2> TAKE i \in 1 .. Len(line')
  <2>1. line'[i] \in Caller
    BY <1>2, ElementOfSeq
  <2>2. i + 1 \in 1 .. Len(line) /\ 1 \in 1 .. Len(line) /\ i + 1 # 1
    BY <1>2, <1>3
  <2>3. line[i + 1] # line[1]
    BY <2>2 DEF StoreInv, LineIsWaiting
  <2> QED
    BY <2>1, <2>3, <1>2, <1>3
<1>7. LineIsWaiting'
  <2>1. \A i \in 1 .. Len(line') : call'[line'[i]] \in Waiting
    BY <1>2, <1>4, <1>5, <1>6 DEF StoreInv, LineIsWaiting
  <2>2. ASSUME NEW d \in Caller, call'[d] \in Waiting
        PROVE  \E i \in 1 .. Len(line') : line'[i] = d
    <3>1. d # c /\ call[d] \in Waiting
      BY <2>2, <1>4
    <3>2. PICK j \in 1 .. Len(line) : line[j] = d
      BY <3>1 DEF StoreInv, LineIsWaiting
    <3>3. j - 1 \in 1 .. Len(line')
      BY <3>1, <3>2, <1>2, <1>3
    <3>4. line'[j - 1] = line[(j - 1) + 1] /\ (j - 1) + 1 = j
      BY <3>3, <1>2
    <3> QED
      BY <3>2, <3>3, <3>4
  <2>3. \A i, j \in 1 .. Len(line') : line'[i] = line'[j] => i = j
    <3> TAKE i, j \in 1 .. Len(line')
    <3> HAVE line'[i] = line'[j]
    <3>1. line[i + 1] = line[j + 1]
      BY <1>2
    <3>2. i + 1 = j + 1
      BY <3>1, <1>5 DEF StoreInv, LineIsWaiting
    <3> QED
      BY <3>2
  <2> QED
    BY <2>1, <2>2, <2>3 DEF LineIsWaiting
<1>8. OneInside'
  BY <1>1, <1>4 DEF StoreInv, OneInside, Holds, Inside
<1> QED
  BY <1>2, <1>7, <1>8

(* A new call goes to the end. *)
LEMMA Enters ==
  ASSUME StoreInv, NEW c \in Caller, Enter(c)
  PROVE  line' \in Seq(Caller) /\ LineIsWaiting' /\ OneInside'
<1>1. line \in Seq(Caller) /\ Len(line) \in Nat
  BY LenProperties DEF StoreInv, StoreTypeOK
<1>2. /\ line' \in Seq(Caller) /\ line' # <<>> /\ Len(line') = Len(line) + 1
      /\ \A i \in 1 .. Len(line) : line'[i] = line[i]
      /\ line'[Len(line) + 1] = c
  BY <1>1, AppendProperties DEF Enter
<1>3. /\ \A d \in Caller \ {c} : call'[d] = call[d]
      /\ call'[c] = "queued" /\ call[c] = "new"
  BY DEF StoreInv, StoreTypeOK, Enter
<1>4. \A i \in 1 .. Len(line) : line[i] \in Caller \ {c}
  BY <1>1, <1>3, ElementOfSeq DEF StoreInv, LineIsWaiting, Waiting
<1>5. LineIsWaiting'
  <2>1. \A i \in 1 .. Len(line') : call'[line'[i]] \in Waiting
    <3> TAKE i \in 1 .. Len(line')
    <3>1. CASE i = Len(line) + 1
      BY <3>1, <1>2, <1>3 DEF Waiting
    <3>2. CASE i \in 1 .. Len(line)
      BY <3>2, <1>2, <1>3, <1>4 DEF StoreInv, LineIsWaiting
    <3> QED
      BY <3>1, <3>2, <1>1, <1>2
  <2>2. ASSUME NEW d \in Caller, call'[d] \in Waiting
        PROVE  \E i \in 1 .. Len(line') : line'[i] = d
    <3>1. CASE d = c
      <4>1. Len(line) + 1 \in 1 .. Len(line')
        BY <1>1, <1>2
      <4> QED
        BY <3>1, <4>1, <1>2
    <3>2. CASE d # c
      <4>1. PICK i \in 1 .. Len(line) : line[i] = d
        BY <2>2, <3>2, <1>3 DEF StoreInv, LineIsWaiting
      <4>2. i \in 1 .. Len(line') /\ line'[i] = d
        BY <4>1, <1>1, <1>2
      <4> QED
        BY <4>2
    <3> QED
      BY <3>1, <3>2
  <2>3. \A i, j \in 1 .. Len(line') : line'[i] = line'[j] => i = j
    <3> TAKE i, j \in 1 .. Len(line')
    <3>1. i \in 1 .. Len(line) \/ i = Len(line) + 1
      BY <1>1, <1>2
    <3>2. j \in 1 .. Len(line) \/ j = Len(line) + 1
      BY <1>1, <1>2
    <3> QED
      BY <3>1, <3>2, <1>2, <1>4 DEF StoreInv, LineIsWaiting
  <2> QED
    BY <2>1, <2>2, <2>3 DEF LineIsWaiting
<1>6. OneInside'
  <2> SUFFICES ASSUME NEW d \in Caller, call'[d] \in Inside PROVE Holds(d)'
    BY DEF OneInside
  <2>1. d # c /\ call[d] \in Inside
    BY <1>3 DEF Inside
  <2>2. line # <<>> /\ Head(line) = d
    BY <2>1 DEF StoreInv, OneInside, Holds
  <2>3. 1 \in 1 .. Len(line) /\ Head(line) = line[1] /\ Head(line') = line'[1]
    BY <2>2, <1>1, <1>2
  <2> QED
    BY <2>2, <2>3, <1>2 DEF Holds
<1> QED
  BY <1>2, <1>5, <1>6

-----------------------------------------------------------------------------
(* One step per action *)
LEMMA StoreStep == StoreInv /\ [StoreNext]_storeVars => StoreInv'
<1> SUFFICES ASSUME StoreInv, [StoreNext]_storeVars PROVE StoreInv'
  OBVIOUS
<1> USE StoreAssumption
<1>1. ASSUME NEW c \in Caller, Enter(c) PROVE StoreInv'
  <2>1. StoreTypeOK'
    BY <1>1, Enters DEF Enter, StoreInv, StoreTypeOK, Waiting, Over
  <2>2. ReadIsCurrent' /\ FileIsRenamed'
    BY <1>1, Enters
    DEF Enter, StoreInv, StoreTypeOK, ReadIsCurrent, FileIsRenamed, Waiting, Over
  <2> QED
    BY <1>1, <2>1, <2>2, Enters DEF StoreInv
<1>2. ASSUME NEW c \in Caller, Read(c) PROVE StoreInv'
  <2>1. LineIsWaiting' /\ OneInside'
    BY <1>2, GoesOn DEF Read, Waiting, Inside
  <2>2. StoreTypeOK'
    BY <1>2 DEF Read, StoreInv, StoreTypeOK, Waiting, Over
  <2>3. ReadIsCurrent' /\ FileIsRenamed'
    BY <1>2
    DEF Read, StoreInv, StoreTypeOK, ReadIsCurrent, FileIsRenamed, Waiting, Over
  <2> QED
    BY <2>1, <2>2, <2>3 DEF StoreInv
<1>3. ASSUME NEW c \in Caller, ReadFails(c) PROVE StoreInv'
  <2>1. line' \in Seq(Caller) /\ LineIsWaiting' /\ OneInside'
    BY <1>3, Leaves DEF ReadFails, Over
  <2>2. StoreTypeOK'
    BY <1>3, <2>1 DEF ReadFails, Ends, StoreInv, StoreTypeOK, Waiting, Over
  <2>3. ReadIsCurrent' /\ FileIsRenamed'
    BY <1>3, <2>1
    DEF ReadFails, Ends, StoreInv, StoreTypeOK, ReadIsCurrent, FileIsRenamed, Waiting, Over
  <2> QED
    BY <2>1, <2>2, <2>3 DEF StoreInv
<1>4. ASSUME NEW c \in Caller, WriteTemporary(c) PROVE StoreInv'
  <2>1. Holds(c)
    BY <1>4 DEF WriteTemporary, StoreInv, OneInside, Inside, Waiting
  <2>2. LineIsWaiting' /\ OneInside'
    BY <1>4, <2>1, GoesOn DEF WriteTemporary, Waiting, Inside
  <2>3. StoreTypeOK'
    BY <1>4 DEF WriteTemporary, StoreInv, StoreTypeOK, Waiting, Over
  <2>4. ReadIsCurrent' /\ FileIsRenamed'
    BY <1>4
    DEF WriteTemporary, StoreInv, StoreTypeOK, ReadIsCurrent, FileIsRenamed, Waiting, Over
  <2> QED
    BY <2>2, <2>3, <2>4 DEF StoreInv
<1>5. ASSUME NEW c \in Caller, WriteFails(c) PROVE StoreInv'
  <2>1. Holds(c)
    BY <1>5 DEF WriteFails, StoreInv, OneInside, Inside, Waiting
  <2>2. line' \in Seq(Caller) /\ LineIsWaiting' /\ OneInside'
    BY <1>5, <2>1, Leaves DEF WriteFails, Over
  <2>3. StoreTypeOK'
    BY <1>5, <2>2 DEF WriteFails, Ends, StoreInv, StoreTypeOK, Waiting, Over
  <2>4. ReadIsCurrent' /\ FileIsRenamed'
    BY <1>5, <2>2
    DEF WriteFails, Ends, StoreInv, StoreTypeOK, ReadIsCurrent, FileIsRenamed, Waiting, Over
  <2> QED
    BY <2>2, <2>3, <2>4 DEF StoreInv
<1>6. ASSUME NEW c \in Caller, Rename(c) PROVE StoreInv'
  <2>1. Holds(c)
    BY <1>6 DEF Rename, StoreInv, OneInside, Inside, Waiting
  <2>2. LineIsWaiting' /\ OneInside'
    BY <1>6, <2>1, GoesOn DEF Rename, Waiting, Inside
  <2>3. file' = file \cup {c}
    BY <1>6 DEF Rename, StoreInv, ReadIsCurrent
  <2>4. \A d \in Caller \ {c} : call[d] \notin Inside
    BY <2>1 DEF StoreInv, OneInside, Holds
  <2>5. ReadIsCurrent'
    BY <1>6, <2>4 DEF Rename, StoreInv, StoreTypeOK, ReadIsCurrent, Inside, Waiting
  <2>6. StoreTypeOK' /\ FileIsRenamed'
    BY <1>6, <2>3 DEF Rename, StoreInv, StoreTypeOK, FileIsRenamed, Waiting, Over
  <2> QED
    BY <2>2, <2>5, <2>6 DEF StoreInv
<1>7. ASSUME NEW c \in Caller, RenameDenied(c) PROVE StoreInv'
  <2>1. Holds(c)
    BY <1>7 DEF RenameDenied, StoreInv, OneInside, Inside, Waiting
  <2>2. call' = [call EXCEPT ![c] = call'[c]] /\ call'[c] \in {"written", "unlink"}
    BY <1>7 DEF RenameDenied, StoreInv, StoreTypeOK
  <2>3. LineIsWaiting' /\ OneInside'
    BY <1>7, <2>1, <2>2, GoesOn DEF RenameDenied, Waiting, Inside
  <2>4. StoreTypeOK'
    <3>1. tries' \in [Caller -> 0 .. Attempts - 1]
      BY <1>7, StoreAssumption DEF RenameDenied, StoreInv, StoreTypeOK
    <3>2. call' \in [Caller -> {"new"} \cup Waiting \cup Over]
      BY <2>2 DEF StoreInv, StoreTypeOK, Waiting, Over
    <3> QED
      BY <1>7, <3>1, <3>2 DEF RenameDenied, StoreInv, StoreTypeOK
  <2>5. ReadIsCurrent' /\ FileIsRenamed'
    BY <1>7
    DEF RenameDenied, StoreInv, StoreTypeOK, ReadIsCurrent, FileIsRenamed, Waiting, Over
  <2> QED
    BY <2>3, <2>4, <2>5 DEF StoreInv
<1>8. ASSUME NEW c \in Caller, RenameFails(c) PROVE StoreInv'
  <2>1. Holds(c)
    BY <1>8 DEF RenameFails, StoreInv, OneInside, Inside, Waiting
  <2>2. LineIsWaiting' /\ OneInside'
    BY <1>8, <2>1, GoesOn DEF RenameFails, Waiting, Inside
  <2>3. StoreTypeOK'
    BY <1>8 DEF RenameFails, StoreInv, StoreTypeOK, Waiting, Over
  <2>4. ReadIsCurrent' /\ FileIsRenamed'
    BY <1>8
    DEF RenameFails, StoreInv, StoreTypeOK, ReadIsCurrent, FileIsRenamed, Waiting, Over
  <2> QED
    BY <2>2, <2>3, <2>4 DEF StoreInv
<1>9. ASSUME NEW c \in Caller, RemoveTemporary(c) PROVE StoreInv'
  <2>1. Holds(c)
    BY <1>9 DEF RemoveTemporary, StoreInv, OneInside, Inside, Waiting
  <2>2. line' \in Seq(Caller) /\ LineIsWaiting' /\ OneInside'
    BY <1>9, <2>1, Leaves DEF RemoveTemporary, Over
  <2>3. StoreTypeOK'
    BY <1>9, <2>2 DEF RemoveTemporary, Ends, StoreInv, StoreTypeOK, Waiting, Over
  <2>4. ReadIsCurrent' /\ FileIsRenamed'
    BY <1>9, <2>2
    DEF RemoveTemporary, Ends, StoreInv, StoreTypeOK, ReadIsCurrent, FileIsRenamed, Waiting, Over
  <2> QED
    BY <2>2, <2>3, <2>4 DEF StoreInv
<1>10. ASSUME NEW c \in Caller, Return(c) PROVE StoreInv'
  <2>1. Holds(c)
    BY <1>10 DEF Return, StoreInv, OneInside, Inside, Waiting
  <2>2. line' \in Seq(Caller) /\ LineIsWaiting' /\ OneInside'
    BY <1>10, <2>1, Leaves DEF Return, Over
  <2>3. StoreTypeOK'
    BY <1>10, <2>2 DEF Return, Ends, StoreInv, StoreTypeOK, Waiting, Over
  <2>4. ReadIsCurrent' /\ FileIsRenamed'
    BY <1>10, <2>2
    DEF Return, Ends, StoreInv, StoreTypeOK, ReadIsCurrent, FileIsRenamed, Waiting, Over
  <2> QED
    BY <2>2, <2>3, <2>4 DEF StoreInv
<1>11. CASE StoreCrash
  <2>1. \A c \in Caller : call'[c] \notin Waiting
    BY <1>11 DEF StoreCrash, Waiting
  <2>2. line' = <<>> /\ line' \in Seq(Caller) /\ Len(line') = 0
    BY <1>11 DEF StoreCrash
  <2>3. LineIsWaiting' /\ OneInside'
    BY <2>1, <2>2 DEF LineIsWaiting, OneInside, Inside
  <2>4. StoreTypeOK'
    BY <1>11, <2>2 DEF StoreCrash, StoreInv, StoreTypeOK, Waiting, Over
  <2>5. ReadIsCurrent' /\ FileIsRenamed'
    BY <1>11, <2>2
    DEF StoreCrash, StoreInv, StoreTypeOK, ReadIsCurrent, FileIsRenamed, Waiting, Over
  <2> QED
    BY <2>3, <2>4, <2>5 DEF StoreInv
<1>12. CASE UNCHANGED storeVars
  BY <1>12
  DEF storeVars, StoreInv, StoreTypeOK, LineIsWaiting, OneInside, Holds, ReadIsCurrent,
      FileIsRenamed
<1> QED
  BY <1>1, <1>2, <1>3, <1>4, <1>5, <1>6, <1>7, <1>8, <1>9, <1>10, <1>11, <1>12
  DEF StoreNext, Mutate

LEMMA StoreInvariance == StoreSpec => []StoreInv
  BY StoreInitInv, StoreStep, PTL DEF StoreSpec

-----------------------------------------------------------------------------
(* The refinement *)

Outcome == [c \in Caller |-> IF call[c] \in Over THEN call[c] ELSE "pending"]

LEMMA InitialMaps == StoreInit => Atomic!AtomicInit
  BY DEF StoreInit, Atomic!AtomicInit, Over

(* A step of one call that neither renames nor ends it is not seen. *)
LEMMA Unseen ==
  ASSUME StoreInv, NEW c \in Caller, call[c] \notin Over,
         \A d \in Caller \ {c} : call'[d] = call[d], call'[c] \notin Over
  PROVE  UNCHANGED Outcome
  BY DEF Outcome

(* A call that ends, ends as it is known to. *)
LEMMA Seen ==
  ASSUME StoreInv, NEW c \in Caller, NEW as \in Over, call[c] \in Waiting,
         call' = [call EXCEPT ![c] = as]
  PROVE  Outcome[c] = "pending" /\ Outcome' = [Outcome EXCEPT ![c] = as]
  BY DEF Outcome, StoreInv, StoreTypeOK, Waiting, Over

LEMMA StepMaps ==
  StoreInv /\ [StoreNext]_storeVars => [Atomic!AtomicNext]_<<file, Outcome>>
<1> SUFFICES ASSUME StoreInv, [StoreNext]_storeVars
             PROVE  [Atomic!AtomicNext]_<<file, Outcome>>
  OBVIOUS
<1>1. ASSUME NEW c \in Caller,
             Enter(c) \/ Read(c) \/ WriteTemporary(c) \/ RenameDenied(c) \/ RenameFails(c)
      PROVE  UNCHANGED <<file, Outcome>>
  <2>1. /\ file' = file /\ call[c] \notin Over /\ call'[c] \notin Over
        /\ \A d \in Caller \ {c} : call'[d] = call[d]
    BY <1>1
    DEF Enter, Read, WriteTemporary, RenameDenied, RenameFails, Over, StoreInv, StoreTypeOK
  <2> QED
    BY <2>1, Unseen
<1>2. ASSUME NEW c \in Caller, Rename(c) PROVE Atomic!Apply(c)
  <2>1. file' = file \cup {c}
    BY <1>2 DEF Rename, StoreInv, ReadIsCurrent
  <2>2. /\ call[c] \notin Over /\ call'[c] \notin Over
        /\ \A d \in Caller \ {c} : call'[d] = call[d]
    BY <1>2 DEF Rename, Over, StoreInv, StoreTypeOK
  <2>3. UNCHANGED Outcome /\ Outcome[c] = "pending"
    BY <2>2, Unseen DEF Outcome
  <2> QED
    BY <2>1, <2>3 DEF Atomic!Apply, Outcome
<1>3. ASSUME NEW c \in Caller, ReadFails(c) \/ WriteFails(c) \/ RemoveTemporary(c)
      PROVE  Atomic!Reject(c)
  <2>1. /\ call[c] \in Waiting /\ call' = [call EXCEPT ![c] = "rejected"]
        /\ file' = file /\ c \notin file
    BY <1>3 DEF ReadFails, WriteFails, RemoveTemporary, Ends, Waiting, StoreInv, FileIsRenamed
  <2>2. Outcome[c] = "pending" /\ Outcome' = [Outcome EXCEPT ![c] = "rejected"]
    BY <2>1, Seen DEF Over
  <2> QED
    BY <2>1, <2>2 DEF Atomic!Reject, Outcome
<1>4. ASSUME NEW c \in Caller, Return(c) PROVE Atomic!Resolve(c)
  <2>1. /\ call[c] \in Waiting /\ call' = [call EXCEPT ![c] = "resolved"]
        /\ file' = file /\ c \in file
    BY <1>4 DEF Return, Ends, Waiting, StoreInv, FileIsRenamed
  <2>2. Outcome[c] = "pending" /\ Outcome' = [Outcome EXCEPT ![c] = "resolved"]
    BY <2>1, Seen DEF Over
  <2> QED
    BY <2>1, <2>2 DEF Atomic!Resolve, Outcome
<1>5. CASE StoreCrash
  <2> DEFINE dead == {c \in Caller : call[c] \in Waiting}
  <2>1. \A c \in dead : Outcome[c] = "pending"
    BY DEF Outcome, Waiting, Over
  <2>2. Outcome' = [c \in Caller |-> IF c \in dead THEN "dead" ELSE Outcome[c]]
    BY <1>5 DEF StoreCrash, Outcome, Waiting, Over
  <2>3. file' = file
    BY <1>5 DEF StoreCrash
  <2>4. dead \in SUBSET Caller
    OBVIOUS
  <2>5. Atomic!Die
    <3> HIDE DEF dead
    <3> QED
      BY <2>1, <2>2, <2>3, <2>4 DEF Atomic!Die, Outcome
  <2> QED
    BY <2>5 DEF Atomic!AtomicNext
<1>6. CASE UNCHANGED storeVars
  BY <1>6 DEF storeVars, Outcome
<1> QED
  BY <1>1, <1>2, <1>3, <1>4, <1>5, <1>6 DEF StoreNext, Mutate, Atomic!AtomicNext

-----------------------------------------------------------------------------
(* The theorems *)

(* However calls overlap, fail and die, at most one of them is between its *)
(* read and its return, and its copy of the file is the file.              *)
THEOREM MutexIsExclusive ==
  StoreSpec => [](OneInside /\ ReadIsCurrent)
<1>1. StoreInv => OneInside /\ ReadIsCurrent
  BY DEF StoreInv
<1> QED
  BY StoreInvariance, <1>1, PTL

(* Overlapping calls of `mutate`, with failed and denied renames and deaths *)
(* of the process, lose, tear and repeat no change, whatever their number:  *)
(* the store file implements the atomic store.                              *)
THEOREM StoreIsAtomic == StoreSpec => MutateIsAtomic
<1>1. StoreInit => Atomic!AtomicInit
  BY InitialMaps
<1>2. StoreInv /\ [StoreNext]_storeVars => [Atomic!AtomicNext]_<<file, Outcome>>
  BY StepMaps
<1> QED
  BY <1>1, <1>2, StoreInvariance, PTL
  DEF StoreSpec, MutateIsAtomic, Atomic!AtomicSpec, Outcome
=============================================================================
