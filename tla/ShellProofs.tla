---------------------------- MODULE ShellProofs -----------------------------
(***************************************************************************)
(* Theorems about the shell: ArtifactLoad, for any tabs and any number of  *)
(* loads, and ReviewRail, for any notes and faults; and what the parts     *)
(* that go on side by side have together.                                  *)
(***************************************************************************)
EXTENDS MCProgress, StoreFileProofs, ProvenanceProofs

----------------------------------------------------------------------------
(***************************************************************************)
(* The hand-shake of an artifact.                                          *)
(***************************************************************************)

LoadTypeInv ==
  /\ artifactLoad \in Nat
  /\ load \in [Tab -> Nat]
  /\ stage \in [Tab -> Stage]

(* A load was begun by one tab, and none is ahead of the session record. *)
LoadsApart ==
  /\ \A t \in Tab : load[t] <= artifactLoad
  /\ \A t, u \in Tab : load[t] = load[u] /\ t # u => load[t] = 0

FramesHaveALoad == \A t \in Tab : stage[t] \in {"navigate", "reading", "shown"} => load[t] # 0

LoadInv == LoadTypeInv /\ LoadsApart /\ FramesHaveALoad

LEMMA LoadInitInv == LoadInit => LoadInv
  BY DEF LoadInit, LoadInv, LoadTypeInv, LoadsApart, FramesHaveALoad, Stage

(* Opening and closing leave a tab without a load. *)
LEMMA LoadGivenUp ==
  ASSUME LoadInv, NEW t \in Tab, NEW to \in {"shell", "closed"}, Moves(t, to),
         load' = [load EXCEPT ![t] = 0], artifactLoad' = artifactLoad
  PROVE  LoadInv'
<1>1. LoadTypeInv'
  BY DEF LoadInv, LoadTypeInv, Moves, Stage
<1>2. LoadsApart'
  BY DEF LoadInv, LoadTypeInv, LoadsApart
<1>3. FramesHaveALoad'
  BY DEF LoadInv, LoadTypeInv, FramesHaveALoad, Moves
<1> QED
  BY <1>1, <1>2, <1>3 DEF LoadInv

(* A shell that waits, or a frame that goes on with the load it has. *)
LEMMA LoadGoesOn ==
  ASSUME LoadInv, NEW t \in Tab, NEW to \in Stage, Moves(t, to),
         to \in {"navigate", "reading", "shown"} => stage[t] \in {"navigate", "reading"},
         UNCHANGED <<load, artifactLoad>>
  PROVE  LoadInv'
  BY DEF LoadInv, LoadTypeInv, LoadsApart, FramesHaveALoad, Moves

LEMMA BeginStep ==
  ASSUME LoadInv, NEW t \in Tab, BeginLoad(t)
  PROVE  LoadInv'
<1>1. artifactLoad' = artifactLoad + 1 /\ artifactLoad \in Nat
  BY DEF BeginLoad, LoadInv, LoadTypeInv
<1>2. CASE load' = [load EXCEPT ![t] = artifactLoad'] /\ Moves(t, "navigate")
  <2>1. LoadTypeInv'
    BY <1>1, <1>2 DEF LoadInv, LoadTypeInv, Moves, Stage
  <2>2. LoadsApart'
    BY <1>1, <1>2 DEF LoadInv, LoadTypeInv, LoadsApart
  <2>3. FramesHaveALoad'
    BY <1>1, <1>2 DEF LoadInv, LoadTypeInv, FramesHaveALoad, Moves
  <2> QED
    BY <2>1, <2>2, <2>3 DEF LoadInv
<1>3. CASE Moves(t, "blank") /\ UNCHANGED load
  <2>1. LoadTypeInv'
    BY <1>1, <1>3 DEF LoadInv, LoadTypeInv, Moves, Stage
  <2>2. LoadsApart'
    BY <1>1, <1>3 DEF LoadInv, LoadTypeInv, LoadsApart
  <2>3. FramesHaveALoad'
    BY <1>3 DEF LoadInv, LoadTypeInv, FramesHaveALoad, Moves
  <2> QED
    BY <2>1, <2>2, <2>3 DEF LoadInv
<1> QED
  BY <1>2, <1>3 DEF BeginLoad

LEMMA LoadInvStep == LoadInv /\ [LoadNext]_loadVars => LoadInv'
<1> SUFFICES ASSUME LoadInv, [LoadNext]_loadVars PROVE LoadInv'
  OBVIOUS
<1>1. ASSUME NEW t \in Tab, OpenSession(t) PROVE LoadInv'
  BY <1>1, LoadGivenUp DEF OpenSession
<1>2. ASSUME NEW t \in Tab, CloseTab(t) PROVE LoadInv'
  BY <1>2, LoadGivenUp DEF CloseTab
<1>3. ASSUME NEW t \in Tab, BeginLoad(t) PROVE LoadInv'
  BY <1>3, BeginStep
<1>4. ASSUME NEW t \in Tab, BeginSuperseded(t) PROVE LoadInv'
  BY <1>4, LoadGoesOn DEF BeginSuperseded, Stage
<1>5. ASSUME NEW t \in Tab, ShowSupersededNotice(t) PROVE LoadInv'
  BY <1>5, LoadGoesOn DEF ShowSupersededNotice, Stage
<1>6. ASSUME NEW t \in Tab, CheckBeforeRead(t) PROVE LoadInv'
  BY <1>6, LoadGoesOn DEF CheckBeforeRead, Stage
<1>7. ASSUME NEW t \in Tab, CheckAfterRead(t) PROVE LoadInv'
  BY <1>7, LoadGoesOn DEF CheckAfterRead, Stage
<1>8. CASE UNCHANGED loadVars
  BY <1>8 DEF loadVars, LoadInv, LoadTypeInv, LoadsApart, FramesHaveALoad
<1> QED
  BY <1>1, <1>2, <1>3, <1>4, <1>5, <1>6, <1>7, <1>8 DEF LoadNext, LoadStep

(* A token is minted for one tab, which begins one load with it: there are *)
(* no more loads than openings, and fewer while the newest shell waits.    *)
MintsTyped ==
  /\ chromeLoadToken \in 0 .. MaxMints
  /\ holds \in [Tab -> Nat]
  /\ opened \in Tab \cup {NoTab}
  /\ loadFaults \in 0 .. MaxLoadFaults

OneLoadEach ==
  /\ artifactLoad <= chromeLoadToken
  /\ \A t \in Tab :
       /\ holds[t] <= chromeLoadToken
       /\ stage[t] = "shell" => holds[t] # 0
       /\ stage[t] = "shell" /\ holds[t] = chromeLoadToken => artifactLoad < chromeLoadToken
  /\ \A t, u \in Tab : holds[t] = holds[u] /\ t # u => holds[t] = 0

MintInv == MintsTyped /\ OneLoadEach

LEMMA MintStep == LoadInv /\ MintInv /\ [LoadNext]_loadVars => MintInv'
<1> SUFFICES ASSUME LoadInv, MintInv, [LoadNext]_loadVars PROVE MintInv'
  OBVIOUS
<1> USE LoadAssumption DEF MintInv, MintsTyped, OneLoadEach
<1>1. artifactLoad \in Nat /\ stage \in [Tab -> Stage]
  BY DEF LoadInv, LoadTypeInv
<1>2. ASSUME NEW t \in Tab, OpenSession(t) PROVE MintInv'
  <2>1. MintsTyped'
    BY <1>2 DEF OpenSession
  <2>2. OneLoadEach'
    BY <1>1, <1>2 DEF OpenSession, Moves
  <2> QED
    BY <2>1, <2>2
<1>3. ASSUME NEW t \in Tab, CloseTab(t) PROVE MintInv'
  <2>1. MintsTyped'
    BY <1>3 DEF CloseTab
  <2>2. OneLoadEach'
    BY <1>1, <1>3 DEF CloseTab, Moves
  <2> QED
    BY <2>1, <2>2
<1>4. ASSUME NEW t \in Tab, BeginLoad(t) PROVE MintInv'
  <2>1. MintsTyped'
    BY <1>4 DEF BeginLoad, LoadFault
  <2>2. /\ artifactLoad' = artifactLoad + 1 /\ artifactLoad < chromeLoadToken
        /\ holds[t] = chromeLoadToken /\ holds[t] # 0
        /\ UNCHANGED <<chromeLoadToken, holds>> /\ \E to \in Stage \ {"shell"} : Moves(t, to)
    BY <1>4 DEF BeginLoad, Stage
  <2>3. OneLoadEach'
    BY <1>1, <2>2 DEF Moves
  <2> QED
    BY <2>1, <2>3
<1>5. ASSUME NEW t \in Tab,
             BeginSuperseded(t) \/ ShowSupersededNotice(t) \/ CheckBeforeRead(t) \/ CheckAfterRead(t)
      PROVE  MintInv'
  <2>1. /\ \E to \in Stage \ {"shell"} : Moves(t, to)
        /\ UNCHANGED <<chromeLoadToken, artifactLoad, holds, opened>>
        /\ loadFaults' \in 0 .. MaxLoadFaults
    BY <1>5
    DEF BeginSuperseded, ShowSupersededNotice, CheckBeforeRead, CheckAfterRead, LoadFault, Stage
  <2>2. MintsTyped'
    BY <2>1
  <2>3. OneLoadEach'
    BY <1>1, <2>1 DEF Moves
  <2> QED
    BY <2>2, <2>3
<1>6. CASE UNCHANGED loadVars
  BY <1>6 DEF loadVars
<1> QED
  BY <1>2, <1>3, <1>4, <1>5, <1>6 DEF LoadNext, LoadStep

LEMMA MintInitInv == LoadInit => MintInv
BY LoadAssumption DEF LoadInit, MintInv, MintsTyped, OneLoadEach

LEMMA LoadTyped == LoadInv /\ MintInv => LoadTypeOK
<1> SUFFICES ASSUME LoadInv, MintInv PROVE LoadTypeOK
  OBVIOUS
<1>1. /\ artifactLoad \in Nat /\ chromeLoadToken \in 0 .. MaxMints
      /\ artifactLoad <= chromeLoadToken /\ MaxMints \in Nat
  BY LoadAssumption DEF LoadInv, LoadTypeInv, MintInv, MintsTyped, OneLoadEach
<1>2. load \in [Tab -> 0 .. MaxMints]
  BY <1>1 DEF LoadInv, LoadTypeInv, LoadsApart
<1>3. holds \in [Tab -> 0 .. MaxMints]
  BY <1>1 DEF MintInv, MintsTyped, OneLoadEach
<1> QED
  BY <1>1, <1>2, <1>3
  DEF LoadTypeOK, LoadInv, LoadTypeInv, FramesHaveALoad, MintInv, MintsTyped

-----------------------------------------------------------------------------
(* The theorems *)

(* However many tabs open, reload, close and take over while files are     *)
(* read: a document goes only to the load begun last, and no other tab has *)
(* that load or a later one.                                               *)
THEOREM OnlyTheNewestIsServed == LoadSpec => ServedWhileCurrent
<1> DEFINE Served ==
      \A t \in Tab : stage[t] # "shown" /\ stage'[t] = "shown" =>
        load[t] = artifactLoad /\ \A u \in Tab \ {t} : load[u] < load[t]
<1>1. LoadInv /\ [LoadNext]_loadVars => [Served]_loadVars
  <2> SUFFICES ASSUME LoadInv, LoadNext,
                      NEW t \in Tab, stage[t] # "shown", stage'[t] = "shown"
               PROVE  load[t] = artifactLoad /\ \A u \in Tab \ {t} : load[u] < load[t]
    OBVIOUS
  <2>1. stage[t] = "reading" /\ load[t] = artifactLoad
    <3>1. PICK u \in Tab : OpenSession(u) \/ LoadStep(u) \/ CloseTab(u)
      BY DEF LoadNext
    <3>2. \E to \in Stage : Moves(u, to) /\ (to = "shown" => CheckAfterRead(u) /\ Verified(u))
      BY <3>1
      DEF OpenSession, LoadStep, CloseTab, BeginLoad, BeginSuperseded, ShowSupersededNotice,
          CheckBeforeRead, CheckAfterRead, Stage
    <3>3. u = t /\ CheckAfterRead(t) /\ Verified(t)
      BY <3>2 DEF Moves, LoadInv, LoadTypeInv
    <3> QED
      BY <3>3 DEF CheckAfterRead, Verified
  <2>2. load[t] # 0
    BY <2>1 DEF LoadInv, FramesHaveALoad
  <2> QED
    BY <2>1, <2>2 DEF LoadInv, LoadTypeInv, LoadsApart
<1>2. LoadSpec => []LoadInv
  BY LoadInitInv, LoadInvStep, PTL DEF LoadSpec
<1> QED
  BY <1>1, <1>2, PTL DEF LoadSpec, ServedWhileCurrent

(* Every opening of a session begins one load at most, so there are never  *)
(* more loads than openings; a frame that shows something has a load.      *)
THEOREM LoadTypeCorrect == LoadSpec => []LoadTypeOK
BY LoadInitInv, LoadInvStep, MintInitInv, MintStep, LoadTyped, PTL DEF LoadSpec

----------------------------------------------------------------------------
(***************************************************************************)
(* The review rail.                                                        *)
(***************************************************************************)

(* The types in three parts: the notes, the rows, of which what has been   *)
(* fetched is a list of answered ones, and the lamp.                       *)
NotesTyped ==
  /\ note \in [Note -> {"unwritten", "queued", "removed", "at once", "failed", "sent"}]
  /\ queue \in Seq(Note)
  /\ batch \in Seq(Note)
  /\ sending \subseteq Note
  /\ ToSet(batch) \subseteq sending
  /\ post \in [Note -> {"none", "asked", "ok", "failed"}]
  /\ created \in [Note -> Nat]
  /\ railFaults \in 0 .. MaxRailFaults

RowsTyped ==
  /\ answered \cup pending \cup cards \subseteq Made
  /\ syncs \in Seq(SUBSET Dispatch)
  /\ \A k \in 1 .. Len(syncs) : syncs[k] \subseteq answered

LampTyped ==
  /\ missedBeats \in Nat
  /\ lamp \in {"connecting", "live", "waiting", "lost"}

Distinct(s) == \A i, j \in 1 .. Len(s) : s[i] = s[j] => i = j

(* A note is in the queue once and nowhere else; a flush posts its first   *)
(* note, and nothing else is posted but what is sent at once.              *)
QueueInv ==
  /\ Distinct(queue)
  /\ \A k \in 1 .. Len(queue) : note[queue[k]] = "queued"

BatchInv ==
  /\ Distinct(batch)
  /\ batch = <<>> <=> sending = {}
  /\ \A n \in sending : note[n] \in {"queued", "removed"}
  /\ batch # <<>> => post[batch[1]] # "none"
  /\ \A n \in Note :
       post[n] # "none" => note[n] = "at once" \/ (batch # <<>> /\ n = batch[1])

(* What a flush has put behind it the daemon has made a dispatch of. *)
Done(n) == post[n] = "ok" \/ note[n] = "sent" \/ (n \in sending /\ n \notin ToSet(batch))

PostedInv == \A n \in Note : Done(n) => created[n] > 0

(* Every dispatch of a note but the last has cost a fault; so has the last *)
(* one, until it is known to have been made.                               *)
CostInv ==
  /\ \A n \in Note : created[n] <= railFaults + 1
  /\ \A n \in Note : ~Done(n) => created[n] <= railFaults
  /\ batch # <<>> /\ post[batch[1]] = "failed" =>
       \A n \in sending : created[n] <= railFaults

NotesInv == NotesTyped /\ QueueInv /\ BatchInv /\ PostedInv /\ CostInv

----------------------------------------------------------------------------
(* Sequences: the elements of one, what is left without its head, and      *)
(* without an element that it holds once.                                  *)
LEMMA InSeq ==
  ASSUME NEW S, NEW s \in Seq(S)
  PROVE  /\ \A x : x \in ToSet(s) <=> \E i \in 1 .. Len(s) : s[i] = x
         /\ ToSet(s) \subseteq S
         /\ s = <<>> => ToSet(s) = {}
         /\ s # <<>> => /\ Len(s) \in Nat \ {0} /\ Head(s) = s[1]
                        /\ s[1] \in S /\ s[1] \in ToSet(s)
BY DEF ToSet

LEMMA TailDistinct ==
  ASSUME NEW S, NEW s \in Seq(S), s # <<>>, Distinct(s)
  PROVE  /\ Tail(s) \in Seq(S) /\ Distinct(Tail(s))
         /\ ToSet(Tail(s)) = ToSet(s) \ {s[1]}
<1>1. /\ Tail(s) \in Seq(S) /\ Len(Tail(s)) = Len(s) - 1 /\ Len(s) \in Nat \ {0}
      /\ \A i \in 1 .. Len(Tail(s)) : Tail(s)[i] = s[i + 1]
  OBVIOUS
<1>2. Distinct(Tail(s))
  <2> SUFFICES ASSUME NEW i \in 1 .. Len(Tail(s)), NEW j \in 1 .. Len(Tail(s)),
                      Tail(s)[i] = Tail(s)[j]
               PROVE  i = j
    BY DEF Distinct
  <2>1. i + 1 \in 1 .. Len(s) /\ j + 1 \in 1 .. Len(s) /\ s[i + 1] = s[j + 1]
    BY <1>1
  <2>2. i + 1 = j + 1
    BY <2>1 DEF Distinct
  <2> QED
    BY <2>2, <1>1
<1>3. ASSUME NEW x PROVE x \in ToSet(Tail(s)) <=> x \in ToSet(s) /\ x # s[1]
  <2>1. ASSUME x \in ToSet(Tail(s)) PROVE x \in ToSet(s) /\ x # s[1]
    <3>1. PICK i \in 1 .. Len(Tail(s)) : Tail(s)[i] = x
      BY <2>1, <1>1, InSeq
    <3>2. i + 1 \in 1 .. Len(s) /\ s[i + 1] = x /\ 1 \in 1 .. Len(s) /\ i + 1 # 1
      BY <3>1, <1>1
    <3> QED
      BY <3>2, InSeq DEF Distinct
  <2>2. ASSUME x \in ToSet(s), x # s[1] PROVE x \in ToSet(Tail(s))
    <3>1. PICK i \in 1 .. Len(s) : s[i] = x
      BY <2>2, InSeq
    <3>2. i # 1 /\ i - 1 \in 1 .. Len(Tail(s)) /\ (i - 1) + 1 = i
      BY <3>1, <2>2, <1>1
    <3>3. Tail(s)[i - 1] = x
      BY <3>1, <3>2, <1>1
    <3>4. \E j \in 1 .. Len(Tail(s)) : Tail(s)[j] = x
      BY <3>2, <3>3
    <3> QED
      BY <3>4, <1>1, InSeq
  <2> QED
    BY <2>1, <2>2
<1> QED
  BY <1>1, <1>2, <1>3

LEMMA WithoutOne ==
  ASSUME NEW S, NEW s \in Seq(S), NEW k \in 1 .. Len(s)
  PROVE  /\ RemoveAt(s, k) \in Seq(S) /\ Len(RemoveAt(s, k)) = Len(s) - 1
         /\ \A i \in 1 .. Len(s) - 1 :
              RemoveAt(s, k)[i] = IF i < k THEN s[i] ELSE s[i + 1]
<1> DEFINE front == SubSeq(s, 1, k - 1)
           back == SubSeq(s, k + 1, Len(s))
<1>1. Len(s) \in Nat /\ k \in Nat /\ k >= 1 /\ k <= Len(s)
  OBVIOUS
<1>2. /\ front \in Seq(S) /\ Len(front) = k - 1
      /\ \A i \in 1 .. k - 1 : front[i] = s[i]
  BY <1>1
<1>3. /\ back \in Seq(S) /\ Len(back) = Len(s) - k
      /\ \A i \in 1 .. Len(s) - k : back[i] = s[k + i]
  BY <1>1
<1> HIDE DEF front, back
<1>4. /\ front \o back \in Seq(S) /\ Len(front \o back) = Len(s) - 1
      /\ \A i \in 1 .. Len(s) - 1 :
           (front \o back)[i] = IF i <= k - 1 THEN front[i] ELSE back[i - (k - 1)]
  <2>1. front \o back \in Seq(S) /\ Len(front \o back) = Len(front) + Len(back)
    BY <1>2, <1>3, ConcatProperties
  <2>2. ASSUME NEW i \in 1 .. Len(s) - 1
        PROVE  (front \o back)[i] = IF i <= k - 1 THEN front[i] ELSE back[i - (k - 1)]
    <3>1. \A j \in 1 .. Len(front) + Len(back) :
            (front \o back)[j] = IF j <= Len(front) THEN front[j] ELSE back[j - Len(front)]
      BY <1>2, <1>3, ConcatProperties
    <3>2. i \in 1 .. Len(front) + Len(back)
      BY <1>1, <1>2, <1>3
    <3> QED
      BY <3>1, <3>2, <1>2
  <2> QED
    BY <2>1, <2>2, <1>1, <1>2, <1>3
<1>5. ASSUME NEW i \in 1 .. Len(s) - 1
      PROVE  (front \o back)[i] = IF i < k THEN s[i] ELSE s[i + 1]
  <2>1. CASE i < k
    BY <2>1, <1>1, <1>2, <1>4
  <2>2. CASE ~(i < k)
    <3>1. i - (k - 1) \in 1 .. Len(s) - k /\ k + (i - (k - 1)) = i + 1 /\ ~(i <= k - 1)
      BY <2>2, <1>1
    <3> QED
      BY <3>1, <2>2, <1>3, <1>4
  <2> QED
    BY <2>1, <2>2
<1> QED
  BY <1>4, <1>5 DEF RemoveAt, front, back

----------------------------------------------------------------------------
(* The notes, action by action. *)

(* Neither in the queue nor in a flush is a note that has not been written. *)
LEMMA Fresh ==
  ASSUME NotesInv, NEW n \in Note, note[n] \in {"unwritten", "at once"}
  PROVE  /\ \A i \in 1 .. Len(queue) : queue[i] # n
         /\ n \notin sending /\ n \notin ToSet(batch)
         /\ batch # <<>> => batch[1] # n /\ batch[1] \in sending
<1>1. \A i \in 1 .. Len(queue) : queue[i] # n
  BY DEF NotesInv, QueueInv
<1>2. n \notin sending
  BY DEF NotesInv, BatchInv
<1>3. batch # <<>> => batch[1] \in ToSet(batch)
  BY InSeq DEF NotesInv, NotesTyped
<1> QED
  BY <1>1, <1>2, <1>3 DEF NotesInv, NotesTyped

LEMMA SameBatch ==
  ASSUME NotesInv, UNCHANGED <<batch, sending>>,
         \A n \in Note : n \in sending =>
            note'[n] = note[n] \/ note'[n] = "removed",
         \A n \in Note : note[n] = "at once" => note'[n] = "at once",
         \A n \in Note : post'[n] = post[n] \/ (note'[n] = "at once" /\ n \notin sending)
  PROVE  BatchInv'
<1>1. sending \subseteq Note /\ batch \in Seq(Note) /\ ToSet(batch) \subseteq sending
  BY DEF NotesInv, NotesTyped
<1>2. batch # <<>> => batch[1] \in sending
  BY <1>1, InSeq
<1>3. Distinct(batch)'
  <2>1. Distinct(batch)
    BY DEF NotesInv, BatchInv
  <2> QED
    BY <2>1 DEF Distinct
<1>4. batch' = <<>> <=> sending' = {}
  BY DEF NotesInv, BatchInv
<1>5. \A n \in sending' : note'[n] \in {"queued", "removed"}
  BY <1>1 DEF NotesInv, BatchInv
<1>6. batch' # <<>> => post'[batch'[1]] # "none"
  BY <1>1, <1>2 DEF NotesInv, BatchInv
<1>7. \A n \in Note :
        post'[n] # "none" => note'[n] = "at once" \/ (batch' # <<>> /\ n = batch'[1])
  BY DEF NotesInv, BatchInv
<1> QED
  BY <1>3, <1>4, <1>5, <1>6, <1>7 DEF BatchInv

LEMMA AddKeeps ==
  ASSUME NotesInv, NEW n \in Note, AddQueued(n)
  PROVE  NotesInv'
<1>1. /\ note[n] = "unwritten" /\ note' = [note EXCEPT ![n] = "queued"]
      /\ queue' = Append(queue, n)
      /\ UNCHANGED <<batch, sending, post, created, railFaults>>
  BY DEF AddQueued
<1>2. \A m \in Note : note'[m] = IF m = n THEN "queued" ELSE note[m]
  BY <1>1 DEF NotesInv, NotesTyped
<1>3. NotesTyped'
  <2>1. queue' \in Seq(Note)
    <3>1. queue \in Seq(Note)
      BY DEF NotesInv, NotesTyped
    <3> QED
      BY <1>1, <3>1
  <2>2. note' \in [Note -> {"unwritten", "queued", "removed", "at once", "failed", "sent"}]
    BY <1>1 DEF NotesInv, NotesTyped
  <2> QED
    BY <1>1, <2>1, <2>2 DEF NotesInv, NotesTyped
<1>4. /\ \A i \in 1 .. Len(queue) : queue[i] # n
      /\ n \notin sending
      /\ batch # <<>> => batch[1] # n
  BY <1>1, Fresh
<1>5. queue \in Seq(Note)
  BY DEF NotesInv, NotesTyped
<1>6. /\ Len(queue') = Len(queue) + 1 /\ Len(queue) \in Nat /\ queue'[Len(queue) + 1] = n
      /\ \A i \in 1 .. Len(queue) : queue'[i] = queue[i] /\ queue[i] \in Note
  BY <1>1, <1>5
<1>7. QueueInv'
  <2>1. ASSUME NEW i \in 1 .. Len(queue'), NEW j \in 1 .. Len(queue'), queue'[i] = queue'[j]
        PROVE  i = j
    <3>1. i \in 1 .. Len(queue) \/ i = Len(queue) + 1
      BY <1>6
    <3>2. j \in 1 .. Len(queue) \/ j = Len(queue) + 1
      BY <1>6
    <3> QED
      BY <2>1, <3>1, <3>2, <1>4, <1>6 DEF NotesInv, QueueInv, Distinct
  <2>2. ASSUME NEW i \in 1 .. Len(queue') PROVE note'[queue'[i]] = "queued"
    <3>1. i \in 1 .. Len(queue) \/ i = Len(queue) + 1
      BY <1>6
    <3> QED
      BY <3>1, <1>2, <1>6 DEF NotesInv, QueueInv
  <2> QED
    BY <2>1, <2>2 DEF QueueInv, Distinct
<1>8. BatchInv'
  <2>1. \A m \in Note : m \in sending => note'[m] = note[m]
    BY <1>2, <1>4
  <2>2. \A m \in Note : note[m] = "at once" => note'[m] = "at once"
    BY <1>1, <1>2
  <2> QED
    BY <1>1, <2>1, <2>2, SameBatch
<1>9. \A m \in Note : Done(m)' <=> Done(m)
  BY <1>1, <1>2 DEF Done
<1>10. PostedInv' /\ CostInv'
  BY <1>1, <1>9 DEF NotesInv, PostedInv, CostInv
<1> QED
  BY <1>3, <1>7, <1>8, <1>10 DEF NotesInv

LEMMA SendKeeps ==
  ASSUME NotesInv, NEW n \in Note, SendAtOnce(n)
  PROVE  NotesInv'
<1>1. /\ note[n] = "unwritten" /\ note' = [note EXCEPT ![n] = "at once"]
      /\ post' = [post EXCEPT ![n] = "asked"]
      /\ UNCHANGED <<queue, batch, sending, created, railFaults>>
  BY DEF SendAtOnce
<1>2. /\ \A m \in Note : note'[m] = IF m = n THEN "at once" ELSE note[m]
      /\ \A m \in Note : post'[m] = IF m = n THEN "asked" ELSE post[m]
  BY <1>1 DEF NotesInv, NotesTyped
<1>3. NotesTyped'
  BY <1>1 DEF NotesInv, NotesTyped
<1>4. /\ \A i \in 1 .. Len(queue) : queue[i] # n
      /\ n \notin sending
      /\ batch # <<>> => batch[1] # n /\ batch[1] \in sending
  BY <1>1, Fresh
<1>5. \A i \in 1 .. Len(queue) : queue[i] \in Note
  <2>1. queue \in Seq(Note)
    BY DEF NotesInv, NotesTyped
  <2> QED
    BY <2>1
<1>6. QueueInv'
  BY <1>1, <1>2, <1>4, <1>5, ZenonT(30) DEF NotesInv, QueueInv, Distinct
<1>7. sending \subseteq Note
  BY DEF NotesInv, NotesTyped
<1>8. BatchInv'
  <2>1. \A m \in Note : m \in sending => note'[m] = note[m]
    BY <1>2, <1>4
  <2>2. \A m \in Note : note[m] = "at once" => note'[m] = "at once"
    BY <1>2
  <2>3. \A m \in Note : post'[m] = post[m] \/ (note'[m] = "at once" /\ m \notin sending)
    BY <1>2, <1>4
  <2> QED
    BY <1>1, <2>1, <2>2, <2>3, SameBatch
<1>9. \A m \in Note : Done(m)' <=> Done(m)
  <2>1. post[n] # "ok"
    BY <1>1, <1>4 DEF NotesInv, BatchInv
  <2>2. ~Done(n) /\ ~Done(n)'
    <3>1. note[n] = "unwritten" /\ note'[n] = "at once" /\ post'[n] = "asked" /\ n \notin sending'
      BY <1>1, <1>2, <1>4
    <3> QED
      BY <3>1, <2>1, <1>4 DEF Done
  <2>3. \A m \in Note : m # n => (Done(m)' <=> Done(m))
    BY <1>1, <1>2 DEF Done
  <2> QED
    BY <2>2, <2>3
<1>10. PostedInv' /\ CostInv'
  BY <1>1, <1>2, <1>4, <1>7, <1>9 DEF NotesInv, PostedInv, CostInv
<1> QED
  BY <1>3, <1>6, <1>8, <1>10 DEF NotesInv

LEMMA RemoveKeeps ==
  ASSUME NotesInv, NEW n \in Note, RemoveQueued(n)
  PROVE  NotesInv'
<1>1. PICK k \in DOMAIN queue : queue[k] = n /\ queue' = RemoveAt(queue, k)
  BY DEF RemoveQueued
<1>2. /\ note' = [note EXCEPT ![n] = "removed"]
      /\ UNCHANGED <<batch, sending, post, created, railFaults>>
  BY DEF RemoveQueued
<1>3. \A m \in Note : note'[m] = IF m = n THEN "removed" ELSE note[m]
  BY <1>2 DEF NotesInv, NotesTyped
<1>4. queue \in Seq(Note) /\ k \in 1 .. Len(queue) /\ Len(queue) \in Nat
  <2>1. queue \in Seq(Note)
    BY DEF NotesInv, NotesTyped
  <2> QED
    BY <2>1
<1>5. /\ queue' \in Seq(Note) /\ Len(queue') = Len(queue) - 1
      /\ \A i \in 1 .. Len(queue) - 1 : queue'[i] = IF i < k THEN queue[i] ELSE queue[i + 1]
  BY <1>1, <1>4, WithoutOne
<1>6. NotesTyped'
  BY <1>2, <1>5 DEF NotesInv, NotesTyped
<1>7. note[n] = "queued"
  BY <1>1, <1>4 DEF NotesInv, QueueInv
<1>8. ASSUME NEW i \in 1 .. Len(queue')
      PROVE  \E a \in 1 .. Len(queue) :
               a # k /\ queue'[i] = queue[a] /\ a = IF i < k THEN i ELSE i + 1
  <2>1. CASE i < k
    <3>1. i \in 1 .. Len(queue) /\ i # k /\ queue'[i] = queue[i]
      BY <2>1, <1>4, <1>5
    <3> QED
      BY <2>1, <3>1
  <2>2. CASE ~(i < k)
    <3>1. i + 1 \in 1 .. Len(queue) /\ i + 1 # k /\ queue'[i] = queue[i + 1]
      BY <2>2, <1>4, <1>5
    <3> QED
      BY <2>2, <3>1
  <2> QED
    BY <2>1, <2>2
<1>9. QueueInv'
  <2>1. ASSUME NEW i \in 1 .. Len(queue'), NEW j \in 1 .. Len(queue'), queue'[i] = queue'[j]
        PROVE  i = j
    <3>1. PICK a \in 1 .. Len(queue) : queue'[i] = queue[a] /\ a = IF i < k THEN i ELSE i + 1
      BY <1>8
    <3>2. PICK b \in 1 .. Len(queue) : queue'[j] = queue[b] /\ b = IF j < k THEN j ELSE j + 1
      BY <1>8
    <3>3. a = b
      BY <2>1, <3>1, <3>2 DEF NotesInv, QueueInv, Distinct
    <3> QED
      BY <3>1, <3>2, <3>3, <1>4, <1>5
  <2>2. ASSUME NEW i \in 1 .. Len(queue') PROVE note'[queue'[i]] = "queued"
    <3>1. PICK a \in 1 .. Len(queue) : a # k /\ queue'[i] = queue[a]
      BY <1>8
    <3>2. queue[a] # n /\ note[queue[a]] = "queued" /\ queue[a] \in Note
      BY <3>1, <1>1, <1>4 DEF NotesInv, QueueInv, Distinct
    <3> QED
      BY <3>1, <3>2, <1>3
  <2> QED
    BY <2>1, <2>2 DEF QueueInv, Distinct
<1>10. BatchInv'
  <2>1. \A m \in Note : note'[m] = note[m] \/ note'[m] = "removed"
    BY <1>3
  <2>2. \A m \in Note : note[m] = "at once" => note'[m] = "at once"
    BY <1>3, <1>7
  <2> QED
    BY <1>2, <2>1, <2>2, SameBatch
<1>11. \A m \in Note : Done(m)' <=> Done(m)
  BY <1>2, <1>3, <1>7 DEF Done
<1>12. PostedInv' /\ CostInv'
  BY <1>2, <1>11 DEF NotesInv, PostedInv, CostInv
<1> QED
  BY <1>6, <1>9, <1>10, <1>12 DEF NotesInv

LEMMA ClearKeeps ==
  ASSUME NotesInv, ClearQueue
  PROVE  NotesInv'
<1>1. /\ sending = {} /\ queue' = <<>>
      /\ note' = [n \in Note |-> IF n \in ToSet(queue) THEN "removed" ELSE note[n]]
      /\ UNCHANGED <<batch, sending, post, created, railFaults>>
  BY DEF ClearQueue
<1>2. /\ queue \in Seq(Note)
      /\ \A n \in Note : n \in ToSet(queue) => note[n] = "queued"
  BY InSeq DEF NotesInv, NotesTyped, QueueInv
<1>3. NotesTyped'
  <2>1. note' \in [Note -> {"unwritten", "queued", "removed", "at once", "failed", "sent"}]
    BY <1>1 DEF NotesInv, NotesTyped
  <2>2. queue' \in Seq(Note)
    BY <1>1
  <2> QED
    BY <1>1, <2>1, <2>2 DEF NotesInv, NotesTyped
<1>4. QueueInv'
  BY <1>1 DEF QueueInv, Distinct
<1>5. \A n \in Note : note'[n] = note[n] \/ (note[n] = "queued" /\ note'[n] = "removed")
  BY <1>1, <1>2
<1>6. BatchInv'
  <2>1. \A m \in Note : note[m] = "at once" => note'[m] = "at once"
    BY <1>5
  <2>2. \A m \in Note : note'[m] = note[m] \/ note'[m] = "removed"
    BY <1>5
  <2> QED
    BY <1>1, <2>1, <2>2, SameBatch
<1>7. \A m \in Note : Done(m)' <=> Done(m)
  BY <1>1, <1>5 DEF Done
<1>8. PostedInv' /\ CostInv'
  BY <1>1, <1>7 DEF NotesInv, PostedInv, CostInv
<1> QED
  BY <1>3, <1>4, <1>6, <1>8 DEF NotesInv

LEMMA FlushKeeps ==
  ASSUME NotesInv, Flush
  PROVE  NotesInv'
<1>1. /\ queue # <<>> /\ sending = {}
      /\ batch' = queue /\ sending' = ToSet(queue)
      /\ post' = [post EXCEPT ![Head(queue)] = "asked"]
      /\ UNCHANGED <<note, queue, created, railFaults>>
  BY DEF Flush
<1>2. queue \in Seq(Note) /\ batch = <<>>
  BY <1>1 DEF NotesInv, NotesTyped, BatchInv
<1>3. /\ Head(queue) = queue[1] /\ queue[1] \in ToSet(queue) /\ queue[1] \in Note
      /\ ToSet(queue) \subseteq Note /\ ToSet(queue) # {}
      /\ \A n \in ToSet(queue) : note[n] = "queued"
  BY <1>1, <1>2, InSeq DEF NotesInv, QueueInv
<1>4. \A n \in Note : post'[n] = IF n = queue[1] THEN "asked" ELSE post[n]
  BY <1>1, <1>3 DEF NotesInv, NotesTyped
<1>5. NotesTyped'
  BY <1>1, <1>3 DEF NotesInv, NotesTyped
<1>6. QueueInv'
  BY <1>1 DEF NotesInv, QueueInv, Distinct
<1>7. BatchInv'
  <2>1. Distinct(batch')
    BY <1>1 DEF NotesInv, QueueInv, Distinct
  <2>2. Distinct(batch)'
    BY <2>1 DEF Distinct
  <2> QED
    <3>1. batch' # <<>> /\ sending' # {} /\ post'[batch'[1]] # "none"
      BY <1>1, <1>3, <1>4
    <3>2. \A n \in sending' : note'[n] = "queued"
      BY <1>1, <1>3
    <3>3. \A n \in Note : post'[n] # "none" => note'[n] = "at once" \/ n = batch'[1]
      BY <1>1, <1>2, <1>4 DEF NotesInv, BatchInv
    <3> QED
      BY <2>2, <3>1, <3>2, <3>3 DEF BatchInv
<1>8. \A n \in Note : Done(n)' <=> Done(n)
  <2>1. post[queue[1]] = "none"
    BY <1>2, <1>3 DEF NotesInv, BatchInv
  <2>2. \A n \in Note : post'[n] = "ok" <=> post[n] = "ok"
    BY <2>1, <1>4
  <2> QED
    BY <2>2, <1>1 DEF Done
<1>9. PostedInv' /\ CostInv'
  BY <1>1, <1>3, <1>4, <1>8 DEF NotesInv, PostedInv, CostInv
<1> QED
  BY <1>5, <1>6, <1>7, <1>9 DEF NotesInv

(* The daemon is asked for the head of the flush, or for a note that is    *)
(* sent at once; neither had been made before without a fault.             *)
LEMMA PostKeeps ==
  ASSUME NotesInv, NEW n \in Note, PostDispatch(n)
  PROVE  NotesInv'
<1>1. /\ post[n] = "asked" /\ post' \in {[post EXCEPT ![n] = "ok"], [post EXCEPT ![n] = "failed"]}
      /\ \/ /\ created' = [created EXCEPT ![n] = @ + 1] /\ post' = [post EXCEPT ![n] = "ok"]
            /\ UNCHANGED railFaults
         \/ /\ created' \in {created, [created EXCEPT ![n] = @ + 1]}
            /\ post' = [post EXCEPT ![n] = "failed"]
            /\ RailFault
      /\ UNCHANGED <<note, queue, batch, sending>>
  BY DEF PostDispatch
<1>2. /\ post \in [Note -> {"none", "asked", "ok", "failed"}] /\ created \in [Note -> Nat]
      /\ railFaults \in Nat /\ MaxRailFaults \in Nat /\ railFaults <= MaxRailFaults
      /\ sending \subseteq Note /\ batch \in Seq(Note) /\ ToSet(batch) \subseteq sending
  <2>1. railFaults \in 0 .. MaxRailFaults /\ MaxRailFaults \in Nat
    BY RailAssumption DEF NotesInv, NotesTyped
  <2>2. railFaults \in Nat /\ railFaults <= MaxRailFaults
    BY <2>1
  <2> QED
    BY <2>1, <2>2 DEF NotesInv, NotesTyped
<1>3. /\ \A m \in Note : m # n => post'[m] = post[m] /\ created'[m] = created[m]
      /\ \A m \in Note : created'[m] \in Nat
      /\ post'[n] \in {"ok", "failed"}
      /\ created'[n] \in {created[n], created[n] + 1}
      /\ post'[n] = "ok" => created'[n] = created[n] + 1 /\ railFaults' = railFaults
      /\ post'[n] = "failed" => railFaults' = railFaults + 1 /\ railFaults < MaxRailFaults
  BY <1>1, <1>2 DEF RailFault
<1>4. NotesTyped'
  <2>1. created' \in [Note -> Nat] /\ post' \in [Note -> {"none", "asked", "ok", "failed"}]
    BY <1>1, <1>2, SMTT(20)
  <2>2. railFaults' \in 0 .. MaxRailFaults
    BY <1>2, <1>3
  <2> QED
    BY <1>1, <2>1, <2>2 DEF NotesInv, NotesTyped
<1>5. QueueInv'
  BY <1>1 DEF NotesInv, QueueInv, Distinct
<1>6. note[n] = "at once" \/ (batch # <<>> /\ n = batch[1])
  BY <1>1 DEF NotesInv, BatchInv
<1>7. BatchInv'
  <2>1. Distinct(batch)'
    <3>1. Distinct(batch)
      BY DEF NotesInv, BatchInv
    <3> QED
      BY <1>1, <3>1 DEF Distinct
  <2>2. batch' # <<>> => post'[batch'[1]] # "none"
    <3>1. batch # <<>> => batch[1] \in Note /\ post[batch[1]] # "none"
      BY <1>2, InSeq DEF NotesInv, BatchInv
    <3> QED
      BY <1>1, <1>3, <3>1
  <2>3. \A m \in Note :
          post'[m] # "none" => note'[m] = "at once" \/ (batch' # <<>> /\ m = batch'[1])
    BY <1>1, <1>3, <1>6 DEF NotesInv, BatchInv
  <2>4. (batch' = <<>> <=> sending' = {}) /\ \A m \in sending' : note'[m] \in {"queued", "removed"}
    BY <1>1 DEF NotesInv, BatchInv
  <2> QED
    BY <2>1, <2>2, <2>3, <2>4 DEF BatchInv
<1>8. ~Done(n)
  <2>1. CASE note[n] = "at once"
    <3>1. n \notin sending
      BY <2>1 DEF NotesInv, BatchInv
    <3> QED
      BY <1>1, <2>1, <3>1 DEF Done
  <2>2. CASE batch # <<>> /\ n = batch[1]
    <3>1. n \in ToSet(batch) /\ n \in sending
      BY <1>2, <2>2, InSeq
    <3>2. note[n] \in {"queued", "removed"}
      BY <3>1 DEF NotesInv, BatchInv
    <3> QED
      BY <1>1, <3>1, <3>2 DEF Done
  <2> QED
    BY <1>6, <2>1, <2>2
<1>9. /\ \A m \in Note : m # n => (Done(m)' <=> Done(m))
      /\ Done(n)' <=> post'[n] = "ok"
  BY <1>1, <1>3, <1>8 DEF Done
<1>10. PostedInv'
  BY <1>2, <1>3, <1>9 DEF NotesInv, PostedInv
<1>11. CostInv'
  <2>1. created[n] <= railFaults /\ \A m \in Note : created[m] <= railFaults + 1 /\ created[m] \in Nat
    BY <1>2, <1>8 DEF NotesInv, CostInv
  <2>2. CASE post'[n] = "ok"
    <3>1. \A m \in Note : created'[m] <= railFaults' + 1
      BY <1>2, <1>3, <2>1, <2>2
    <3>2. \A m \in Note : ~Done(m)' => created'[m] <= railFaults'
      BY <1>2, <1>3, <1>9, <2>1, <2>2 DEF NotesInv, CostInv
    <3>3. ASSUME batch' # <<>>, post'[batch'[1]] = "failed", NEW m \in sending'
          PROVE  created'[m] <= railFaults'
      <4>1. batch[1] # n /\ batch[1] \in Note /\ post[batch[1]] = "failed" /\ m \in sending
        BY <1>1, <1>2, <1>3, <2>2, <3>3, InSeq
      <4>2. n \notin sending
        BY <1>6, <4>1 DEF NotesInv, BatchInv
      <4>3. m # n /\ m \in Note /\ created[m] <= railFaults
        BY <1>1, <1>2, <3>3, <4>1, <4>2 DEF NotesInv, CostInv
      <4> QED
        BY <1>3, <2>2, <4>3
    <3> QED
      BY <3>1, <3>2, <3>3 DEF CostInv
  <2>3. CASE post'[n] = "failed"
    <3>1. \A m \in Note : created'[m] <= railFaults'
      BY <1>2, <1>3, <2>1, <2>3
    <3>2. \A m \in Note : created'[m] <= railFaults' + 1
      BY <3>1, <1>2, <1>3, <2>3
    <3> QED
      BY <1>1, <1>2, <3>1, <3>2 DEF CostInv
  <2> QED
    BY <1>3, <2>2, <2>3
<1> QED
  BY <1>4, <1>5, <1>7, <1>10, <1>11 DEF NotesInv

(* What ends without sending what it set out to send. *)
LEMMA FailKeeps ==
  ASSUME NotesInv, SendFails
  PROVE  NotesInv'
<1>1. PICK n : n = Head(batch)
  OBVIOUS
<1>2. /\ batch # <<>> /\ post[n] = "failed" /\ post' = [post EXCEPT ![n] = "none"]
      /\ batch' = <<>> /\ sending' = {}
      /\ UNCHANGED <<note, queue, created, railFaults>>
  BY <1>1 DEF SendFails
<1>3. /\ batch \in Seq(Note) /\ ToSet(batch) \subseteq sending /\ sending \subseteq Note
      /\ n = batch[1] /\ n \in ToSet(batch) /\ n \in Note
  <2>1. batch \in Seq(Note) /\ ToSet(batch) \subseteq sending /\ sending \subseteq Note
    BY DEF NotesInv, NotesTyped
  <2> QED
    BY <1>1, <1>2, <2>1, InSeq
<1>4. \A m \in Note : post'[m] = IF m = n THEN "none" ELSE post[m]
  BY <1>2, <1>3 DEF NotesInv, NotesTyped
<1>5. NotesTyped'
  <2>1. ToSet(batch)' = {} /\ batch' \in Seq(Note)
    BY <1>2 DEF ToSet
  <2> QED
    BY <1>2, <1>3, <2>1 DEF NotesInv, NotesTyped
<1>6. QueueInv'
  BY <1>2 DEF NotesInv, QueueInv, Distinct
<1>7. BatchInv'
  <2>1. Distinct(batch)'
    BY <1>2 DEF Distinct
  <2>2. \A m \in Note : post'[m] # "none" => note'[m] = "at once"
    BY <1>2, <1>3, <1>4 DEF NotesInv, BatchInv
  <2> QED
    BY <1>2, <2>1, <2>2 DEF BatchInv
<1>8. \A m \in Note : Done(m)' => Done(m)
  BY <1>2, <1>3, <1>4 DEF Done
<1>9. ASSUME NEW m \in Note, ~Done(m)' PROVE created[m] <= railFaults
  <2>1. CASE m \in sending
    BY <1>2, <1>3, <2>1 DEF NotesInv, CostInv
  <2>2. CASE m \notin sending
    <3>1. ~Done(m)
      <4>1. post[m] = "ok" => post'[m] = "ok"
        BY <1>2, <1>4
      <4> QED
        BY <1>2, <1>9, <2>2, <4>1 DEF Done
    <3> QED
      BY <3>1 DEF NotesInv, CostInv
  <2> QED
    BY <2>1, <2>2
<1>10. PostedInv' /\ CostInv'
  BY <1>2, <1>8, <1>9 DEF NotesInv, PostedInv, CostInv
<1> QED
  BY <1>5, <1>6, <1>7, <1>10 DEF NotesInv

(* A note that is sent at once ends with its request. *)
LEMMA SentKeeps ==
  ASSUME NotesInv, NEW n \in Note, SentAtOnce(n)
  PROVE  NotesInv'
<1>1. /\ note[n] = "at once" /\ post[n] \in {"ok", "failed"}
      /\ post' = [post EXCEPT ![n] = "none"]
      /\ note' = [note EXCEPT ![n] = IF post[n] = "ok" THEN "sent" ELSE "failed"]
      /\ UNCHANGED <<queue, batch, sending, created, railFaults>>
  BY DEF SentAtOnce
<1>2. /\ \A m \in Note : post'[m] = IF m = n THEN "none" ELSE post[m]
      /\ \A m \in Note : note'[m] = IF m = n THEN (IF post[n] = "ok" THEN "sent" ELSE "failed")
                                             ELSE note[m]
  BY <1>1 DEF NotesInv, NotesTyped
<1>3. NotesTyped'
  <2>1. note' \in [Note -> {"unwritten", "queued", "removed", "at once", "failed", "sent"}]
    BY <1>1 DEF NotesInv, NotesTyped
  <2>2. post' \in [Note -> {"none", "asked", "ok", "failed"}]
    BY <1>1 DEF NotesInv, NotesTyped
  <2> QED
    BY <1>1, <2>1, <2>2 DEF NotesInv, NotesTyped
<1>4. /\ \A i \in 1 .. Len(queue) : queue[i] # n /\ queue[i] \in Note
      /\ n \notin sending
      /\ batch # <<>> => batch[1] # n /\ batch[1] \in sending
  <2>1. queue \in Seq(Note)
    BY DEF NotesInv, NotesTyped
  <2>2. \A i \in 1 .. Len(queue) : queue[i] \in Note
    BY <2>1
  <2> QED
    BY <1>1, <2>2, Fresh
<1>5. sending \subseteq Note
  BY DEF NotesInv, NotesTyped
<1>6. QueueInv'
  <2>1. Distinct(queue)'
    BY <1>1 DEF NotesInv, QueueInv, Distinct
  <2>2. \A i \in 1 .. Len(queue) : note'[queue[i]] = "queued"
    BY <1>2, <1>4 DEF NotesInv, QueueInv
  <2> QED
    BY <1>1, <2>1, <2>2 DEF QueueInv
<1>7. BatchInv'
  <2>1. Distinct(batch)'
    <3>1. Distinct(batch)
      BY DEF NotesInv, BatchInv
    <3> QED
      BY <1>1, <3>1 DEF Distinct
  <2>2. batch' # <<>> => post'[batch'[1]] # "none"
    <3>1. batch # <<>> => post'[batch[1]] = post[batch[1]] /\ post[batch[1]] # "none"
      BY <1>2, <1>4, <1>5 DEF NotesInv, BatchInv
    <3> QED
      BY <1>1, <3>1
  <2>3. \A m \in Note :
          post'[m] # "none" => note'[m] = "at once" \/ (batch' # <<>> /\ m = batch'[1])
    BY <1>1, <1>2 DEF NotesInv, BatchInv
  <2>4. \A m \in sending' : note'[m] \in {"queued", "removed"}
    BY <1>1, <1>2, <1>4, <1>5, ZenonT(30) DEF NotesInv, BatchInv
  <2>5. batch' = <<>> <=> sending' = {}
    BY <1>1 DEF NotesInv, BatchInv
  <2> QED
    BY <2>1, <2>2, <2>3, <2>4, <2>5 DEF BatchInv
<1>8. \A m \in Note : Done(m)' <=> Done(m)
  <2>1. \A m \in Note : m # n => (Done(m)' <=> Done(m))
    BY <1>1, <1>2 DEF Done
  <2>2. Done(n)' <=> Done(n)
    <3>1. /\ post'[n] = "none" /\ note[n] = "at once" /\ n \notin sending /\ n \notin sending'
          /\ note'[n] = "sent" <=> post[n] = "ok"
      BY <1>1, <1>2, <1>4
    <3> QED
      BY <3>1 DEF Done
  <2> QED
    BY <2>1, <2>2
<1>9. PostedInv'
  BY <1>1, <1>8 DEF NotesInv, PostedInv
<1>10. CostInv'
  <2>1. batch # <<>> => post'[batch[1]] = post[batch[1]]
    BY <1>2, <1>4, <1>5
  <2> QED
    BY <1>1, <1>8, <2>1 DEF NotesInv, CostInv
<1> QED
  BY <1>3, <1>6, <1>7, <1>9, <1>10 DEF NotesInv

(* The head of a flush goes behind it: the next note is asked for, or all  *)
(* that it set out to send is done with.                                   *)
LEMMA NextKeeps ==
  ASSUME NotesInv, SendNext
  PROVE  NotesInv'
<1>1. PICK n : n = Head(batch)
  OBVIOUS
<1>2. /\ batch # <<>> /\ post[n] = "ok" /\ batch' = Tail(batch)
      /\ \/ /\ batch' # <<>>
            /\ post' = [post EXCEPT ![n] = "none", ![Head(batch')] = "asked"]
            /\ UNCHANGED <<note, queue, sending>>
         \/ /\ batch' = <<>>
            /\ post' = [post EXCEPT ![n] = "none"]
            /\ note' = [m \in Note |-> IF m \in sending THEN "sent" ELSE note[m]]
            /\ queue' = <<>> /\ sending' = {}
      /\ UNCHANGED <<created, railFaults>>
  BY <1>1, Zenon DEF SendNext
<1>3. /\ batch \in Seq(Note) /\ ToSet(batch) \subseteq sending /\ sending \subseteq Note
      /\ Distinct(batch)
  BY DEF NotesInv, NotesTyped, BatchInv
<1>4. n = batch[1] /\ n \in ToSet(batch) /\ n \in Note
  BY <1>1, <1>2, <1>3, InSeq
<1>5. batch' \in Seq(Note) /\ Distinct(batch') /\ ToSet(batch') = ToSet(batch) \ {n}
  BY <1>2, <1>3, <1>4, TailDistinct
<1>6. Distinct(batch)' /\ ToSet(batch)' \subseteq Note
  BY <1>3, <1>5 DEF Distinct, ToSet
<1>7. /\ note[n] \in {"queued", "removed"}
      /\ created[n] > 0
      /\ \A m \in Note : post[m] # "none" => note[m] = "at once" \/ m = n
  BY <1>2, <1>3, <1>4 DEF NotesInv, BatchInv, PostedInv, Done
<1>8. CASE batch' # <<>>
  <2>1. PICK h : h = Head(batch')
    OBVIOUS
  <2>2. h = batch'[1] /\ h \in ToSet(batch') /\ h \in Note
    BY <1>5, <1>8, <2>1, InSeq
  <2>3. h # n /\ h \in sending
    BY <1>3, <1>5, <2>2
  <2>4. /\ post' = [post EXCEPT ![n] = "none", ![h] = "asked"]
        /\ UNCHANGED <<note, queue, sending, created, railFaults>>
    BY <1>2, <1>8, <2>1
  <2>5. \A m \in Note : post'[m] = IF m = n THEN "none" ELSE IF m = h THEN "asked" ELSE post[m]
    BY <2>3, <2>4 DEF NotesInv, NotesTyped
  <2>6. NotesTyped'
    <3>1. post' \in [Note -> {"none", "asked", "ok", "failed"}]
      BY <2>4 DEF NotesInv, NotesTyped
    <3>2. ToSet(batch') \subseteq sending'
      BY <1>3, <1>5, <2>4
    <3>3. ToSet(batch)' = ToSet(batch')
      BY DEF ToSet
    <3> QED
      BY <1>5, <2>4, <3>1, <3>2, <3>3 DEF NotesInv, NotesTyped
  <2>7. QueueInv'
    BY <2>4 DEF NotesInv, QueueInv, Distinct
  <2>8. BatchInv'
    <3>1. batch' # <<>> /\ sending' # {} /\ post'[batch'[1]] # "none"
      <4>1. sending' # {}
        BY <2>3, <2>4
      <4>2. post'[h] = "asked"
        BY <2>2, <2>3, <2>5
      <4> QED
        BY <1>8, <2>2, <4>1, <4>2
    <3>2. \A m \in sending' : note'[m] \in {"queued", "removed"}
      BY <2>4 DEF NotesInv, BatchInv
    <3>3. \A m \in Note : post'[m] # "none" => note'[m] = "at once" \/ m = batch'[1]
      BY <1>7, <2>2, <2>4, <2>5
    <3> QED
      BY <1>6, <3>1, <3>2, <3>3 DEF BatchInv
  <2>9. note[h] \in {"queued", "removed"}
    BY <2>3 DEF NotesInv, BatchInv
  <2>10. \A m \in Note : Done(m)' <=> Done(m)
    <3>1. ToSet(batch)' = ToSet(batch')
      BY DEF ToSet
    <3>2. Done(n) /\ Done(n)'
      BY <1>2, <1>3, <1>4, <1>5, <2>4, <3>1 DEF Done
    <3>3. post[h] = "none"
      BY <1>7, <2>2, <2>3, <2>9
    <3>4. \A m \in Note : m # n => (post'[m] = "ok" <=> post[m] = "ok")
      BY <2>5, <3>3
    <3>5. \A m \in Note : m # n => (Done(m)' <=> Done(m))
      BY <1>5, <2>4, <3>1, <3>4 DEF Done
    <3> QED
      BY <3>2, <3>5
  <2>11. PostedInv'
    BY <2>4, <2>10 DEF NotesInv, PostedInv
  <2>12. CostInv'
    <3>1. post'[batch'[1]] # "failed"
      BY <2>2, <2>3, <2>5
    <3> QED
      BY <2>4, <2>10, <3>1 DEF NotesInv, CostInv
  <2> QED
    BY <2>6, <2>7, <2>8, <2>11, <2>12 DEF NotesInv
<1>9. CASE batch' = <<>>
  <2>1. /\ post' = [post EXCEPT ![n] = "none"]
        /\ note' = [m \in Note |-> IF m \in sending THEN "sent" ELSE note[m]]
        /\ queue' = <<>> /\ sending' = {} /\ UNCHANGED <<created, railFaults>>
    BY <1>2, <1>9
  <2>2. /\ \A m \in Note : post'[m] = IF m = n THEN "none" ELSE post[m]
        /\ \A m \in Note : note'[m] = IF m \in sending THEN "sent" ELSE note[m]
    BY <2>1 DEF NotesInv, NotesTyped
  <2>3. ToSet(batch) = {n}
    <3>1. ToSet(batch') = {}
      BY <1>9 DEF ToSet
    <3> QED
      BY <1>4, <1>5, <3>1
  <2>4. NotesTyped'
    <3>1. note' \in [Note -> {"unwritten", "queued", "removed", "at once", "failed", "sent"}]
      BY <2>1 DEF NotesInv, NotesTyped
    <3>2. post' \in [Note -> {"none", "asked", "ok", "failed"}]
      BY <2>1 DEF NotesInv, NotesTyped
    <3>3. ToSet(batch)' = {} /\ queue' \in Seq(Note) /\ batch' \in Seq(Note)
      BY <1>9, <2>1 DEF ToSet
    <3> QED
      BY <2>1, <3>1, <3>2, <3>3 DEF NotesInv, NotesTyped
  <2>5. QueueInv'
    BY <2>1 DEF QueueInv, Distinct
  <2>6. \A m \in Note : post'[m] # "none" => note'[m] = "at once"
    <3>1. \A m \in Note : note[m] = "at once" => m \notin sending
      BY DEF NotesInv, BatchInv
    <3> QED
      BY <1>7, <2>2, <3>1
  <2>7. BatchInv'
    BY <1>6, <1>9, <2>1, <2>6 DEF BatchInv
  <2>8. \A m \in Note : Done(m)' <=> Done(m)
    <3>1. ASSUME NEW m \in Note, m \in sending PROVE Done(m) /\ Done(m)'
      <4>1. Done(m)'
        BY <2>2, <3>1 DEF Done
      <4>2. Done(m)
        BY <1>2, <2>3, <3>1 DEF Done
      <4> QED
        BY <4>1, <4>2
    <3>2. ASSUME NEW m \in Note, m \notin sending PROVE Done(m)' <=> Done(m)
      <4>1. m # n
        BY <1>3, <1>4, <3>2
      <4> QED
        BY <2>1, <2>2, <3>2, <4>1 DEF Done
    <3> QED
      BY <3>1, <3>2
  <2>9. PostedInv' /\ CostInv'
    BY <1>9, <2>1, <2>8 DEF NotesInv, PostedInv, CostInv
  <2> QED
    BY <2>4, <2>5, <2>7, <2>9 DEF NotesInv
<1> QED
  BY <1>8, <1>9

(* Steps of the rows and the lamp. *)
LEMMA NotesStay ==
  ASSUME NotesInv, UNCHANGED <<notes, created>>,
         railFaults' = railFaults \/ RailFault
  PROVE  NotesInv'
<1>1. UNCHANGED <<note, queue, batch, sending, post, created>>
  BY DEF notes
<1>2. railFaults \in 0 .. MaxRailFaults /\ MaxRailFaults \in Nat
  BY RailAssumption DEF NotesInv, NotesTyped
<1>3. railFaults' \in 0 .. MaxRailFaults /\ railFaults' >= railFaults
  BY <1>2 DEF RailFault
<1>4. NotesTyped'
  BY <1>1, <1>3 DEF NotesInv, NotesTyped
<1>5. QueueInv'
  BY <1>1 DEF NotesInv, QueueInv, Distinct
<1>6. Distinct(batch)'
  <2>1. Distinct(batch)
    BY DEF NotesInv, BatchInv
  <2> QED
    BY <1>1, <2>1 DEF Distinct
<1>7. BatchInv'
  BY <1>1, <1>6 DEF NotesInv, BatchInv
<1>8. \A m \in Note : Done(m)' <=> Done(m)
  BY <1>1 DEF Done
<1>9. PostedInv'
  BY <1>1, <1>8 DEF NotesInv, PostedInv
<1>10. CostInv'
  <2>1. \A m \in Note : created[m] \in Nat
    BY DEF NotesInv, NotesTyped
  <2>2. sending \subseteq Note
    BY DEF NotesInv, NotesTyped
  <2>3. \A m \in Note : created'[m] <= railFaults' + 1
    BY <1>1, <1>2, <1>3, <2>1 DEF NotesInv, CostInv
  <2>4. \A m \in Note : ~Done(m)' => created'[m] <= railFaults'
    BY <1>1, <1>2, <1>3, <1>8, <2>1 DEF NotesInv, CostInv
  <2>5. batch' # <<>> /\ post'[batch'[1]] = "failed" =>
          \A m \in sending' : created'[m] <= railFaults'
    BY <1>1, <1>2, <1>3, <2>1, <2>2 DEF NotesInv, CostInv
  <2> QED
    BY <2>3, <2>4, <2>5 DEF CostInv
<1> QED
  BY <1>4, <1>5, <1>7, <1>9, <1>10 DEF NotesInv

LEMMA NotesInitially == RailInit => NotesInv
<1> SUFFICES ASSUME RailInit PROVE NotesInv
  OBVIOUS
<1>1. NotesTyped
  <2>1. ToSet(<<>>) = {}
    BY DEF ToSet
  <2> QED
    BY <2>1, RailAssumption DEF RailInit, NotesTyped
<1>2. QueueInv /\ BatchInv
  BY DEF RailInit, QueueInv, BatchInv, Distinct
<1>3. \A m \in Note : ~Done(m)
  BY DEF RailInit, Done
<1>4. PostedInv /\ CostInv
  BY <1>3 DEF RailInit, PostedInv, CostInv
<1> QED
  BY <1>1, <1>2, <1>4 DEF NotesInv

LEMMA NotesKept == NotesInv /\ [RailNext]_railVars => NotesInv'
<1> SUFFICES ASSUME NotesInv, [RailNext]_railVars PROVE NotesInv'
  OBVIOUS
<1>1. ASSUME NEW n \in Note,
             \/ AddQueued(n) \/ SendAtOnce(n) \/ RemoveQueued(n)
             \/ PostDispatch(n) \/ SentAtOnce(n)
      PROVE  NotesInv'
  BY <1>1, AddKeeps, SendKeeps, RemoveKeeps, PostKeeps, SentKeeps
<1>2. ASSUME NEW d \in Dispatch, Answer(d) PROVE NotesInv'
  BY <1>2, NotesStay DEF Answer
<1>3. CASE Beat
  BY <1>3, NotesStay DEF Beat
<1>4. CASE SyncAnnotations
  BY <1>4, NotesStay DEF SyncAnnotations
<1>5. ASSUME NEW k \in 1 .. MaxSyncs, SyncArrives(k) PROVE NotesInv'
  BY <1>5, NotesStay DEF SyncArrives
<1>6. CASE UNCHANGED railVars
  BY <1>6, NotesStay DEF railVars
<1> QED
  BY <1>1, <1>2, <1>3, <1>4, <1>5, <1>6, ClearKeeps, FlushKeeps, NextKeeps, FailKeeps DEF RailNext

LEMMA NotesAlways == RailSpec => []NotesInv
BY NotesInitially, NotesKept, PTL DEF RailSpec

(* client.ts and rail.ts flush: whatever request or answer is lost, and    *)
(* whatever is queued or removed meanwhile, a note that is taken for sent  *)
(* has a dispatch.                                                         *)
THEOREM NothingSentIsLost == RailSpec => []SentMeansPosted
<1>1. NotesInv => SentMeansPosted
  BY DEF NotesInv, PostedInv, Done, SentMeansPosted
<1> QED
  BY <1>1, NotesAlways, PTL

----------------------------------------------------------------------------
(* The rows and the lamp. *)
LEMMA RowsInitially == RailInit => RowsTyped
BY DEF RailInit, RowsTyped

LEMMA LampInitially == RailInit => LampTyped
BY DEF RailInit, LampTyped

LEMMA LampTold ==
  ASSUME LampTyped, NEW ok \in BOOLEAN, NoteTransport(ok)
  PROVE  LampTyped'
BY DEF LampTyped, NoteTransport

(* A dispatch that is made stays made. *)
LEMMA MadeGrows ==
  ASSUME NotesInv, [RailNext]_railVars
  PROVE  Made \subseteq Made'
<1>1. created \in [Note -> Nat]
  BY DEF NotesInv, NotesTyped
<1>2. \A n \in Note : created'[n] \in Nat /\ created'[n] >= created[n]
  <2>1. CASE created' = created
    BY <1>1, <2>1
  <2>2. ASSUME NEW n \in Note, PostDispatch(n)
        PROVE  \A m \in Note : created'[m] \in Nat /\ created'[m] >= created[m]
    BY <1>1, <2>2 DEF PostDispatch
  <2> QED
    BY <2>1, <2>2 DEF RailNext, AddQueued, SendAtOnce, RemoveQueued, SentAtOnce, ClearQueue, Flush,
                      SendNext, SendFails, Answer, Beat, SyncAnnotations, SyncArrives, railVars
<1>3. ASSUME NEW d \in Made PROVE d \in Made'
  <2>1. PICK n \in Note, k \in 1 .. MaxPosts : d = <<n, k>>
    BY DEF Made, Dispatch
  <2>2. k <= created[n]
    BY <2>1 DEF Made
  <2>3. k <= created'[n]
    BY <1>1, <1>2, <2>1, <2>2
  <2>4. d[1] = n /\ d[2] = k /\ d \in Dispatch
    BY <2>1 DEF Dispatch
  <2> QED
    BY <2>3, <2>4 DEF Made
<1> QED
  BY <1>3

LEMMA PendingIsMade ==
  ASSUME NotesInv, NEW n \in Note, post[n] = "ok"
  PROVE  <<n, created[n]>> \in Made
<1>1. created[n] \in Nat /\ created[n] > 0 /\ created[n] <= railFaults + 1
  BY DEF NotesInv, NotesTyped, PostedInv, CostInv, Done
<1>2. railFaults <= MaxRailFaults /\ railFaults \in Nat /\ MaxRailFaults \in Nat
  <2>1. railFaults \in 0 .. MaxRailFaults /\ MaxRailFaults \in Nat
    BY RailAssumption DEF NotesInv, NotesTyped
  <2> QED
    BY <2>1
<1>3. created[n] \in 1 .. MaxPosts
  BY <1>1, <1>2 DEF MaxPosts
<1> QED
  BY <1>1, <1>3 DEF Made, Dispatch

LEMMA RowsStay ==
  ASSUME NotesInv, RowsTyped, [RailNext]_railVars, UNCHANGED <<answered, cards, syncs>>,
         pending' \subseteq Made
  PROVE  RowsTyped'
BY MadeGrows DEF RowsTyped

LEMMA RowsKept ==
  ASSUME NotesInv, RowsTyped, [RailNext]_railVars
  PROVE  RowsTyped'
<1>1. /\ answered \subseteq Made /\ pending \subseteq Made /\ cards \subseteq Made
      /\ syncs \in Seq(SUBSET Dispatch)
      /\ \A k \in 1 .. Len(syncs) : syncs[k] \subseteq answered
  BY DEF RowsTyped
<1>2. Made \subseteq Made'
  BY MadeGrows
<1>3. CASE UNCHANGED rows
  BY <1>1, <1>3, RowsStay DEF rows
<1>4. CASE SendNext
  <2>1. PICK n : n = Head(batch)
    OBVIOUS
  <2>2. batch # <<>> /\ post[n] = "ok" /\ pending' = pending \cup {<<n, created[n]>>}
        /\ UNCHANGED <<answered, cards, syncs>>
    BY <1>4, <2>1 DEF SendNext, AddPending
  <2>3. n \in Note
    <3>1. batch \in Seq(Note)
      BY DEF NotesInv, NotesTyped
    <3> QED
      BY <2>1, <2>2, <3>1
  <2> QED
    BY <1>1, <2>2, <2>3, PendingIsMade, RowsStay
<1>5. ASSUME NEW n \in Note, SentAtOnce(n) PROVE RowsTyped'
  <2>1. /\ UNCHANGED <<answered, cards, syncs>>
        /\ \/ pending' = pending
           \/ post[n] = "ok" /\ pending' = pending \cup {<<n, created[n]>>}
    BY <1>5 DEF SentAtOnce, AddPending
  <2> QED
    BY <1>1, <2>1, PendingIsMade, RowsStay
<1>6. ASSUME NEW d \in Dispatch, Answer(d) PROVE RowsTyped'
  <2>1. /\ d \in Made /\ answered' = answered \cup {d}
        /\ UNCHANGED <<pending, cards, syncs>>
    BY <1>6 DEF Answer
  <2> QED
    BY <1>1, <1>2, <2>1 DEF RowsTyped
<1>7. CASE SyncAnnotations
  <2>1. UNCHANGED <<answered, pending, cards>> /\ syncs' \in {syncs, Append(syncs, answered)}
    BY <1>7 DEF SyncAnnotations
  <2>2. answered \in SUBSET Dispatch
    BY <1>1 DEF Made
  <2>3. syncs' \in Seq(SUBSET Dispatch)
    BY <1>1, <2>1, <2>2
  <2>4. \A k \in 1 .. Len(syncs') : syncs'[k] \subseteq answered'
    <3>1. CASE syncs' = syncs
      BY <1>1, <2>1, <3>1
    <3>2. CASE syncs' = Append(syncs, answered)
      <4>1. /\ Len(syncs') = Len(syncs) + 1 /\ Len(syncs) \in Nat
            /\ syncs'[Len(syncs) + 1] = answered
            /\ \A k \in 1 .. Len(syncs) : syncs'[k] = syncs[k]
        BY <1>1, <2>2, <3>2
      <4> QED
        BY <1>1, <2>1, <4>1
    <3> QED
      BY <2>1, <3>1, <3>2
  <2> QED
    BY <1>1, <1>2, <2>1, <2>3, <2>4 DEF RowsTyped
<1>8. ASSUME NEW k \in 1 .. MaxSyncs, SyncArrives(k) PROVE RowsTyped'
  <2>1. /\ k \in 1 .. Len(syncs) /\ cards' = syncs[k] /\ pending' = pending \ syncs[k]
        /\ syncs' = RemoveAt(syncs, k) /\ answered' = answered
    BY <1>1, <1>8 DEF SyncArrives, SetCards
  <2>2. /\ syncs' \in Seq(SUBSET Dispatch) /\ Len(syncs') = Len(syncs) - 1 /\ Len(syncs) \in Nat
        /\ \A i \in 1 .. Len(syncs) - 1 : syncs'[i] = IF i < k THEN syncs[i] ELSE syncs[i + 1]
    <3>1. /\ RemoveAt(syncs, k) \in Seq(SUBSET Dispatch) /\ Len(RemoveAt(syncs, k)) = Len(syncs) - 1
          /\ \A i \in 1 .. Len(syncs) - 1 :
               RemoveAt(syncs, k)[i] = IF i < k THEN syncs[i] ELSE syncs[i + 1]
      BY <1>1, <2>1, WithoutOne, Zenon
    <3>2. Len(syncs) \in Nat
      BY <1>1
    <3> QED
      BY <2>1, <3>1, <3>2
  <2>3. ASSUME NEW i \in 1 .. Len(syncs') PROVE syncs'[i] \subseteq answered'
    <3>1. i \in 1 .. Len(syncs) /\ i + 1 \in 1 .. Len(syncs)
      BY <2>2
    <3>2. syncs'[i] = syncs[i] \/ syncs'[i] = syncs[i + 1]
      BY <2>2
    <3> QED
      BY <1>1, <2>1, <3>1, <3>2
  <2> QED
    BY <1>1, <1>2, <2>1, <2>2, <2>3 DEF RowsTyped
<1> QED
  BY <1>3, <1>4, <1>5, <1>6, <1>7, <1>8 DEF RailNext, AddQueued, SendAtOnce, RemoveQueued,
     PostDispatch, ClearQueue, Flush, SendFails, Beat, railVars

LEMMA LampKept ==
  ASSUME NotesInv, LampTyped, [RailNext]_railVars
  PROVE  LampTyped'
<1>1. CASE UNCHANGED lampVars
  BY <1>1 DEF lampVars, LampTyped
<1>2. CASE NoteTransport(TRUE) \/ NoteTransport(FALSE)
  BY <1>2, LampTold
<1>3. CASE SendNext
  <2>1. UNCHANGED lampVars \/ NoteTransport(TRUE)
    BY <1>3, Zenon DEF SendNext
  <2> QED
    BY <1>1, <1>2, <2>1
<1>4. ASSUME NEW n \in Note, SentAtOnce(n) PROVE LampTyped'
  <2>1. NoteTransport(post[n] = "ok") /\ (post[n] = "ok") \in BOOLEAN
    BY <1>4 DEF SentAtOnce
  <2> QED
    BY <2>1, LampTold
<1>5. CASE SyncAnnotations
  BY <1>1, <1>2, <1>5 DEF SyncAnnotations
<1>6. CASE Beat
  BY <1>2, <1>6 DEF Beat
<1>7. ASSUME NEW k \in 1 .. MaxSyncs, SyncArrives(k) PROVE LampTyped'
  BY <1>2, <1>7 DEF SyncArrives
<1> QED
  BY <1>1, <1>3, <1>4, <1>5, <1>6, <1>7 DEF RailNext, AddQueued, SendAtOnce, RemoveQueued,
     PostDispatch, ClearQueue, Flush, SendFails, Answer, railVars

LEMMA RailTyped == NotesInv /\ RowsTyped /\ LampTyped => RailTypeOK
<1> SUFFICES ASSUME NotesInv, RowsTyped, LampTyped PROVE RailTypeOK
  OBVIOUS
<1>1. railFaults \in 0 .. MaxRailFaults /\ MaxRailFaults \in Nat
  BY RailAssumption DEF NotesInv, NotesTyped
<1>2. \A n \in Note : created[n] \in Nat /\ created[n] <= railFaults + 1
  BY DEF NotesInv, NotesTyped, CostInv
<1>3. \A n \in Note : created[n] \in 0 .. MaxPosts
  BY <1>1, <1>2 DEF MaxPosts
<1>4. created \in [Note -> 0 .. MaxPosts]
  BY <1>3 DEF NotesInv, NotesTyped
<1>5. \A s \in ToSet(syncs) : s \subseteq Dispatch
  <2>1. syncs \in Seq(SUBSET Dispatch)
    BY DEF RowsTyped
  <2> QED
    BY <2>1, InSeq
<1>6. answered \cup pending \cup cards \subseteq Made
  BY DEF RowsTyped
<1> QED
  BY <1>4, <1>5, <1>6 DEF NotesInv, NotesTyped, LampTyped, RailTypeOK

LEMMA RailInvAlways == RailSpec => [](NotesInv /\ RowsTyped /\ LampTyped)
<1>1. RailInit => NotesInv /\ RowsTyped /\ LampTyped
  BY NotesInitially, RowsInitially, LampInitially
<1>2. NotesInv /\ RowsTyped /\ LampTyped /\ [RailNext]_railVars
        => NotesInv' /\ RowsTyped' /\ LampTyped'
  BY NotesKept, RowsKept, LampKept
<1> QED
  BY <1>1, <1>2, PTL DEF RailSpec

(* Every row and every card is of a dispatch the daemon has made, and a    *)
(* note costs at most one dispatch more than requests were lost.           *)
THEOREM RailTypeCorrect == RailSpec => []RailTypeOK
BY RailInvAlways, RailTyped, PTL

----------------------------------------------------------------------------
(***************************************************************************)
(* The parts side by side.                                                 *)
(***************************************************************************)

(* A step of one part is a step of it, and the others stay as they are.    *)
LEMMA StepsOfParts ==
  [ProgressNext]_progressVars =>
    /\ [ScanNext]_scanVars /\ [StoreNext]_storeVars /\ [PoolNext]_poolVars
    /\ [LoadNext]_loadVars /\ [RailNext]_railVars
BY DEF ProgressNext, Aside, progressVars

(* Each part keeps its types where all of them run: the scans, the stores, *)
(* the pool, the frames and the rail.                                      *)
THEOREM ProgressTypeCorrect == ProgressSpec => []ProgressTypeOK
<1>1. ProgressInit => ScanInit /\ StoreInit /\ PoolInit /\ LoadInit /\ RailInit
  BY DEF ProgressInit
<1>2. ScanInit /\ [][ScanNext]_scanVars => []ScanTypeOK
  <2>1. ScanInv /\ [ScanNext]_scanVars => ScanInv'
    BY TypeStep, WatchStep, TriggersStep, OneInstanceStep, MutexStep DEF ScanInv
  <2>2. ScanInv => ScanTypeOK
    BY DEF ScanInv, TypeInv
  <2> QED
    BY ScanInitInv, <2>1, <2>2, PTL
<1>3. StoreInit /\ [][StoreNext]_storeVars => []StoreTypeOK
  <2>1. StoreInv => StoreTypeOK
    BY DEF StoreInv
  <2> QED
    BY StoreInitInv, StoreStep, <2>1, PTL
<1>4. PoolInit /\ [][PoolNext]_poolVars => []PoolTypeOK
  <2>1. PoolTypes => PoolTypeOK
    BY DEF PoolTypes
  <2> QED
    BY TypesInit, MatchedInitially, TypesKept, MatchedKept, <2>1, PTL
<1>5. LoadInit /\ [][LoadNext]_loadVars => []LoadTypeOK
  BY LoadInitInv, LoadInvStep, MintInitInv, MintStep, LoadTyped, PTL
<1>6. RailInit /\ [][RailNext]_railVars => []RailTypeOK
  <2>1. NotesInv /\ RowsTyped /\ LampTyped /\ [RailNext]_railVars
          => NotesInv' /\ RowsTyped' /\ LampTyped'
    BY NotesKept, RowsKept, LampKept
  <2> QED
    BY NotesInitially, RowsInitially, LampInitially, <2>1, RailTyped, PTL
<1> QED
  BY <1>1, <1>2, <1>3, <1>4, <1>5, <1>6, StepsOfParts, PTL DEF ProgressSpec, ProgressTypeOK
=============================================================================
