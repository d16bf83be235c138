----------------------------- MODULE ReviewRail -----------------------------
(***************************************************************************)
(* The review rail of one tab (chrome/rail.ts) with the requests the shell *)
(* makes for it (chrome/client.ts): notes queued and sent in a batch or at *)
(* once, the rows of dispatches that wait for the agent, the heartbeat     *)
(* that fetches the cards, and the lamp that tells of the connection.      *)
(* Requests and their answers may be lost, and two fetches of the cards    *)
(* may answer out of order.  A dispatch is a note and the number of the    *)
(* POST that made it: a note sent again is another dispatch.               *)
(***************************************************************************)
EXTENDS Naturals, FiniteSets, Sequences, SequencesExt

CONSTANTS
  Note,           \* submissions of the element composer
  MaxRailFaults,  \* bound on lost or refused requests
  MaxSyncs        \* bound on fetches of the cards under way

ASSUME RailAssumption == MaxRailFaults \in Nat /\ MaxSyncs \in Nat \ {0}

VARIABLES
  note,      \* where each note stands
  queue,     \* `queue` of the rail
  batch,     \* what the flush under way still has to send
  sending,   \* what it set out to send, {} when none is under way
  post,      \* the POST of each note
  created,   \* dispatches the daemon made of each note
  answered,  \* dispatches the agent has answered
  pending,   \* `pending` of the rail
  cards,     \* dispatches in the threads of `cardStore`
  syncs,     \* answers to GET annotations that are on their way
  missedBeats,
  lamp,
  railFaults

notes == <<note, queue, batch, sending, post>>
rows == <<answered, pending, cards, syncs>>
lampVars == <<missedBeats, lamp>>
railVars == <<notes, created, rows, lampVars, railFaults>>

MaxPosts == MaxRailFaults + 1
Dispatch == Note \X (1 .. MaxPosts)
Made == {d \in Dispatch : d[2] <= created[d[1]]}

RailTypeOK ==
  /\ note \in [Note -> {"unwritten", "queued", "removed", "at once", "failed", "sent"}]
  /\ queue \in Seq(Note)
  /\ batch \in Seq(Note)
  /\ sending \subseteq Note
  /\ ToSet(batch) \subseteq sending
  /\ post \in [Note -> {"none", "asked", "ok", "failed"}]
  /\ created \in [Note -> 0 .. MaxPosts]
  /\ answered \cup pending \cup cards \subseteq Made
  /\ \A s \in ToSet(syncs) : s \subseteq Dispatch
  /\ missedBeats \in Nat
  /\ lamp \in {"connecting", "live", "waiting", "lost"}
  /\ railFaults \in 0 .. MaxRailFaults

RailInit ==
  /\ note = [n \in Note |-> "unwritten"]
  /\ queue = <<>>
  /\ batch = <<>>
  /\ sending = {}
  /\ post = [n \in Note |-> "none"]
  /\ created = [n \in Note |-> 0]
  /\ answered = {}
  /\ pending = {}
  /\ cards = {}
  /\ syncs = <<>>
  /\ missedBeats = 0
  /\ lamp = "connecting"
  /\ railFaults = 0

RailFault == railFaults < MaxRailFaults /\ railFaults' = railFaults + 1

(* Slip: an answer ends the count of misses, and the lamp stays as it is. *)
NoteTransportUnlit(ok) ==
  /\ missedBeats' = IF ok THEN 0 ELSE missedBeats + 1
  /\ lamp' = IF ok THEN lamp ELSE IF missedBeats' >= 2 THEN "lost" ELSE "waiting"

(* noteTransport: lost only from the second miss in a row. *)
NoteTransport(ok) ==
  /\ missedBeats' = IF ok THEN 0 ELSE missedBeats + 1
  /\ lamp' = IF ok THEN "live" ELSE IF missedBeats' >= 2 THEN "lost" ELSE "waiting"

----------------------------------------------------------------------------
(* The composer.  A note is written until its images are uploaded; those   *)
(* that cannot be are left out.                                            *)

AddQueued(n) ==
  /\ note[n] = "unwritten"
  /\ note' = [note EXCEPT ![n] = "queued"]
  /\ queue' = Append(queue, n)
  /\ UNCHANGED <<batch, sending, post, created, rows, lampVars, railFaults>>

SendAtOnce(n) ==
  /\ note[n] = "unwritten"
  /\ note' = [note EXCEPT ![n] = "at once"]
  /\ post' = [post EXCEPT ![n] = "asked"]
  /\ UNCHANGED <<queue, batch, sending, created, rows, lampVars, railFaults>>

(* The cross beside a row, which a send does not disable. *)
RemoveQueued(n) ==
  /\ \E k \in DOMAIN queue : queue[k] = n /\ queue' = RemoveAt(queue, k)
  /\ note' = [note EXCEPT ![n] = "removed"]
  /\ UNCHANGED <<batch, sending, post, created, rows, lampVars, railFaults>>

ClearQueue ==
  /\ queue # <<>> /\ sending = {}
  /\ note' = [n \in Note |-> IF n \in ToSet(queue) THEN "removed" ELSE note[n]]
  /\ queue' = <<>>
  /\ UNCHANGED <<batch, sending, post, created, rows, lampVars, railFaults>>

----------------------------------------------------------------------------
(* flush: one POST after the other. *)

Flush ==
  /\ queue # <<>> /\ sending = {}
  /\ batch' = queue
  /\ sending' = ToSet(queue)
  /\ post' = [post EXCEPT ![Head(queue)] = "asked"]
  /\ UNCHANGED <<note, queue, created, rows, lampVars, railFaults>>

(* The daemon makes a dispatch of it, or refuses, or is not reached; its   *)
(* answer may be lost.                                                     *)
PostDispatch(n) ==
  /\ post[n] = "asked"
  /\ \/ /\ created' = [created EXCEPT ![n] = @ + 1]
        /\ \/ /\ post' = [post EXCEPT ![n] = "ok"]
              /\ UNCHANGED railFaults
           \/ /\ RailFault
              /\ post' = [post EXCEPT ![n] = "failed"]
     \/ /\ RailFault
        /\ post' = [post EXCEPT ![n] = "failed"]
        /\ UNCHANGED created
  /\ UNCHANGED <<note, queue, batch, sending, rows, lampVars>>

AddPending(n) == pending' = pending \cup {<<n, created[n]>>}

(* The next note, or the whole queue is done with. *)
SendNext ==
  LET n == Head(batch) IN
  /\ batch # <<>> /\ post[n] = "ok"
  /\ AddPending(n)
  /\ batch' = Tail(batch)
  /\ IF batch' # <<>>
       THEN /\ post' = [post EXCEPT ![n] = "none", ![Head(batch')] = "asked"]
            /\ UNCHANGED <<note, queue, sending, lampVars>>
       ELSE /\ post' = [post EXCEPT ![n] = "none"]
            /\ note' = [m \in Note |-> IF m \in sending THEN "sent" ELSE note[m]]
            /\ queue' = <<>>
            /\ sending' = {}
            /\ NoteTransport(TRUE)
  /\ UNCHANGED <<created, answered, cards, syncs, railFaults>>

(* Slip: a failure is passed over and the batch taken for sent. *)
SendFailsAndGoesOn ==
  LET n == Head(batch) IN
  /\ batch # <<>> /\ post[n] = "failed"
  /\ post' = [post EXCEPT ![n] = "none"]
  /\ note' = [m \in Note |-> IF m \in sending THEN "sent" ELSE note[m]]
  /\ queue' = <<>>
  /\ batch' = <<>>
  /\ sending' = {}
  /\ UNCHANGED <<created, rows, lampVars, railFaults>>

(* Slip: the rail is free for the next flush, what is left is sent still. *)
SendFailsKeepsBatch ==
  LET n == Head(batch) IN
  /\ batch # <<>> /\ post[n] = "failed"
  /\ post' = [post EXCEPT ![n] = "asked"]
  /\ sending' = {}
  /\ UNCHANGED <<note, queue, batch, created, rows, lampVars, railFaults>>

(* The first failure ends the send; every note stays in the queue, those   *)
(* already posted among them.                                              *)
SendFails ==
  LET n == Head(batch) IN
  /\ batch # <<>> /\ post[n] = "failed"
  /\ post' = [post EXCEPT ![n] = "none"]
  /\ batch' = <<>>
  /\ sending' = {}
  /\ UNCHANGED <<note, queue, created, rows, lampVars, railFaults>>

SentAtOnce(n) ==
  /\ note[n] = "at once" /\ post[n] \in {"ok", "failed"}
  /\ post' = [post EXCEPT ![n] = "none"]
  /\ IF post[n] = "ok"
       THEN AddPending(n) /\ note' = [note EXCEPT ![n] = "sent"]
       ELSE note' = [note EXCEPT ![n] = "failed"] /\ UNCHANGED pending
  /\ NoteTransport(post[n] = "ok")
  /\ UNCHANGED <<queue, batch, sending, created, answered, cards, syncs, railFaults>>

----------------------------------------------------------------------------
(* The agent, and the heartbeat's tick. *)

Answer(d) ==
  /\ d \in Made \ answered
  /\ answered' = answered \cup {d}
  /\ UNCHANGED <<notes, created, pending, cards, syncs, lampVars, railFaults>>

(* The heartbeat and the fetch are two requests; any answer to the first   *)
(* counts.                                                                 *)
Beat ==
  /\ \/ NoteTransport(TRUE) /\ UNCHANGED railFaults
     \/ NoteTransport(FALSE) /\ RailFault
  /\ UNCHANGED <<notes, created, rows>>

SyncAnnotations ==
  /\ Len(syncs) < MaxSyncs
  /\ \/ /\ syncs' = Append(syncs, answered)
        /\ UNCHANGED <<lampVars, railFaults>>
     \/ /\ NoteTransport(FALSE) /\ RailFault
        /\ UNCHANGED syncs
  /\ UNCHANGED <<notes, created, answered, pending, cards>>

(* Slip: only rows that were pending before the card first came are cleared. *)
SetCardsOnce(k) ==
  /\ cards' = syncs[k]
  /\ pending' = pending \ (syncs[k] \ cards)

SetCards(k) ==
  /\ cards' = syncs[k]
  /\ pending' = pending \ syncs[k]

SyncArrives(k) ==
  /\ k \in DOMAIN syncs
  /\ SetCards(k)
  /\ syncs' = RemoveAt(syncs, k)
  /\ NoteTransport(TRUE)
  /\ UNCHANGED <<notes, created, answered, railFaults>>

----------------------------------------------------------------------------
RailNext ==
  \/ \E n \in Note :
       \/ AddQueued(n) \/ SendAtOnce(n) \/ RemoveQueued(n)
       \/ PostDispatch(n) \/ SentAtOnce(n)
  \/ ClearQueue \/ Flush \/ SendNext \/ SendFails
  \/ \E d \in Dispatch : Answer(d)
  \/ Beat \/ SyncAnnotations
  \/ \E k \in 1 .. MaxSyncs : SyncArrives(k)

(* The interval goes on and requests end; a request that is first in line  *)
(* is not overtaken for ever.                                              *)
RailFairness ==
  /\ WF_railVars(Beat)
  /\ WF_railVars(SyncAnnotations)
  /\ WF_railVars(SyncArrives(1))
  /\ \A n \in Note : WF_railVars(PostDispatch(n)) /\ WF_railVars(SentAtOnce(n))
  /\ WF_railVars(SendNext) /\ WF_railVars(SendFails)

RailSpec == RailInit /\ [][RailNext]_railVars /\ RailFairness

----------------------------------------------------------------------------
(* RailOptions.onSend: the queue is cleared "only on resolve", "when every *)
(* entry has been POSTed": what the human has written is in the queue      *)
(* until it is sent or removed.                                            *)
QueuedTextKept ==
  \A n \in Note : note[n] = "queued" => n \in ToSet(queue) \/ created[n] > 0

(* A flush that is taken for done has made a dispatch of every note it set *)
(* out to send, whatever was lost before or added and removed meanwhile.   *)
SentMeansPosted == \A n \in Note : note[n] = "sent" => created[n] > 0

(* Every answer comes to be shown, though an older list of the cards may   *)
(* arrive after a newer one, no row waits for an answered dispatch, though *)
(* the answer may reach the rail before the row is made (Rail.addPending), *)
(* and the lamp comes back to live.                                        *)
AnswersAreShown ==
  <>[](cards = answered /\ pending \cap answered = {} /\ lamp = "live")

============================================================================
