---------------------------- MODULE OutboxProofs ----------------------------
(***************************************************************************)
(* No message of the outbox is lost, and no replay lets a row pass an      *)
(* earlier one of its conversation, for any number of conversations,       *)
(* messages, lost answers, edits, resets and reloads.                      *)
(***************************************************************************)
EXTENDS Outbox, TLAPS, WellFoundedInduction

(* What the argument needs of the types.                                   *)
Types == db \in [Row -> Status \cup {"none"}] /\ queued \in 0..MaxRow

(* Whatever makes the client delete a row, an event, an accepted request   *)
(* or the status "sent", speaks of a row that has become a turn.           *)
KnownEvent ==
  [type : {"user_message"}, row : known] \cup [type : {"turn_completed"}, row : {0}]
EventsAreKnown == wire \in Seq(KnownEvent)
SentIsKnown == \A r \in Row : db[r] = "sent" => r \in known
AcceptedIsKnown == replay = "accepted" => current \in known

IInv == Types /\ EventsAreKnown /\ SentIsKnown /\ AcceptedIsKnown /\ NothingLost

-----------------------------------------------------------------------------
(* The rows created are the same as long as queued is.                     *)
LEMMA SameRows ==
  ASSUME IInv, queued' = queued
  PROVE  Created \subseteq Row /\ Created' = Created
BY OutboxAssumption DEF IInv, Types, Created, Row

(* Steps that leave the rows of IndexedDB and the bridge alone.            *)
LEMMA OthersKeep ==
  ASSUME IInv, UNCHANGED <<db, wire, queued, known, dropped>>, AcceptedIsKnown'
  PROVE  IInv'
BY DEF IInv, Types, EventsAreKnown, KnownEvent, SentIsKnown, NothingLost, Created

(* A status put for one row that does not make it vanish, and is "sent"    *)
(* only of a row that has become a turn.                                   *)
LEMMA PutKeeps ==
  ASSUME IInv, NEW r, NEW status \in Status, status = "sent" => r \in known,
         db' = [db EXCEPT ![r] = status], UNCHANGED <<wire, queued, known>>,
         dropped \subseteq dropped' \cup {r}, AcceptedIsKnown'
  PROVE  IInv'
<1>1. db' \in [Row -> Status \cup {"none"}]
  BY DEF IInv, Types
<1>2. \A s \in Row : (s # r /\ db'[s] = db[s]) \/ (s = r /\ db'[s] = status)
  BY DEF IInv, Types
<1>3. Types' /\ EventsAreKnown'
  BY <1>1 DEF IInv, Types, EventsAreKnown, KnownEvent
<1>4. SentIsKnown'
  BY <1>2 DEF IInv, SentIsKnown
<1>5. NothingLost'
  <2>1. status # "none"
    BY DEF Status
  <2> QED
    BY <1>2, <2>1, SameRows DEF IInv, NothingLost
<1> QED
  BY <1>3, <1>4, <1>5 DEF IInv

(* Rows that leave IndexedDB, all of which have become turns or have been  *)
(* cancelled.                                                              *)
LEMMA DeletionKeeps ==
  ASSUME IInv, db' \in [Row -> Status \cup {"none"}],
         \A s \in Row : \/ db'[s] = db[s]
                        \/ db'[s] = "none" /\ s \in dropped' \cup known
                        \/ db'[s] \notin {"none", "sent"} /\ db[s] # "none",
         dropped \subseteq dropped', UNCHANGED <<known, queued>>,
         EventsAreKnown', AcceptedIsKnown'
  PROVE  IInv'
<1>1. Types'
  BY DEF IInv, Types
<1>2. SentIsKnown'
  BY DEF IInv, SentIsKnown
<1>3. NothingLost'
  BY SameRows DEF IInv, NothingLost
<1> QED
  BY <1>1, <1>2, <1>3 DEF IInv

(* A handler that is not the bridge does not accept a request.             *)
LEMMA NotAccepted ==
  ASSUME IInv, UNCHANGED known,
         (replay' = replay /\ current' = current) \/ replay' # "accepted"
  PROVE  AcceptedIsKnown'
BY DEF IInv, AcceptedIsKnown

LEMMA ReplayIsReading ==
  ASSUME NEW q, ReplayAfter(q)
  PROVE  replay' = replay \/ replay' # "accepted"
BY DEF ReplayAfter

-----------------------------------------------------------------------------
LEMMA Initially == Init => IInv
<1> SUFFICES ASSUME Init PROVE IInv
  OBVIOUS
<1>1. Types
  BY OutboxAssumption DEF Init, Types
<1>2. EventsAreKnown
  BY DEF Init, EventsAreKnown
<1>3. SentIsKnown /\ AcceptedIsKnown
  BY DEF Init, SentIsKnown, AcceptedIsKnown
<1>4. NothingLost
  BY DEF Init, NothingLost, Created
<1> QED
  BY <1>1, <1>2, <1>3, <1>4 DEF IInv

LEMMA QueueKeeps ==
  ASSUME IInv, Queue
  PROVE  IInv'
<1>1. queued + 1 \in Row /\ queued \in Nat /\ queued' = queued + 1
  BY OutboxAssumption DEF IInv, Types, Queue, Row
<1>2. db' \in [Row -> Status \cup {"none"}]
  BY DEF IInv, Types, Queue, Status
<1>3. \A s \in Row : \/ s = queued + 1 /\ db'[s] = "pending"
                     \/ s # queued + 1 /\ db'[s] = db[s]
  BY <1>1 DEF IInv, Types, Queue
<1>4. UNCHANGED <<wire, known, dropped, current, replay>>
  BY DEF Queue, bridge, history, scan
<1>5. Types'
  BY <1>1, <1>2, OutboxAssumption DEF IInv, Types, Row
<1>6. EventsAreKnown'
  BY <1>4 DEF IInv, EventsAreKnown, KnownEvent
<1>7. AcceptedIsKnown' /\ SentIsKnown'
  BY <1>3, <1>4 DEF IInv, AcceptedIsKnown, SentIsKnown
<1>8. NothingLost'
  <2>1. \A r \in Created' : r \in Row /\ (r = queued + 1 \/ r \in Created)
    BY <1>1, OutboxAssumption DEF Created, Row
  <2> QED
    BY <1>3, <1>4, <2>1 DEF IInv, NothingLost
<1> QED
  BY <1>5, <1>6, <1>7, <1>8 DEF IInv

(* mark by replayInSessionOrder.                                           *)
LEMMA MarkKeeps ==
  ASSUME IInv, NEW r, NEW status \in Status, status = "sent" => r \in known,
         Mark(r, status), UNCHANGED <<wire, queued, known, dropped>>
  PROVE  IInv'
<1>1. db' = [db EXCEPT ![r] = status] /\ replay' = "marking"
  BY DEF Mark
<1>2. AcceptedIsKnown'
  BY <1>1 DEF AcceptedIsKnown
<1> QED
  BY <1>1, <1>2, PutKeeps

LEMMA TakeItemKeeps ==
  ASSUME IInv, TakeItem
  PROVE  IInv'
<1>1. PICK r : \/ UNCHANGED <<db, io, replay, current>>
               \/ current' = r /\ Mark(r, "sending")
  BY DEF TakeItem
<1>2. UNCHANGED <<wire, queued, known, dropped>>
  BY DEF TakeItem, user, bridge, history
<1>3. CASE UNCHANGED <<db, io, replay, current>>
  BY <1>2, <1>3, NotAccepted, OthersKeep
<1>4. CASE Mark(r, "sending")
  BY <1>2, <1>4, MarkKeeps DEF Status
<1> QED
  BY <1>1, <1>3, <1>4

LEMMA ServeKeeps ==
  ASSUME IInv, Serve
  PROVE  IInv'
<1>1. UNCHANGED <<db, queued, dropped, current>>
  BY DEF Serve, rows, user, history, scan
<1>2. CASE UNCHANGED bridge /\ (replay' = "accepted" => current \in known)
  BY <1>1, <1>2, OthersKeep DEF bridge, AcceptedIsKnown
<1>3. CASE /\ known' = known \cup {current}
           /\ wire' = Append(wire, [type |-> "user_message", row |-> current])
  <2>1. wire \in Seq(KnownEvent')
    BY <1>3 DEF IInv, EventsAreKnown, KnownEvent
  <2>2. [type |-> "user_message", row |-> current] \in KnownEvent'
    BY <1>3 DEF KnownEvent
  <2>3. EventsAreKnown'
    BY <1>3, <2>1, <2>2 DEF EventsAreKnown
  <2>4. Types' /\ SentIsKnown' /\ AcceptedIsKnown'
    BY <1>1, <1>3 DEF IInv, Types, SentIsKnown, AcceptedIsKnown
  <2>5. NothingLost'
    BY <1>1, <1>3, SameRows DEF IInv, NothingLost
  <2> QED
    BY <2>3, <2>4, <2>5 DEF IInv
<1> QED
  BY <1>2, <1>3 DEF Serve

LEMMA AnswerKeeps ==
  ASSUME IInv, Answer
  PROVE  IInv'
<1>1. UNCHANGED <<wire, queued, known, dropped>>
  BY DEF Answer, user, bridge, history
<1>2. CASE UNCHANGED <<db, io>> /\ replay' = "next"
  BY <1>1, <1>2, NotAccepted, OthersKeep
<1>3. CASE Mark(current, IF replay = "accepted" THEN "sent" ELSE "waiting")
  <2>1. replay = "accepted" => current \in known
    BY DEF IInv, AcceptedIsKnown
  <2> QED
    BY <1>1, <1>3, <2>1, MarkKeeps DEF Status
<1> QED
  BY <1>2, <1>3 DEF Answer

LEMMA LostKeeps ==
  ASSUME IInv, Lost
  PROVE  IInv'
<1>1. UNCHANGED <<wire, queued, known, dropped>> /\ Mark(current, "failed")
  BY DEF Lost, user, bridge, history
<1> QED
  BY <1>1, MarkKeeps DEF Status

LEMMA TurnEndsKeeps ==
  ASSUME IInv, NEW s \in Session, TurnEnds(s)
  PROVE  IInv'
<1>1. UNCHANGED <<db, queued, known, dropped, replay, current>>
  BY DEF TurnEnds, rows, user, history, scan
<1>2. wire' = Append(wire, [type |-> "turn_completed", row |-> 0])
  BY DEF TurnEnds
<1>3. [type |-> "turn_completed", row |-> 0] \in KnownEvent
  BY DEF KnownEvent
<1>4. EventsAreKnown'
  BY <1>1, <1>2, <1>3 DEF IInv, EventsAreKnown, KnownEvent
<1> QED
  BY <1>1, <1>4, NotAccepted, DeletionKeeps DEF IInv, Types

(* acknowledgeClientIds of rows that have become turns.                    *)
LEMMA AcknowledgeKeeps ==
  ASSUME IInv, NEW rs, NEW of, rs \subseteq known, Acknowledge(rs, of),
         UNCHANGED <<known, queued, dropped, replay, current>>, EventsAreKnown'
  PROVE  IInv'
<1>1. db' = [r \in Row |-> IF r \in rs THEN "none" ELSE db[r]]
  BY DEF Acknowledge
<1>2. db' \in [Row -> Status \cup {"none"}]
  BY <1>1 DEF IInv, Types
<1> QED
  BY <1>1, <1>2, NotAccepted, DeletionKeeps

LEMMA TakeEventKeeps ==
  ASSUME IInv, TakeEvent
  PROVE  IInv'
<1>1. UNCHANGED <<queued, known, dropped, current>> /\ wire' = Tail(wire) /\ wire # <<>>
  BY DEF TakeEvent, user, scan, history
<1>2. wire \in Seq(KnownEvent)
  BY DEF IInv, EventsAreKnown
<1>3. Head(wire) \in KnownEvent /\ Tail(wire) \in Seq(KnownEvent)
  BY <1>1, <1>2
<1>4. EventsAreKnown'
  BY <1>1, <1>3 DEF EventsAreKnown, KnownEvent
<1>5. CASE Head(wire).type = "user_message"
  <2>1. Acknowledge({Head(wire).row}, "event") /\ UNCHANGED replay
    BY <1>5 DEF TakeEvent
  <2>2. {Head(wire).row} \subseteq known
    BY <1>3, <1>5 DEF KnownEvent
  <2> QED
    BY <1>1, <1>4, <2>1, <2>2, AcknowledgeKeeps
<1>6. CASE Head(wire).type # "user_message"
  <2>1. UNCHANGED db /\ ReplayAfter(io)
    BY <1>6 DEF TakeEvent
  <2>2. AcceptedIsKnown'
    BY <1>1, <2>1, ReplayIsReading, NotAccepted
  <2> QED
    BY <1>1, <1>4, <2>1, <2>2, DeletionKeeps DEF IInv, Types
<1> QED
  BY <1>5, <1>6

LEMMA ReadDetailKeeps ==
  ASSUME IInv, NEW s \in Session, ReadDetail(s)
  PROVE  IInv'
<1>1. UNCHANGED <<known, queued, dropped, replay, current, wire>>
  BY DEF ReadDetail, user, bridge, scan, history
<1>2. PICK of : Acknowledge({r \in known : SessionOf[r] = s}, of)
  BY DEF ReadDetail
<1>3. EventsAreKnown'
  BY <1>1 DEF IInv, EventsAreKnown, KnownEvent
<1> QED
  BY <1>1, <1>2, <1>3, AcknowledgeKeeps

LEMMA CancelKeeps ==
  ASSUME IInv, NEW e, CancelQueued(e)
  PROVE  IInv'
<1>1. UNCHANGED <<queued, known, wire, replay, current>> /\ dropped' = dropped \cup {e.row}
  BY DEF CancelQueued, bridge, scan
<1>2. db' = [db EXCEPT ![e.row] = "none"]
  BY DEF CancelQueued
<1>3. /\ db' \in [Row -> Status \cup {"none"}]
      /\ \A s \in Row : db'[s] = db[s] \/ (db'[s] = "none" /\ s \in dropped')
  BY <1>1, <1>2 DEF IInv, Types
<1>4. EventsAreKnown'
  BY <1>1 DEF IInv, EventsAreKnown, KnownEvent
<1> QED
  BY <1>1, <1>3, <1>4, NotAccepted, DeletionKeeps

LEMMA SaveEditKeeps ==
  ASSUME IInv, SaveEdit
  PROVE  IInv'
<1>1. UNCHANGED <<queued, known, wire, replay, current>>
  BY DEF SaveEdit, bridge, scan
<1>2. /\ db' = [db EXCEPT ![editing.row] = "pending"]
      /\ dropped' = dropped \ {editing.row}
  BY DEF SaveEdit
<1> QED
  BY <1>1, <1>2, NotAccepted, PutKeeps DEF Status

LEMMA ResetKeeps ==
  ASSUME IInv, Reset
  PROVE  IInv'
<1>1. UNCHANGED <<queued, known, dropped, replay, current>> /\ wire' = <<>>
  BY DEF Reset, user, scan
<1>2. db' = [r \in Row |-> IF r \in Kept THEN "quarantined" ELSE "none"]
  BY DEF Reset
<1>3. \A r \in Row : r \in Kept \/ db[r] = "none" \/ db[r] = "sent"
  BY DEF Kept
<1>4. \A s \in Row : \/ db'[s] = db[s]
                     \/ db'[s] = "none" /\ s \in dropped' \cup known
                     \/ db'[s] \notin {"none", "sent"} /\ db[s] # "none"
  BY <1>2, <1>3 DEF IInv, SentIsKnown, Kept
<1>5. db' \in [Row -> Status \cup {"none"}] /\ EventsAreKnown'
  BY <1>1, <1>2 DEF Status, EventsAreKnown
<1> QED
  BY <1>1, <1>4, <1>5, NotAccepted, DeletionKeeps

LEMMA ReloadKeeps ==
  ASSUME IInv, Reload
  PROVE  IInv'
<1>1. UNCHANGED <<queued, known, dropped, wire>> /\ replay' = "idle"
  BY DEF Reload, bridge, history
<1>2. db' = [r \in Row |-> IF db[r] = "sending" THEN "pending" ELSE db[r]]
  BY DEF Reload
<1>3. /\ db' \in [Row -> Status \cup {"none"}]
      /\ \A s \in Row : db'[s] = db[s] \/ (db'[s] = "pending" /\ db[s] = "sending")
  BY <1>2 DEF IInv, Types, Status
<1>4. EventsAreKnown'
  BY <1>1 DEF IInv, EventsAreKnown, KnownEvent
<1> QED
  BY <1>1, <1>3, <1>4, NotAccepted, DeletionKeeps

(* The continuations, and what happens to the socket and the page.         *)
LEMMA OtherStepsKeep ==
  ASSUME IInv,
         \/ Push \/ ReplayCalled \/ ReadItems \/ Marked \/ EndReplay \/ Acked \/ Dropped
         \/ Edited \/ GoOnline \/ Synced \/ ResetDone \/ Loaded \/ LoseSocket
         \/ (\E r \in Row : OpenEditor(r)) \/ UNCHANGED vars
  PROVE  IInv'
<1>1. UNCHANGED <<db, wire, queued, known, dropped>>
  BY DEF Push, ReplayCalled, ReadItems, Marked, EndReplay, Acked, Dropped, Edited, GoOnline,
         Synced, ResetDone, Loaded, LoseSocket, OpenEditor, vars, rows, user, bridge, history
<1>2. (replay' = replay /\ current' = current) \/ replay' # "accepted"
  <2>1. CASE ReplayCalled \/ Synced
    BY <2>1, ReplayIsReading DEF ReplayCalled, Synced, scan
  <2>2. CASE Acked
    BY <2>2, ReplayIsReading DEF Acked, scan
  <2>3. CASE ReadItems \/ Marked \/ EndReplay
    BY <2>3 DEF ReadItems, Marked, EndReplay
  <2>4. CASE \/ Push \/ Dropped \/ Edited \/ GoOnline \/ ResetDone \/ Loaded \/ LoseSocket
             \/ (\E r \in Row : OpenEditor(r)) \/ UNCHANGED vars
    BY <2>4 DEF Push, Dropped, Edited, GoOnline, ResetDone, Loaded, LoseSocket, OpenEditor,
                vars, scan
  <2> QED
    BY <2>1, <2>2, <2>3, <2>4
<1> QED
  BY <1>1, <1>2, NotAccepted, OthersKeep

LEMMA StepKeeps == IInv /\ [Next]_vars => IInv'
<1> SUFFICES ASSUME IInv, [Next]_vars PROVE IInv'
  OBVIOUS
<1>1. CASE Queue
  BY <1>1, QueueKeeps
<1>2. CASE TakeItem \/ Serve \/ Answer \/ Lost
  BY <1>2, TakeItemKeeps, ServeKeeps, AnswerKeeps, LostKeeps
<1>3. CASE TakeEvent \/ \E s \in Session : TurnEnds(s) \/ ReadDetail(s)
  BY <1>3, TakeEventKeeps, TurnEndsKeeps, ReadDetailKeeps
<1>4. CASE CancelInSheet \/ CancelInEditor
  BY <1>4, CancelKeeps DEF CancelInSheet, CancelInEditor
<1>5. CASE SaveEdit \/ Reset \/ Reload
  BY <1>5, SaveEditKeeps, ResetKeeps, ReloadKeeps
<1>6. CASE \/ Push \/ ReplayCalled \/ ReadItems \/ Marked \/ EndReplay \/ Acked \/ Dropped
           \/ Edited \/ GoOnline \/ Synced \/ ResetDone \/ Loaded \/ LoseSocket
           \/ (\E r \in Row : OpenEditor(r)) \/ UNCHANGED vars
  BY <1>6, OtherStepsKeep
<1> QED
  BY <1>1, <1>2, <1>3, <1>4, <1>5, <1>6 DEF Next, Progress

(* No message is lost: a row that has left IndexedDB has become a turn, or *)
(* the user has cancelled it (queueMessage, acknowledgeClientIds,          *)
(* cancelQueued, resetSyncState, boot).                                    *)
THEOREM NoMessageLost == Spec => []NothingLost
<1>1. IInv => NothingLost
  BY DEF IInv
<1> QED
  BY Initially, StepKeeps, <1>1, PTL DEF Spec

-----------------------------------------------------------------------------
(***************************************************************************)
(* The order of a conversation.  A row may be passed once it is Settled,   *)
(* and stays so.  What a replay reads is complete: a row that is not       *)
(* settled is among the rows read, or it is so new that its push is behind *)
(* the reading, and then no row that is newer still is in pending either   *)
(* (Ordered, Complete, ShownIn).  So a replay that comes to a row has      *)
(* settled the earlier rows, or blocks the conversation (Sorted).          *)
(***************************************************************************)
Settled == known \cup dropped \cup excused
Busy == {"marking", "posting", "accepted", "deferred"}

(* Continuations and entries that speak of the first n rows.               *)
Entries(rs) == [row : rs, status : Status] \cup {Hole}
Database(n) ==
  {f \in [Row -> Status \cup {"none"}] : \A r \in Row : f[r] # "none" => r \in 1..n}
Item(n) ==
  [kind : {"push", "edited", "dropped"}, row : 1..n]
  \cup [kind : {"replay", "reset"}]
  \cup [kind : {"items"}, rows : SUBSET (1..n)]
  \cup [kind : {"marked"}, row : 1..n, status : Status, at : Nat]
  \cup [kind : {"acked"}, rows : SUBSET (1..n), of : {"event", "detail", "settled"}]
  \cup [kind : {"loaded"}, db : Database(n)]

TypedRows ==
  /\ db \in Database(queued) /\ io \in Seq(Item(queued))
  /\ pending \in Seq(Entries(1..queued)) /\ editing \in Entries(1..queued)

TypedScan ==
  /\ replay \in {"idle", "reading", "next"} \cup Busy
  /\ todo \subseteq batch /\ batch \subseteq 1..queued /\ current \in 0..queued
  /\ replay \in Busy => current # 0
  /\ blocked \subseteq Session

TypedRest ==
  /\ queued \in 0..MaxRow /\ online \in BOOLEAN /\ syncing \in BOOLEAN
  /\ known \subseteq 1..queued /\ busy \subseteq Session /\ cancelled \subseteq 1..queued
  /\ dropped \subseteq 1..queued /\ late \subseteq 1..queued /\ excused \subseteq 1..queued

Typed == TypedRows /\ TypedScan /\ TypedRest

(* The rows a continuation will put into pending, or into a batch.         *)
Mentions(e) ==
  CASE e.kind = "push" -> {e.row}
    [] e.kind = "items" -> e.rows
    [] e.kind = "loaded" -> {r \in Row : e.db[r] # "none"}
    [] OTHER -> {}

Pushes(q, i) == q[i].kind = "push"

Ordered(q) ==
  \A i, j \in 1..Len(q) : i < j /\ Pushes(q, j) => \A r \in Mentions(q[i]) : r < q[j].row

ShownIn(q, n) == {r \in 1..n : \A i \in 1..Len(q) : Pushes(q, i) => r < q[i].row}

Complete(q, n, settled) ==
  \A i \in 1..Len(q) : q[i].kind = "items" =>
    \A r \in 1..n : \/ r \in q[i].rows \cup settled
                    \/ \E j \in 1..Len(q) : i < j /\ Pushes(q, j) /\ q[j].row = r

(* A replay waits for one continuation at most.                            *)
Calls(q, state) ==
  /\ \A i \in 1..Len(q) : /\ q[i].kind = "items" => state = "reading"
                          /\ q[i].kind = "marked" => state = "marking"
  /\ \A i, j \in 1..Len(q) :
       q[i].kind = q[j].kind /\ q[i].kind \in {"items", "marked"} => i = j

Marks ==
  \A i \in 1..Len(io) : io[i].kind = "marked" =>
    /\ io[i].row = current /\ io[i].status \in {"sending", "sent", "waiting", "failed"}
    /\ io[i].status = "sent" => current \in known
    /\ io[i].status = "sending" => Earlier(current) \subseteq Settled

Sorted ==
  \A r \in todo : \A q \in Earlier(r) :
    \/ q \in Settled \cup todo \/ SessionOf[r] \in blocked
    \/ replay \in Busy /\ q = current

(* A row that is not settled can be replayed; one in cancelledPendingIds   *)
(* is settled.                                                             *)
Open ==
  /\ \A r \in 1..queued : db[r] \in Retryable \/ r \in Settled
  /\ cancelled \subseteq dropped \cup excused

Shown ==
  LET rs == ShownIn(io, queued)
  IN pending \in Seq(Entries(rs)) /\ todo \subseteq rs /\ current \in rs \cup {0}

InOrder ==
  /\ Ordered(io) /\ Complete(io, queued, Settled) /\ Calls(io, replay)
  /\ Marks /\ Sorted /\ Open /\ Shown

(* A nonempty set of numbers has a least one.                              *)
LEMMA LeastNumber ==
  ASSUME NEW S \in SUBSET Nat, S # {}
  PROVE  \E n \in S : \A m \in S : n <= m
<1>1. PICK n \in S : \A m \in S : ~(<<m, n>> \in OpToRel(<, Nat))
  BY NatLessThanWellFounded, WFMin
<1>2. \A m \in S : ~(m < n)
  BY <1>1 DEF OpToRel
<1> QED
  BY <1>2

(* Filtered is a recursive function: f[n] is what is left of the first n   *)
(* entries.                                                                *)
FilterStep(f, s, entries, n) ==
  IF n = 0 THEN <<>> ELSE IF s[n] \in entries THEN Append(f[n - 1], s[n]) ELSE f[n - 1]
Filters(f, s, entries, m) == f = [n \in 0..m |-> FilterStep(f, s, entries, n)]

LEMMA FilterExists ==
  ASSUME NEW s, NEW entries, NEW m \in Nat
  PROVE  \E f : Filters(f, s, entries, m)
<1> DEFINE Bad == {n \in Nat : ~ \E f : Filters(f, s, entries, n)}
<1> SUFFICES ASSUME Bad # {} PROVE FALSE
  OBVIOUS
<1>1. PICK n \in Bad : \A j \in Bad : n <= j
  <2>1. Bad \in SUBSET Nat
    OBVIOUS
  <2> QED
    BY <2>1, LeastNumber
<1>2. CASE n = 0
  <2> DEFINE f == [i \in 0..0 |-> <<>>]
  <2>1. \A i \in 0..0 : FilterStep(f, s, entries, i) = <<>>
    BY DEF FilterStep
  <2>2. Filters(f, s, entries, 0)
    BY <2>1 DEF Filters
  <2> QED
    BY <1>1, <1>2, <2>2
<1>3. CASE n # 0
  <2>1. n - 1 \in Nat /\ n - 1 \notin Bad
    BY <1>1, <1>3
  <2>2. PICK f : Filters(f, s, entries, n - 1)
    BY <2>1
  <2> DEFINE g == [i \in 0..n |-> IF i = n THEN FilterStep(f, s, entries, n) ELSE f[i]]
  <2>3. \A i \in 0..n : FilterStep(g, s, entries, i) = g[i]
    <3> TAKE i \in 0..n
    <3>1. CASE i = 0
      BY <1>3, <2>1, <2>2, <3>1 DEF FilterStep, Filters
    <3>2. CASE i # 0
      <4>1. i - 1 \in 0..(n - 1) /\ g[i - 1] = f[i - 1]
        BY <3>2
      <4>2. FilterStep(g, s, entries, i) = FilterStep(f, s, entries, i)
        BY <3>2, <4>1 DEF FilterStep
      <4>3. i # n => f[i] = FilterStep(f, s, entries, i)
        BY <2>1, <2>2 DEF Filters
      <4> QED
        BY <4>2, <4>3
    <3> QED
      BY <3>1, <3>2
  <2>4. Filters(g, s, entries, n)
    BY <2>3 DEF Filters
  <2> QED
    BY <1>1, <2>4
<1> QED
  BY <1>2, <1>3

(* What is left after filtering are entries of both.                       *)
LEMMA FilteredIn ==
  ASSUME NEW S, NEW s \in Seq(S), NEW entries
  PROVE  Filtered(s, entries) \in Seq(S \cap entries)
<1>1. Len(s) \in Nat /\ \A i \in 1..Len(s) : s[i] \in S
  OBVIOUS
<1>2. PICK f : Filters(f, s, entries, Len(s)) /\ Filtered(s, entries) = f[Len(s)]
  <2> DEFINE F == CHOOSE f : Filters(f, s, entries, Len(s))
  <2>1. Filters(F, s, entries, Len(s))
    BY <1>1, FilterExists
  <2>2. Filtered(s, entries) = F[Len(s)]
    BY DEF Filtered, Filters, FilterStep
  <2> QED
    BY <2>1, <2>2
<1> DEFINE Bad == {n \in 0..Len(s) : f[n] \notin Seq(S \cap entries)}
<1>3. Bad = {}
  <2> SUFFICES ASSUME Bad # {} PROVE FALSE
    OBVIOUS
  <2>1. PICK n \in Bad : \A j \in Bad : n <= j
    <3>1. Bad \in SUBSET Nat
      BY <1>1
    <3> QED
      BY <3>1, LeastNumber
  <2>a. n \in 0..Len(s) /\ n \in Nat /\ f[n] \notin Seq(S \cap entries)
    BY <1>1, <2>1
  <2>2. n \in 0..Len(s) /\ n \in Nat /\ f[n] = FilterStep(f, s, entries, n)
    BY <1>2, <2>a DEF Filters
  <2>3. CASE n = 0
    <3>1. f[n] = <<>>
      BY <2>2, <2>3 DEF FilterStep
    <3>2. f[n] \in Seq(S \cap entries)
      BY <3>1
    <3> QED
      BY <2>a, <3>2
  <2>4. CASE n # 0
    <3>1. n - 1 \in 0..Len(s) /\ n - 1 \notin Bad
      <4>1. n - 1 \in 0..Len(s) /\ ~(n <= n - 1)
        BY <1>1, <2>2, <2>4
      <4> HIDE DEF Bad
      <4> QED
        BY <2>1, <4>1
    <3>2. f[n - 1] \in Seq(S \cap entries) /\ s[n] \in S
      BY <1>1, <2>2, <2>4, <3>1
    <3>3. f[n] \in Seq(S \cap entries)
      <4>1. CASE s[n] \in entries
        <5>1. f[n] = Append(f[n - 1], s[n]) /\ s[n] \in S \cap entries
          BY <2>2, <2>4, <3>2, <4>1 DEF FilterStep
        <5> QED
          BY <3>2, <5>1
      <4>2. CASE s[n] \notin entries
        BY <2>2, <2>4, <3>2, <4>2 DEF FilterStep
      <4> QED
        BY <4>1, <4>2
    <3> QED
      BY <2>1, <3>3
  <2> QED
    BY <2>3, <2>4
<1> QED
  BY <1>1, <1>2, <1>3

LEMMA Wider ==
  ASSUME NEW S, NEW T, S \subseteq T, NEW s \in Seq(S)
  PROVE  s \in Seq(T)
OBVIOUS

LEMMA AssignIn ==
  ASSUME NEW S, pending \in Seq(S), Hole \in S, NEW e \in S, NEW i \in Nat \ {0}
  PROVE  Assign(i, e) \in Seq(S)
<1>1. Len(pending) \in Nat /\ \A j \in 1..Len(pending) : pending[j] \in S
  OBVIOUS
<1> DEFINE n == IF i > Len(pending) THEN i ELSE Len(pending)
<1>2. n \in Nat
  BY <1>1
<1>3. Assign(i, e) = [j \in 1..n |->
                        IF j = i THEN e ELSE IF j <= Len(pending) THEN pending[j] ELSE Hole]
  BY DEF Assign
<1>4. \A j \in 1..n :
        (IF j = i THEN e ELSE IF j <= Len(pending) THEN pending[j] ELSE Hole) \in S
  BY <1>1
<1> HIDE DEF n
<1> QED
  BY <1>2, <1>3, <1>4

LEMMA IndexFacts ==
  ASSUME NEW S, pending \in Seq(S), NEW r
  PROVE  /\ Index(r) \in 0..Len(pending)
         /\ Index(r) # 0 => pending[Index(r)].row = r
<1> DEFINE Found == {i \in 1..Len(pending) : pending[i].row = r}
           First(i) == pending[i].row = r /\ \A j \in 1..(i - 1) : pending[j].row # r
<1>1. Len(pending) \in Nat
  OBVIOUS
<1>2. CASE Found = {}
  <2>1. Index(r) = 0
    BY <1>2 DEF Index
  <2> QED
    BY <1>1, <2>1
<1>3. CASE Found # {}
  <2>1. PICK i \in Found : \A j \in Found : i <= j
    <3>1. Found \in SUBSET Nat
      BY <1>1
    <3> QED
      BY <1>3, <3>1, LeastNumber
  <2>2. i \in 1..Len(pending) /\ First(i)
    BY <1>1, <2>1
  <2>3. Index(r) = CHOOSE j \in 1..Len(pending) : First(j)
    BY <1>3 DEF Index
  <2> HIDE DEF First
  <2>4. Index(r) \in 1..Len(pending) /\ First(Index(r))
    BY <2>2, <2>3
  <2> QED
    BY <1>1, <2>4 DEF First
<1> QED
  BY <1>2, <1>3

LEMMA TypedOK == Typed => TypeOK
<1> SUFFICES ASSUME Typed PROVE TypeOK
  OBVIOUS
<1>1. 1..queued \subseteq Row /\ queued \in Nat
  BY OutboxAssumption DEF Typed, TypedRest, Row
<1>2. Entries(1..queued) \subseteq Entry \cup {Hole}
  BY <1>1 DEF Entries, Entry
<1>3. pending \in Seq(Entry \cup {Hole})
  BY <1>2, Wider DEF Typed, TypedRows
<1> QED
  BY <1>1, <1>2, <1>3 DEF Typed, TypedRows, TypedScan, TypedRest, Database, Busy, TypeOK

(* What the first continuation carries.                                    *)
LEMMA HeadTyped ==
  ASSUME Typed, NEW kind, Continue(kind)
  PROVE  /\ io # <<>> /\ Head(io).kind = kind
         /\ Tail(io) \in Seq(Item(queued))
         /\ kind \in {"push", "edited", "dropped", "marked"} => Head(io).row \in 1..queued
         /\ kind = "items" => Head(io).rows \subseteq 1..queued
         /\ kind = "marked" => Head(io).status \in Status /\ Head(io).at \in Nat
         /\ kind = "loaded" => Head(io).db \in Database(queued)
<1>1. io \in Seq(Item(queued)) /\ io # <<>> /\ Head(io).kind = kind
  BY DEF Typed, TypedRows, Continue
<1>2. Head(io) \in Item(queued) /\ Tail(io) \in Seq(Item(queued))
  BY <1>1
<1> QED
  BY <1>1, <1>2 DEF Item

LEMMA AppendItem ==
  ASSUME NEW n \in Nat, NEW q \in Seq(Item(n)), NEW e \in Item(n)
  PROVE  Append(q, e) \in Seq(Item(n))
OBVIOUS

(* replayOutbox begins, or not.                                            *)
LEMMA ReplayTyped ==
  ASSUME Typed, NEW q \in Seq(Item(queued)), ReplayAfter(q), UNCHANGED <<queued, scan>>
  PROVE  io' \in Seq(Item(queued)) /\ TypedScan'
<1>1. queued \in Nat
  BY OutboxAssumption DEF Typed, TypedRest
<1>2. [kind |-> "items", rows |-> {r \in Row : db[r] \in Retryable}] \in Item(queued)
  BY DEF Typed, TypedRows, Database, Retryable, Item
<1> QED
  BY <1>1, <1>2, AppendItem DEF ReplayAfter, Typed, TypedScan, scan, Busy

(* mark up to its await.                                                   *)
LEMMA MarkTyped ==
  ASSUME Typed, NEW r \in 1..queued, NEW status \in Status, Mark(r, status),
         UNCHANGED queued
  PROVE  db' \in Database(queued) /\ io' \in Seq(Item(queued))
<1>1. queued \in Nat
  BY OutboxAssumption DEF Typed, TypedRest
<1>2. Index(r) \in Nat
  <2>1. Len(pending) \in Nat /\ Index(r) \in 0..Len(pending)
    BY IndexFacts DEF Typed, TypedRows
  <2> QED
    BY <2>1
<1>3. [kind |-> "marked", row |-> r, status |-> status, at |-> Index(r)] \in Item(queued)
  BY <1>2 DEF Item
<1>4. io' \in Seq(Item(queued))
  BY <1>1, <1>3, AppendItem DEF Mark, Typed, TypedRows
<1>5. db' \in Database(queued)
  BY DEF Mark, Typed, TypedRows, Database
<1> QED
  BY <1>4, <1>5

(* Row by row: steps of the replay.                                        *)
LEMMA ReplayStepsTyped ==
  ASSUME Typed, [Next]_vars, TakeItem \/ Answer \/ Lost \/ Serve \/ EndReplay
  PROVE  Typed'
<1>0. UNCHANGED <<queued, pending, editing>>
  BY DEF TakeItem, Answer, Lost, Serve, EndReplay, rows, user
<1>1. CASE TakeItem
  <2>1. PICK r \in todo : /\ todo' = todo \ {r}
                          /\ \/ UNCHANGED <<db, io, replay, current>>
                             \/ current' = r /\ Mark(r, "sending")
    BY <1>1 DEF TakeItem
  <2>2. r \in 1..queued
    BY DEF Typed, TypedScan
  <2>3. UNCHANGED <<batch, blocked, cancelled, online, syncing, known, busy, dropped, late, excused>>
    BY <1>1 DEF TakeItem, user, net, bridge, history
  <2>4. CASE UNCHANGED <<db, io, replay, current>>
    BY <1>0, <2>1, <2>3, <2>4 DEF Typed, TypedRows, TypedScan, TypedRest
  <2>5. CASE current' = r /\ Mark(r, "sending")
    <3>1. db' \in Database(queued) /\ io' \in Seq(Item(queued)) /\ replay' = "marking"
      BY <1>0, <2>2, <2>5, MarkTyped DEF Status, Mark
    <3>2. r \in 0..queued /\ r # 0
      BY <2>2, OutboxAssumption DEF Typed, TypedRest
    <3> QED
      BY <1>0, <2>1, <2>3, <2>5, <3>1, <3>2 DEF Typed, TypedRows, TypedScan, TypedRest, Busy
  <2> QED
    BY <2>1, <2>4, <2>5
<1>2. CASE Answer \/ Lost
  <2>1. current \in 1..queued /\ current # 0
    BY <1>2, OutboxAssumption DEF Answer, Lost, Typed, TypedScan, TypedRest, Busy
  <2>2. UNCHANGED <<scan, cancelled, online, syncing, known, busy, dropped, late>>
    BY <1>2 DEF Answer, Lost, user, net, bridge, history
  <2>3. excused' = excused \/ excused' = excused \cup {current}
    BY <1>2 DEF Answer, Lost, history
  <2>4. \/ UNCHANGED <<db, io>> /\ replay' = "next"
        \/ \E status \in Status : Mark(current, status)
    BY <1>2 DEF Answer, Lost, Status
  <2>5. db' \in Database(queued) /\ io' \in Seq(Item(queued)) /\ replay' \in {"next", "marking"}
    BY <1>0, <2>1, <2>4, MarkTyped DEF Mark, Typed, TypedRows
  <2>6. TypedScan'
    BY <1>0, <2>1, <2>2, <2>5 DEF Typed, TypedScan, Busy, scan
  <2>7. TypedRest'
    BY <1>0, <2>1, <2>2, <2>3 DEF Typed, TypedRest
  <2> QED
    BY <1>0, <2>5, <2>6, <2>7 DEF Typed, TypedRows
<1>3. CASE Serve
  <2>1. current \in 1..queued
    BY <1>3, OutboxAssumption DEF Serve, Typed, TypedScan, TypedRest, Busy
  <2>2. SessionOf[current] \in Session
    BY <2>1, OutboxAssumption DEF Row, Typed, TypedRest
  <2>3. UNCHANGED <<rows, io, scan, user, net, history>> /\ replay' \in {"accepted", "deferred"}
    BY <1>3 DEF Serve
  <2>4. known' \subseteq known \cup {current} /\ busy' \subseteq busy \cup {SessionOf[current]}
    BY <1>3 DEF Serve, bridge
  <2> QED
    BY <2>1, <2>2, <2>3, <2>4
       DEF Typed, TypedRows, TypedScan, TypedRest, Busy, rows, scan, user, net, history
<1>4. CASE EndReplay
  <2>1. 0 \in 0..queued
    BY OutboxAssumption DEF Typed, TypedRest
  <2> QED
    BY <1>4, <2>1 DEF EndReplay, Typed, TypedRows, TypedScan, TypedRest, Busy, rows, net, bridge, history
<1> QED
  BY <1>1, <1>2, <1>3, <1>4

(* What is left of pending, or assigned to it, are entries of the same     *)
(* rows.                                                                   *)
LEMMA WithoutIn ==
  ASSUME NEW R, pending \in Seq(Entries(R)), NEW rs
  PROVE  Without(rs) \in Seq(Entries(R))
<1> DEFINE left == {e \in Entry \cup {Hole} : e.row \notin rs}
<1>1. Filtered(pending, left) \in Seq(Entries(R) \cap left)
  BY FilteredIn
<1>2. Filtered(pending, left) \in Seq(Entries(R))
  <2> HIDE DEF left
  <2>1. Entries(R) \cap left \subseteq Entries(R)
    OBVIOUS
  <2> QED
    BY <1>1, <2>1, Wider
<1> QED
  BY <1>2 DEF Without

LEMMA AppendIn ==
  ASSUME NEW R, pending \in Seq(Entries(R)), NEW r \in R, NEW status \in Status
  PROVE  Append(pending, [row |-> r, status |-> status]) \in Seq(Entries(R))
<1>1. [row |-> r, status |-> status] \in Entries(R)
  BY DEF Entries
<1> QED
  BY <1>1

LEMMA WriteIn ==
  ASSUME NEW R, pending \in Seq(Entries(R)), NEW r \in R, NEW status \in Status,
         NEW i \in Nat \ {0}
  PROVE  Assign(i, [row |-> r, status |-> status]) \in Seq(Entries(R))
<1>1. [row |-> r, status |-> status] \in Entries(R) /\ Hole \in Entries(R)
  BY DEF Entries
<1> QED
  BY <1>1, AssignIn

(* pending read anew from IndexedDB.                                       *)
LEMMA LoadIn ==
  ASSUME NEW n \in 0..MaxRow, NEW f \in Database(n), NEW R, {r \in Row : f[r] # "none"} \subseteq R
  PROVE  Filtered([r \in Row |-> [row |-> r, status |-> f[r]]], Entry) \in Seq(Entries(R))
<1> DEFINE all == [row : Row, status : Status \cup {"none"}]
           Live == {[row |-> r, status |-> f[r]] : r \in Row}
           s == [r \in Row |-> [row |-> r, status |-> f[r]]]
<1>1. s \in Seq(Live)
  <2>1. Row = 1..MaxRow /\ MaxRow \in Nat
    BY OutboxAssumption DEF Row
  <2>2. \A r \in 1..MaxRow : s[r] \in Live
    BY <2>1
  <2> QED
    BY <2>1, <2>2
<1>2. Live \cap Entry \subseteq Entries(R)
  BY DEF Entry, Entries, Status
<1> HIDE DEF Live, s
<1>3. Filtered(s, Entry) \in Seq(Live \cap Entry)
  BY <1>1, FilteredIn
<1>4. Filtered(s, Entry) \in Seq(Entries(R))
  BY <1>2, <1>3, Wider
<1> QED
  BY <1>4 DEF s

LEMMA EntryFacts ==
  ASSUME NEW R, pending \in Seq(Entries(R)), NEW i \in 1..Len(pending)
  PROVE  pending[i] \in Entries(R) /\ (pending[i] # Hole => pending[i].row \in R)
<1>1. pending[i] \in Entries(R)
  OBVIOUS
<1> QED
  BY <1>1 DEF Entries

(* The continuations.                                                      *)
LEMMA ContinuationsTyped ==
  ASSUME Typed, Calls(io, replay), [Next]_vars,
         Push \/ ReplayCalled \/ ReadItems \/ Marked \/ Acked \/ Dropped \/ Edited
         \/ ResetDone \/ Loaded
  PROVE  Typed'
<1>0. /\ UNCHANGED <<queued, editing, online, syncing, known, busy, dropped, late, excused, db>>
      /\ queued \in Nat
  BY OutboxAssumption DEF Push, ReplayCalled, ReadItems, Marked, Acked, Dropped, Edited, ResetDone,
       Loaded, rows, user, net, bridge, history, Typed, TypedRest
<1>1. [kind |-> "replay"] \in Item(queued)
  BY DEF Item
<1>2. CASE Push
  <2>1. Head(io).row \in 1..queued /\ Tail(io) \in Seq(Item(queued))
    BY <1>2, HeadTyped DEF Push
  <2>2. io' \in Seq(Item(queued))
    BY <1>0, <1>1, <1>2, <2>1, AppendItem DEF Push
  <2>3. pending' \in Seq(Entries(1..queued))
    BY <1>2, <2>1, AppendIn DEF Push, Typed, TypedRows, Status
  <2> QED
    BY <1>0, <1>2, <2>2, <2>3 DEF Push, Typed, TypedRows, TypedScan, TypedRest, scan, user
<1>3. CASE ReplayCalled
  <2>1. Tail(io) \in Seq(Item(queued))
    BY <1>3, HeadTyped DEF ReplayCalled
  <2>2. io' \in Seq(Item(queued)) /\ TypedScan'
    BY <1>3, <2>1, ReplayTyped DEF ReplayCalled, user
  <2> QED
    BY <1>0, <1>3, <2>2 DEF ReplayCalled, Typed, TypedRows, TypedRest, rows, user
<1>4. CASE ReadItems
  <2>1. Head(io).rows \subseteq 1..queued /\ Tail(io) \in Seq(Item(queued))
    BY <1>4, HeadTyped DEF ReadItems
  <2>2. \A i \in 1..Len(pending) : pending[i].status \in Retryable => pending[i].row \in 1..queued
    <3> SUFFICES ASSUME NEW i \in 1..Len(pending), pending[i].status \in Retryable
                 PROVE  pending[i].row \in 1..queued
      OBVIOUS
    <3>1. pending[i] # Hole
      BY DEF Hole, Retryable
    <3> QED
      BY <3>1, EntryFacts DEF Typed, TypedRows
  <2>3. batch' \subseteq 1..queued /\ todo' = batch' /\ replay' \in {"idle", "next"}
    BY <1>4, <2>1, <2>2 DEF ReadItems
  <2> QED
    BY <1>0, <1>4, <2>1, <2>3
       DEF ReadItems, Typed, TypedRows, TypedScan, TypedRest, Busy, rows, user
<1>5. CASE Marked
  <2>1. /\ Head(io).row \in 1..queued /\ Head(io).status \in Status /\ Head(io).at \in Nat
        /\ Tail(io) \in Seq(Item(queued))
    BY <1>5, HeadTyped DEF Marked
  <2>2. SessionOf[Head(io).row] \in Session
    BY <2>1, OutboxAssumption DEF Row, Typed, TypedRest
  <2>3. blocked' \subseteq Session
    BY <1>5, <2>2 DEF Marked, BlockedBy, Typed, TypedScan
  <2>4. pending' \in Seq(Entries(1..queued))
    <3>1. CASE Head(io).at > 0
      <4>1. Head(io).at \in Nat \ {0} /\ pending \in Seq(Entries(1..queued))
        BY <2>1, <3>1 DEF Typed, TypedRows
      <4>2. Assign(Head(io).at, [row |-> Head(io).row, status |-> Head(io).status])
              \in Seq(Entries(1..queued))
        BY <2>1, <4>1, WriteIn
      <4> QED
        BY <1>5, <3>1, <4>2 DEF Marked
    <3>2. CASE ~(Head(io).at > 0)
      BY <1>5, <2>1, <3>2, AppendIn DEF Marked, Typed, TypedRows
    <3> QED
      BY <3>1, <3>2
  <2>5. replay' \in {"posting", "next"} /\ io' = Tail(io) /\ UNCHANGED <<batch, todo, current, cancelled>>
    BY <1>5 DEF Marked, user
  <2>6. current # 0
    <3>1. 1 \in 1..Len(io) /\ io[1].kind = "marked"
      BY <1>5, HeadTyped DEF Marked, Typed, TypedRows
    <3> QED
      BY <3>1 DEF Calls, Typed, TypedScan, Busy
  <2> QED
    BY <1>0, <2>1, <2>3, <2>4, <2>5, <2>6 DEF Typed, TypedRows, TypedScan, TypedRest, Busy
<1>6. CASE Acked
  <2>1. Tail(io) \in Seq(Item(queued))
    BY <1>6, HeadTyped DEF Acked
  <2>2. io' \in Seq(Item(queued)) /\ TypedScan'
    BY <1>0, <1>6, <2>1, ReplayTyped DEF Acked, Typed, TypedScan, scan
  <2>3. pending' \in Seq(Entries(1..queued))
    BY <1>6, WithoutIn DEF Acked, Typed, TypedRows
  <2> QED
    BY <1>0, <1>6, <2>2, <2>3 DEF Acked, Typed, TypedRows, TypedRest, user
<1>7. CASE Dropped
  <2>1. Tail(io) \in Seq(Item(queued))
    BY <1>7, HeadTyped DEF Dropped
  <2>2. pending' \in Seq(Entries(1..queued))
    BY <1>7, WithoutIn DEF Dropped, Typed, TypedRows
  <2>3. cancelled' \subseteq cancelled
    BY <1>7 DEF Dropped, StillCancelled
  <2> QED
    BY <1>0, <1>7, <2>1, <2>2, <2>3 DEF Dropped, Typed, TypedRows, TypedScan, TypedRest, scan
<1>8. CASE Edited
  <2>1. Head(io).row \in 1..queued /\ Tail(io) \in Seq(Item(queued))
    BY <1>8, HeadTyped DEF Edited
  <2>2. io' \in Seq(Item(queued))
    BY <1>0, <1>1, <1>8, <2>1, AppendItem DEF Edited
  <2>3. Index(Head(io).row) \in Nat
    <3>1. Len(pending) \in Nat /\ Index(Head(io).row) \in 0..Len(pending)
      BY IndexFacts DEF Typed, TypedRows
    <3> QED
      BY <3>1
  <2>4. pending' \in Seq(Entries(1..queued))
    BY <1>8, <2>1, <2>3, WriteIn DEF Edited, Typed, TypedRows, Status
  <2> QED
    BY <1>0, <1>8, <2>2, <2>4 DEF Edited, Typed, TypedRows, TypedScan, TypedRest, scan, user
<1>9. CASE ResetDone
  <2>1. [kind |-> "loaded", db |-> db] \in Item(queued) /\ Tail(io) \in Seq(Item(queued))
    BY <1>9, HeadTyped DEF ResetDone, Item, Typed, TypedRows
  <2>2. io' \in Seq(Item(queued))
    BY <1>0, <1>9, <2>1, AppendItem DEF ResetDone
  <2> QED
    BY <1>0, <1>9, <2>2 DEF ResetDone, Typed, TypedRows, TypedScan, TypedRest, rows, scan, user
<1>10. CASE Loaded
  <2>1. Head(io).db \in Database(queued) /\ Tail(io) \in Seq(Item(queued))
    BY <1>10, HeadTyped DEF Loaded
  <2>2. {r \in Row : Head(io).db[r] # "none"} \subseteq 1..queued /\ queued \in 0..MaxRow
    BY <2>1 DEF Database, Typed, TypedRest
  <2>3. pending' \in Seq(Entries(1..queued))
    BY <1>10, <2>1, <2>2, LoadIn DEF Loaded
  <2> QED
    BY <1>0, <1>10, <2>1, <2>3 DEF Loaded, Typed, TypedRows, TypedScan, TypedRest, scan, user
<1> QED
  BY <1>2, <1>3, <1>4, <1>5, <1>6, <1>7, <1>8, <1>9, <1>10

(* Events and details.                                                     *)
LEMMA AcknowledgeTyped ==
  ASSUME Typed, NEW rs \in SUBSET (1..queued), NEW of \in {"event", "detail", "settled"},
         Acknowledge(rs, of), UNCHANGED queued
  PROVE  db' \in Database(queued) /\ io' \in Seq(Item(queued))
<1>1. queued \in Nat /\ [kind |-> "acked", rows |-> rs, of |-> of] \in Item(queued)
  BY OutboxAssumption DEF Typed, TypedRest, Item
<1>2. io' \in Seq(Item(queued))
  BY <1>1, AppendItem DEF Acknowledge, Typed, TypedRows
<1>3. db' \in Database(queued)
  BY DEF Acknowledge, Typed, TypedRows, Database
<1> QED
  BY <1>2, <1>3

LEMMA BridgeStepsTyped ==
  ASSUME Typed, IInv, [Next]_vars,
         TakeEvent \/ Synced \/ (\E s \in Session : TurnEnds(s) \/ ReadDetail(s))
  PROVE  Typed'
<1>0. UNCHANGED <<queued, editing, pending, cancelled, dropped, late, excused, known, scan>>
  BY DEF TakeEvent, Synced, TurnEnds, ReadDetail, rows, user, bridge, history
<1>1. CASE TakeEvent \/ \E s \in Session : ReadDetail(s)
  <2>1. \/ \E rs \in SUBSET known, of \in {"event", "detail", "settled"} : Acknowledge(rs, of)
           /\ UNCHANGED replay
        \/ ReplayAfter(io) /\ UNCHANGED db
    <3>1. CASE TakeEvent
      <4>1. Head(wire).type = "user_message" => Head(wire).row \in known
        <5>1. Head(wire) \in KnownEvent
          BY <3>1 DEF TakeEvent, IInv, EventsAreKnown
        <5> QED
          BY <5>1 DEF KnownEvent
      <4> QED
        BY <3>1, <4>1 DEF TakeEvent
    <3>2. ASSUME NEW s \in Session, ReadDetail(s)
          PROVE  \E rs \in SUBSET known, of \in {"event", "detail", "settled"} :
                   Acknowledge(rs, of) /\ UNCHANGED replay
      BY <3>2 DEF ReadDetail
    <3> QED
      BY <1>1, <3>1, <3>2
  <2>2. db' \in Database(queued) /\ io' \in Seq(Item(queued)) /\ TypedScan'
    <3>1. ASSUME NEW rs \in SUBSET known, NEW of \in {"event", "detail", "settled"},
                 Acknowledge(rs, of), UNCHANGED replay
          PROVE  db' \in Database(queued) /\ io' \in Seq(Item(queued)) /\ TypedScan'
      <4>1. rs \in SUBSET (1..queued)
        BY DEF Typed, TypedRest
      <4> QED
        BY <1>0, <3>1, <4>1, AcknowledgeTyped DEF Typed, TypedScan, scan
    <3>2. CASE ReplayAfter(io) /\ UNCHANGED db
      BY <1>0, <3>2, ReplayTyped DEF Typed, TypedRows
    <3> QED
      BY <2>1, <3>1, <3>2
  <2>3. UNCHANGED <<online, syncing, busy>>
    BY <1>1 DEF TakeEvent, ReadDetail, net, bridge
  <2> QED
    BY <1>0, <2>2, <2>3 DEF Typed, TypedRows, TypedRest
<1>2. CASE Synced
  <2>1. io' \in Seq(Item(queued)) /\ TypedScan'
    BY <1>0, <1>2, ReplayTyped DEF Synced, Typed, TypedRows
  <2> QED
    BY <1>0, <1>2, <2>1 DEF Synced, Typed, TypedRows, TypedRest, rows, bridge
<1>3. ASSUME NEW s \in Session, TurnEnds(s) PROVE Typed'
  BY <1>0, <1>3 DEF TurnEnds, Typed, TypedRows, TypedScan, TypedRest, rows, net, scan
<1> QED
  BY <1>1, <1>2, <1>3

(* The user.                                                               *)
LEMMA UserStepsTyped ==
  ASSUME Typed, [Next]_vars,
         CancelInSheet \/ CancelInEditor \/ SaveEdit \/ (\E r \in Row : OpenEditor(r))
  PROVE  Typed'
<1>0. UNCHANGED <<queued, pending, known, busy, online, syncing, replay, scan>>
  BY DEF CancelInSheet, CancelInEditor, CancelQueued, SaveEdit, OpenEditor, rows, user, net, bridge
<1>1. queued \in Nat /\ Hole \in Entries(1..queued)
  BY OutboxAssumption DEF Typed, TypedRest, Entries
<1>2. TypedScan'
  BY <1>0 DEF Typed, TypedScan, scan
<1>3. ASSUME NEW e \in Entries(1..queued), CancelQueued(e)
      PROVE  /\ db' \in Database(queued) /\ io' \in Seq(Item(queued))
             /\ cancelled' \subseteq 1..queued /\ dropped' \subseteq 1..queued
             /\ late' \subseteq 1..queued /\ UNCHANGED excused
  <2>1. e.row \in 1..queued
    BY <1>3 DEF CancelQueued, Entries
  <2>2. [kind |-> "dropped", row |-> e.row] \in Item(queued)
    BY <2>1 DEF Item
  <2>3. io' \in Seq(Item(queued))
    BY <1>1, <1>3, <2>2, AppendItem DEF CancelQueued, Typed, TypedRows
  <2>4. db' \in Database(queued)
    BY <1>3 DEF CancelQueued, Typed, TypedRows, Database
  <2> QED
    BY <1>3, <2>1, <2>3, <2>4 DEF CancelQueued, Typed, TypedRest
<1>4. CASE CancelInSheet \/ CancelInEditor
  <2>1. \E e \in Entries(1..queued) : CancelQueued(e)
    BY <1>4, EntryFacts DEF CancelInSheet, CancelInEditor, Typed, TypedRows
  <2>2. editing' \in Entries(1..queued)
    BY <1>1, <1>4 DEF CancelInSheet, CancelInEditor, Typed, TypedRows
  <2> QED
    BY <1>0, <1>2, <1>3, <2>1, <2>2 DEF Typed, TypedRows, TypedRest
<1>5. CASE SaveEdit
  <2>1. editing.row \in 1..queued
    BY <1>5 DEF SaveEdit, Typed, TypedRows, Entries
  <2>2. [kind |-> "edited", row |-> editing.row] \in Item(queued)
    BY <2>1 DEF Item
  <2>3. io' \in Seq(Item(queued))
    BY <1>1, <1>5, <2>2, AppendItem DEF SaveEdit, Typed, TypedRows
  <2>4. db' \in Database(queued)
    BY <1>5, <2>1 DEF SaveEdit, Typed, TypedRows, Database, Status
  <2> QED
    BY <1>0, <1>1, <1>2, <1>5, <2>1, <2>3, <2>4 DEF SaveEdit, Typed, TypedRows, TypedRest
<1>6. ASSUME NEW r \in Row, OpenEditor(r) PROVE Typed'
  <2>1. Index(r) \in 1..Len(pending)
    <3>1. Len(pending) \in Nat /\ Index(r) \in 0..Len(pending)
      BY IndexFacts DEF Typed, TypedRows
    <3> QED
      BY <1>6, <3>1 DEF OpenEditor
  <2>2. editing' \in Entries(1..queued)
    BY <1>6, <2>1, EntryFacts DEF OpenEditor, Typed, TypedRows
  <2> QED
    BY <1>0, <1>2, <1>6, <2>2 DEF OpenEditor, Typed, TypedRows, TypedRest, rows, history
<1> QED
  BY <1>4, <1>5, <1>6

(* The network, the stream and the page.                                   *)
LEMMA PageStepsTyped ==
  ASSUME Typed, [Next]_vars, LoseSocket \/ GoOnline \/ Reset \/ Reload \/ UNCHANGED vars
  PROVE  Typed'
<1>0. UNCHANGED <<queued, known, busy, dropped, late>> /\ queued \in Nat
  BY OutboxAssumption DEF LoseSocket, GoOnline, Reset, Reload, vars, user, bridge, history, Typed, TypedRest
<1>1. CASE LoseSocket \/ GoOnline \/ UNCHANGED vars
  <2>1. UNCHANGED <<rows, io, replay, scan, user, excused>>
    BY <1>1 DEF LoseSocket, GoOnline, vars, history
  <2>2. online' \in BOOLEAN /\ syncing' \in BOOLEAN
    BY <1>1 DEF LoseSocket, GoOnline, vars, net, Typed, TypedRest
  <2> QED
    BY <1>0, <2>1, <2>2 DEF Typed, TypedRows, TypedScan, TypedRest, rows, scan, user
<1>2. CASE Reset
  <2>1. Kept \subseteq 1..queued
    BY DEF Kept, Typed, TypedRows, Database
  <2>2. db' \in Database(queued)
    BY <1>2, <2>1 DEF Reset, Typed, TypedRows, Database, Status
  <2>3. io' \in Seq(Item(queued))
    <3>1. [kind |-> "reset"] \in Item(queued)
      BY DEF Item
    <3> QED
      BY <1>0, <1>2, <3>1, AppendItem DEF Reset, Typed, TypedRows
  <2> QED
    BY <1>0, <1>2, <2>1, <2>2, <2>3 DEF Reset, Typed, TypedRows, TypedScan, TypedRest, scan, user
<1>3. CASE Reload
  <2>1. db' \in Database(queued)
    BY <1>3 DEF Reload, Typed, TypedRows, Database, Status
  <2>2. io' \in Seq(Item(queued))
    <3>1. [kind |-> "loaded", db |-> db'] \in Item(queued)
      BY <2>1 DEF Item
    <3> QED
      BY <1>3, <3>1 DEF Reload
  <2>3. pending' \in Seq(Entries(1..queued)) /\ editing' \in Entries(1..queued)
    BY <1>3 DEF Reload, Entries
  <2>4. TypedScan'
    BY <1>0, <1>3 DEF Reload, TypedScan, Busy
  <2>5. TypedRest'
    BY <1>0, <1>3 DEF Reload, Typed, TypedRest, bridge, history
  <2> QED
    BY <1>0, <2>1, <2>2, <2>3, <2>4, <2>5 DEF Typed, TypedRows
<1> QED
  BY <1>1, <1>2, <1>3

(* A new row.                                                              *)
LEMMA QueueTyped ==
  ASSUME Typed, [Next]_vars, Queue
  PROVE  Typed'
<1> DEFINE n == queued + 1
<1>0. /\ n \in 1..MaxRow /\ n \in Row /\ queued' = n /\ n \in Nat /\ 1..queued \subseteq 1..n
      /\ n \in 1..n /\ 0..queued \subseteq 0..n
  BY OutboxAssumption DEF Queue, Typed, TypedRest, Row
<1> HIDE DEF n
<1>1. /\ db' = [db EXCEPT ![n] = "pending"]
      /\ io' = Append(io, [kind |-> "push", row |-> n])
      /\ UNCHANGED <<pending, replay, scan, cancelled, editing, net, bridge, history>>
  BY DEF Queue, n
<1>2. db' \in Database(n)
  BY <1>0, <1>1 DEF Typed, TypedRows, Database, Status
<1>3. io' \in Seq(Item(n))
  <2>1. Database(queued) \subseteq Database(n)
    BY <1>0 DEF Database
  <2>2. Item(queued) \subseteq Item(n)
    BY <1>0, <2>1 DEF Item
  <2>3. io \in Seq(Item(n)) /\ [kind |-> "push", row |-> n] \in Item(n)
    BY <1>0, <2>2, Wider DEF Typed, TypedRows, Item
  <2> QED
    BY <1>0, <1>1, <2>3, AppendItem
<1>4. pending' \in Seq(Entries(1..n)) /\ editing' \in Entries(1..n)
  <2>1. Entries(1..queued) \subseteq Entries(1..n)
    BY <1>0 DEF Entries
  <2> QED
    BY <1>1, <2>1, Wider DEF Typed, TypedRows
<1>5. TypedScan'
  BY <1>0, <1>1 DEF Typed, TypedScan, scan
<1>6. TypedRest'
  BY <1>0, <1>1 DEF Typed, TypedRest, net, bridge, history
<1> QED
  BY <1>0, <1>2, <1>3, <1>4, <1>5, <1>6 DEF Typed, TypedRows

LEMMA TypedStep ==
  ASSUME Typed, Calls(io, replay), IInv, [Next]_vars
  PROVE  Typed'
BY ReplayStepsTyped, ContinuationsTyped, BridgeStepsTyped, UserStepsTyped, PageStepsTyped,
   QueueTyped DEF Next, Progress

-----------------------------------------------------------------------------
(* The line of continuations: its first leaves, another joins at the end.  *)
LEMMA TailLine ==
  ASSUME NEW n \in Nat, NEW q \in Seq(Item(n)), q # <<>>, NEW settled
  PROVE  /\ Ordered(q) => Ordered(Tail(q))
         /\ Ordered(q) => \A r \in Mentions(Head(q)) : r \in 1..n => r \in ShownIn(Tail(q), n)
         /\ ShownIn(q, n) \subseteq ShownIn(Tail(q), n)
         /\ Complete(q, n, settled) => Complete(Tail(q), n, settled)
<1> DEFINE t == Tail(q)
<1>1. /\ Len(q) \in Nat /\ Len(t) \in Nat /\ Head(q) = q[1] /\ 1 \in 1..Len(q)
      /\ \A i \in 1..Len(t) : i + 1 \in 1..Len(q) /\ t[i] = q[i + 1] /\ 1 < i + 1
      /\ \A i \in 1..Len(q) : i > 1 => i - 1 \in 1..Len(t) /\ t[i - 1] = q[i]
  OBVIOUS
<1> HIDE DEF t
<1>2. ASSUME Ordered(q) PROVE Ordered(t)
  <2> SUFFICES ASSUME NEW i \in 1..Len(t), NEW j \in 1..Len(t), i < j, Pushes(t, j),
                      NEW r \in Mentions(t[i])
               PROVE  r < t[j].row
    BY DEF Ordered
  <2>1. i + 1 < j + 1 /\ Pushes(q, j + 1) /\ r \in Mentions(q[i + 1])
    BY <1>1 DEF Pushes
  <2>2. i + 1 \in 1..Len(q) /\ j + 1 \in 1..Len(q) /\ t[j] = q[j + 1]
    BY <1>1
  <2> QED
    BY <1>2, <2>1, <2>2 DEF Ordered
<1>3. ASSUME Ordered(q), NEW r \in Mentions(Head(q)), r \in 1..n PROVE r \in ShownIn(t, n)
  <2> SUFFICES ASSUME NEW i \in 1..Len(t), Pushes(t, i) PROVE r < t[i].row
    BY <1>3 DEF ShownIn
  <2>1. Pushes(q, i + 1) /\ i + 1 \in 1..Len(q) /\ t[i] = q[i + 1] /\ 1 < i + 1
    BY <1>1 DEF Pushes
  <2> QED
    BY <1>1, <1>3, <2>1 DEF Ordered
<1>4. ShownIn(q, n) \subseteq ShownIn(t, n)
  BY <1>1 DEF ShownIn, Pushes
<1>5. ASSUME Complete(q, n, settled) PROVE Complete(t, n, settled)
  <2> SUFFICES ASSUME NEW i \in 1..Len(t), t[i].kind = "items", NEW r \in 1..n,
                      r \notin t[i].rows \cup settled
               PROVE  \E j \in 1..Len(t) : i < j /\ Pushes(t, j) /\ t[j].row = r
    BY DEF Complete
  <2>1. i + 1 \in 1..Len(q) /\ q[i + 1].kind = "items" /\ r \notin q[i + 1].rows \cup settled
    BY <1>1
  <2>2. PICK j \in 1..Len(q) : i + 1 < j /\ Pushes(q, j) /\ q[j].row = r
    BY <1>5, <2>1 DEF Complete
  <2>3. j - 1 \in 1..Len(t) /\ t[j - 1] = q[j] /\ i < j - 1
    BY <1>1, <2>2
  <2> QED
    BY <2>2, <2>3 DEF Pushes
<1> QED
  BY <1>2, <1>3, <1>4, <1>5 DEF t

LEMMA AppendLine ==
  ASSUME NEW n \in Nat, NEW q \in Seq(Item(n)), NEW e \in Item(n), e.kind # "push", NEW settled
  PROVE  /\ Ordered(q) => Ordered(Append(q, e))
         /\ ShownIn(Append(q, e), n) = ShownIn(q, n)
         /\ /\ Complete(q, n, settled)
            /\ e.kind = "items" => 1..n \subseteq e.rows \cup settled
            => Complete(Append(q, e), n, settled)
<1> DEFINE t == Append(q, e)
<1>1. /\ Len(q) \in Nat /\ Len(t) = Len(q) + 1 /\ t[Len(q) + 1] = e
      /\ \A i \in 1..Len(q) : i \in 1..Len(t) /\ t[i] = q[i]
      /\ \A i \in 1..Len(t) : i \in 1..Len(q) \/ i = Len(q) + 1
  OBVIOUS
<1> HIDE DEF t
<1>2. \A i \in 1..Len(t) : Pushes(t, i) => i \in 1..Len(q) /\ Pushes(q, i)
  BY <1>1 DEF Pushes
<1>3. ASSUME Ordered(q) PROVE Ordered(t)
  <2> SUFFICES ASSUME NEW i \in 1..Len(t), NEW j \in 1..Len(t), i < j, Pushes(t, j)
               PROVE  \A r \in Mentions(t[i]) : r < t[j].row
    BY DEF Ordered
  <2>1. j \in 1..Len(q) /\ i \in 1..Len(q)
    BY <1>1, <1>2
  <2> QED
    BY <1>1, <1>2, <1>3, <2>1 DEF Ordered
<1>4. ShownIn(t, n) = ShownIn(q, n)
  BY <1>1, <1>2 DEF ShownIn, Pushes
<1>5. ASSUME Complete(q, n, settled), e.kind = "items" => 1..n \subseteq e.rows \cup settled
      PROVE  Complete(t, n, settled)
  <2> SUFFICES ASSUME NEW i \in 1..Len(t), t[i].kind = "items", NEW r \in 1..n,
                      r \notin t[i].rows \cup settled
               PROVE  \E j \in 1..Len(t) : i < j /\ Pushes(t, j) /\ t[j].row = r
    BY DEF Complete
  <2>1. i \in 1..Len(q)
    BY <1>1, <1>5
  <2>2. PICK j \in 1..Len(q) : i < j /\ Pushes(q, j) /\ q[j].row = r
    BY <1>1, <1>5, <2>1 DEF Complete
  <2> QED
    BY <1>1, <2>2 DEF Pushes
<1> QED
  BY <1>3, <1>4, <1>5 DEF t

(* The push of a row that is new.                                          *)
LEMMA PushLine ==
  ASSUME NEW n \in Nat, NEW q \in Seq(Item(n)), NEW e, e.kind = "push", e.row = n + 1, NEW settled
  PROVE  /\ Ordered(q) => Ordered(Append(q, e))
         /\ ShownIn(q, n) \subseteq ShownIn(Append(q, e), n + 1)
         /\ Complete(q, n, settled) => Complete(Append(q, e), n + 1, settled)
<1> DEFINE t == Append(q, e)
<1>1. /\ Len(q) \in Nat /\ Len(t) = Len(q) + 1 /\ t[Len(q) + 1] = e
      /\ \A i \in 1..Len(q) : i \in 1..Len(t) /\ t[i] = q[i] /\ q[i] \in Item(n)
      /\ \A i \in 1..Len(t) : i \in 1..Len(q) \/ i = Len(q) + 1
  OBVIOUS
<1> HIDE DEF t
<1>2. \A i \in 1..Len(q) : \A r \in Mentions(q[i]) : r \in 1..n
  <2>1. \A f \in Item(n) : \A r \in Mentions(f) : r \in 1..n
    BY DEF Item, Mentions, Database
  <2> QED
    BY <1>1, <2>1
<1>3. ASSUME Ordered(q) PROVE Ordered(t)
  <2> SUFFICES ASSUME NEW i \in 1..Len(t), NEW j \in 1..Len(t), i < j, Pushes(t, j),
                      NEW r \in Mentions(t[i])
               PROVE  r < t[j].row
    BY DEF Ordered
  <2>1. i \in 1..Len(q) /\ t[i] = q[i]
    BY <1>1
  <2>2. CASE j \in 1..Len(q)
    BY <1>1, <1>3, <2>1, <2>2 DEF Ordered, Pushes
  <2>3. CASE j = Len(q) + 1
    <3>1. r \in 1..n /\ t[j].row = n + 1
      BY <1>1, <1>2, <2>1, <2>3
    <3> QED
      BY <3>1
  <2> QED
    BY <1>1, <2>2, <2>3
<1>4. ShownIn(q, n) \subseteq ShownIn(t, n + 1)
  <2> SUFFICES ASSUME NEW r \in ShownIn(q, n) PROVE r \in ShownIn(t, n + 1)
    OBVIOUS
  <2>1. r \in 1..n /\ r \in 1..(n + 1) /\ r < n + 1
    BY DEF ShownIn
  <2>2. ASSUME NEW i \in 1..Len(t), Pushes(t, i) PROVE r < t[i].row
    BY <1>1, <2>1, <2>2 DEF ShownIn, Pushes
  <2> QED
    BY <2>1, <2>2 DEF ShownIn
<1>5. ASSUME Complete(q, n, settled) PROVE Complete(t, n + 1, settled)
  <2> SUFFICES ASSUME NEW i \in 1..Len(t), t[i].kind = "items", NEW r \in 1..(n + 1),
                      r \notin t[i].rows \cup settled
               PROVE  \E j \in 1..Len(t) : i < j /\ Pushes(t, j) /\ t[j].row = r
    BY DEF Complete
  <2>1. i \in 1..Len(q) /\ t[i] = q[i]
    BY <1>1
  <2>2. CASE r \in 1..n
    <3>1. PICK j \in 1..Len(q) : i < j /\ Pushes(q, j) /\ q[j].row = r
      BY <1>5, <2>1, <2>2 DEF Complete
    <3> QED
      BY <1>1, <3>1 DEF Pushes
  <2>3. CASE r = n + 1
    <3>1. i < Len(q) + 1 /\ Len(q) + 1 \in 1..Len(t)
      BY <1>1, <2>1
    <3> QED
      BY <1>1, <2>3, <3>1 DEF Pushes
  <2> QED
    BY <2>2, <2>3
<1> QED
  BY <1>3, <1>4, <1>5 DEF t

LEMMA CompleteStays ==
  ASSUME NEW q, NEW n, NEW settled, NEW more, Complete(q, n, settled), settled \subseteq more
  PROVE  Complete(q, n, more)
BY DEF Complete

LEMMA CallsLine ==
  ASSUME NEW S, NEW q \in Seq(S), NEW state, Calls(q, state)
  PROVE  /\ q # <<>> => Calls(Tail(q), state)
         /\ q # <<>> /\ Head(q).kind \in {"items", "marked"} => \A s : Calls(Tail(q), s)
         /\ state \notin {"reading", "marking"} => \A s : Calls(q, s)
         /\ \A e \in S : /\ e.kind \notin {"items", "marked"} => Calls(Append(q, e), state)
                         /\ state \notin {"reading", "marking"} =>
                              /\ e.kind = "items" => Calls(Append(q, e), "reading")
                              /\ e.kind = "marked" => Calls(Append(q, e), "marking")
<1>1. Len(q) \in Nat
  OBVIOUS
<1>2. ASSUME q # <<>>
      PROVE  /\ Calls(Tail(q), state)
             /\ Head(q).kind \in {"items", "marked"} => \A s : Calls(Tail(q), s)
  <2> DEFINE t == Tail(q)
  <2>1. /\ Head(q) = q[1] /\ 1 \in 1..Len(q)
        /\ \A i \in 1..Len(t) : i + 1 \in 1..Len(q) /\ t[i] = q[i + 1] /\ 1 # i + 1
        /\ \A i, j \in 1..Len(t) : i + 1 = j + 1 => i = j
    BY <1>2
  <2> HIDE DEF t
  <2>2. Calls(t, state)
    BY <2>1 DEF Calls
  <2>3. ASSUME Head(q).kind \in {"items", "marked"}
        PROVE  \A i \in 1..Len(t) : t[i].kind \notin {"items", "marked"}
    <3> SUFFICES ASSUME NEW i \in 1..Len(t), t[i].kind \in {"items", "marked"} PROVE FALSE
      OBVIOUS
    <3>1. i + 1 \in 1..Len(q) /\ q[i + 1].kind = t[i].kind /\ 1 # i + 1
      BY <2>1
    <3>2. q[1].kind = q[i + 1].kind
      BY <2>1, <2>3, <3>1 DEF Calls
    <3> QED
      BY <2>1, <3>1, <3>2 DEF Calls
  <2> QED
    BY <2>2, <2>3 DEF t, Calls
<1>3. ASSUME state \notin {"reading", "marking"}
      PROVE  \A i \in 1..Len(q) : q[i].kind \notin {"items", "marked"}
  BY <1>3 DEF Calls
<1>4. ASSUME NEW e \in S
      PROVE  /\ e.kind \notin {"items", "marked"} => Calls(Append(q, e), state)
             /\ state \notin {"reading", "marking"} =>
                  /\ e.kind = "items" => Calls(Append(q, e), "reading")
                  /\ e.kind = "marked" => Calls(Append(q, e), "marking")
  <2> DEFINE t == Append(q, e)
  <2>1. /\ Len(t) = Len(q) + 1 /\ t[Len(q) + 1] = e
        /\ \A i \in 1..Len(t) : (i \in 1..Len(q) /\ t[i] = q[i]) \/ i = Len(q) + 1
    BY <1>1
  <2> HIDE DEF t
  <2>2. e.kind \notin {"items", "marked"} => Calls(t, state)
    BY <2>1 DEF Calls
  <2>3. ASSUME state \notin {"reading", "marking"}
        PROVE  /\ e.kind = "items" => Calls(t, "reading")
               /\ e.kind = "marked" => Calls(t, "marking")
    BY <1>3, <2>1, <2>3 DEF Calls
  <2> QED
    BY <2>2, <2>3 DEF t
<1> QED
  BY <1>2, <1>3, <1>4 DEF Calls

(* A line that continues the present one.                                  *)
LineOk(q) ==
  /\ q \in Seq(Item(queued)) /\ Ordered(q) /\ Complete(q, queued, Settled)
  /\ ShownIn(io, queued) \subseteq ShownIn(q, queued)
  /\ \A i \in 1..Len(q) : q[i].kind = "marked" => \E j \in 1..Len(io) : q[i] = io[j]

LEMMA LineFacts ==
  ASSUME Typed, InOrder
  PROVE  /\ queued \in Nat
         /\ LineOk(io)
         /\ io # <<>> => LineOk(Tail(io))
<1>1. queued \in Nat /\ io \in Seq(Item(queued)) /\ Len(io) \in Nat
  BY OutboxAssumption DEF Typed, TypedRows, TypedRest
<1>2. LineOk(io)
  BY <1>1 DEF LineOk, InOrder
<1>3. ASSUME io # <<>> PROVE LineOk(Tail(io))
  <2>1. Tail(io) \in Seq(Item(queued))
    BY <1>1, <1>3
  <2>2. \A i \in 1..Len(Tail(io)) : i + 1 \in 1..Len(io) /\ Tail(io)[i] = io[i + 1]
    BY <1>1, <1>3
  <2> QED
    BY <1>1, <1>3, <2>1, <2>2, TailLine DEF LineOk, InOrder
<1> QED
  BY <1>1, <1>2, <1>3

LEMMA LineGrows ==
  ASSUME Typed, NEW q, LineOk(q), NEW e \in Item(queued), e.kind \notin {"push", "marked"},
         e.kind = "items" => 1..queued \subseteq e.rows \cup Settled
  PROVE  LineOk(Append(q, e))
<1>1. queued \in Nat /\ q \in Seq(Item(queued))
  BY OutboxAssumption DEF Typed, TypedRest, LineOk
<1>2. Append(q, e) \in Seq(Item(queued))
  BY <1>1, AppendItem
<1>3. \A i \in 1..Len(Append(q, e)) :
        (i \in 1..Len(q) /\ Append(q, e)[i] = q[i]) \/ Append(q, e)[i] = e
  BY <1>1
<1> QED
  BY <1>1, <1>2, <1>3, AppendLine DEF LineOk

(* A step that leaves the rows to come as they are.                        *)
LEMMA OrderFrame ==
  ASSUME Typed, InOrder, LineOk(io'), Calls(io', replay'),
         UNCHANGED <<queued, todo, current>>, blocked \subseteq blocked',
         known \subseteq known', Settled \subseteq Settled',
         replay \in Busy => \/ replay' \in Busy \/ current \in Settled'
                            \/ SessionOf[current] \in blocked',
         Open', pending' \in Seq(Entries(ShownIn(io', queued)))
  PROVE  InOrder'
<1>1. Ordered(io') /\ Complete(io', queued, Settled')
  BY CompleteStays DEF LineOk
<1>2. Marks'
  <2> SUFFICES ASSUME NEW i \in 1..Len(io'), io'[i].kind = "marked"
               PROVE  /\ io'[i].row = current
                      /\ io'[i].status \in {"sending", "sent", "waiting", "failed"}
                      /\ io'[i].status = "sent" => current \in known'
                      /\ io'[i].status = "sending" => Earlier(current) \subseteq Settled'
    BY DEF Marks, Earlier, Created
  <2>1. PICK j \in 1..Len(io) : io'[i] = io[j]
    BY DEF LineOk
  <2> QED
    BY <2>1 DEF InOrder, Marks
<1>3. Sorted'
  <2> SUFFICES ASSUME NEW r \in todo, NEW q \in Earlier(r)
               PROVE  \/ q \in Settled' \cup todo \/ SessionOf[r] \in blocked'
                      \/ replay' \in Busy /\ q = current
    BY DEF Sorted, Earlier, Created
  <2>1. \/ q \in Settled \cup todo \/ SessionOf[r] \in blocked
        \/ replay \in Busy /\ q = current
    BY DEF InOrder, Sorted
  <2>2. SessionOf[q] = SessionOf[r]
    BY DEF Earlier
  <2> QED
    BY <2>1, <2>2
<1>4. Shown'
  BY DEF InOrder, Shown, LineOk
<1> QED
  BY <1>1, <1>2, <1>3, <1>4 DEF InOrder

(* A replay that begins reads every row that is not settled.               *)
LEMMA ReplayLine ==
  ASSUME Typed, InOrder, NEW q, LineOk(q), Calls(q, replay), ReplayAfter(q)
  PROVE  /\ LineOk(io') /\ Calls(io', replay')
         /\ replay \in Busy => replay' \in Busy
<1>1. CASE io' = q /\ UNCHANGED replay
  BY <1>1
<1>2. CASE /\ replay = "idle" /\ replay' = "reading"
           /\ io' = Append(q, [kind |-> "items", rows |-> {r \in Row : db[r] \in Retryable}])
  <2> DEFINE rs == {r \in Row : db[r] \in Retryable}
             e == [kind |-> "items", rows |-> rs]
  <2>1. queued \in 0..MaxRow /\ db \in Database(queued)
    BY DEF Typed, TypedRows, TypedRest
  <2>2. rs \subseteq 1..queued
    BY <2>1 DEF Database, Retryable
  <2>3. 1..queued \subseteq rs \cup Settled
    <3>1. 1..queued \subseteq Row
      BY <2>1, OutboxAssumption DEF Row
    <3> QED
      BY <3>1 DEF InOrder, Open
  <2>4. e \in Item(queued) /\ e.kind = "items" /\ e.rows = rs
    BY <2>2 DEF Item
  <2> HIDE DEF e, rs
  <2>5. LineOk(Append(q, e))
    BY <2>3, <2>4, LineGrows
  <2>6. Calls(Append(q, e), "reading")
    <3>1. q \in Seq(Item(queued))
      BY DEF LineOk
    <3> QED
      BY <1>2, <2>4, <3>1, CallsLine
  <2> QED
    BY <1>2, <2>5, <2>6 DEF e, rs, Busy
<1> QED
  BY <1>1, <1>2 DEF ReplayAfter

(* A continuation that calls replayOutbox, or reads the database.          *)
LEMMA ItemLine ==
  ASSUME Typed, NEW q, LineOk(q), NEW state, Calls(q, state), NEW e \in Item(queued),
         e.kind \notin {"push", "items", "marked"}
  PROVE  LineOk(Append(q, e)) /\ Calls(Append(q, e), state)
<1>1. q \in Seq(Item(queued))
  BY DEF LineOk
<1> QED
  BY <1>1, LineGrows, CallsLine

LEMMA HeadLine ==
  ASSUME Typed, InOrder, NEW kind, Continue(kind)
  PROVE  /\ io # <<>> /\ Head(io).kind = kind
         /\ LineOk(Tail(io)) /\ Calls(Tail(io), replay)
         /\ kind \in {"items", "marked"} => \A s : Calls(Tail(io), s)
         /\ \A r \in Mentions(Head(io)) : r \in 1..queued => r \in ShownIn(Tail(io), queued)
<1>1. io # <<>> /\ Head(io).kind = kind
  BY DEF Continue
<1>2. queued \in Nat /\ io \in Seq(Item(queued))
  BY LineFacts DEF Typed, TypedRows
<1> QED
  BY <1>1, <1>2, LineFacts, CallsLine, TailLine DEF InOrder

LEMMA OpenStays ==
  ASSUME Open, UNCHANGED queued, Settled \subseteq Settled', cancelled' \subseteq dropped' \cup excused',
         \A r \in 1..queued : db'[r] = db[r] \/ db'[r] \in Retryable \/ r \in Settled'
  PROVE  Open'
BY DEF Open

LEMMA OpenAsIs ==
  ASSUME InOrder, UNCHANGED <<db, queued, dropped, excused>>, known \subseteq known',
         cancelled' \subseteq cancelled
  PROVE  Open' /\ Settled \subseteq Settled'
<1>1. Settled \subseteq Settled'
  BY DEF Settled
<1> QED
  BY <1>1, OpenStays DEF InOrder, Open

(* pending as it is, under a line that is LineOk.                          *)
LEMMA ShownStays ==
  ASSUME InOrder, NEW q, LineOk(q)
  PROVE  pending \in Seq(Entries(ShownIn(q, queued)))
<1>1. Entries(ShownIn(io, queued)) \subseteq Entries(ShownIn(q, queued))
  BY DEF LineOk, Entries
<1> QED
  BY <1>1, Wider DEF InOrder, Shown

(* Steps that leave the line as it is.                                     *)
LEMMA QuietOrder ==
  ASSUME Typed, InOrder,
         \/ Serve \/ LoseSocket \/ GoOnline \/ UNCHANGED vars
         \/ \E s \in Session : TurnEnds(s)
         \/ \E r \in Row : OpenEditor(r)
  PROVE  InOrder'
<1>1. /\ UNCHANGED <<db, pending, io, todo, current, blocked, cancelled, queued, dropped, excused>>
      /\ known \subseteq known'
      /\ UNCHANGED replay \/ (replay = "posting" /\ replay' \in Busy)
  BY DEF Serve, LoseSocket, GoOnline, vars, TurnEnds, OpenEditor, rows, scan, user, bridge,
         history, Busy
<1>2. LineOk(io')
  BY <1>1, LineFacts
<1>3. Calls(io', replay')
  <2>1. Calls(io, replay) /\ io \in Seq(Item(queued))
    BY DEF InOrder, Typed, TypedRows
  <2>2. replay = "posting" => Calls(io, replay')
    BY <2>1, CallsLine
  <2> QED
    BY <1>1, <2>1, <2>2
<1>4. Open' /\ Settled \subseteq Settled'
  BY <1>1, OpenAsIs
<1>5. pending' \in Seq(Entries(ShownIn(io', queued)))
  BY <1>1, <1>2, ShownStays
<1> QED
  BY <1>1, <1>2, <1>3, <1>4, <1>5, OrderFrame

(* Continuations that leave pending as it is, and replays that begin.      *)
LEMMA CalledOrder ==
  ASSUME Typed, InOrder, ReplayCalled \/ Synced \/ ResetDone
  PROVE  InOrder'
<1>1. UNCHANGED <<db, pending, todo, current, blocked, cancelled, queued, known, dropped, excused>>
  BY DEF ReplayCalled, Synced, ResetDone, rows, scan, user, bridge, history
<1>2. LineOk(io') /\ Calls(io', replay') /\ (replay \in Busy => replay' \in Busy)
  <2>1. CASE ReplayCalled
    BY <2>1, HeadLine, ReplayLine DEF ReplayCalled
  <2>2. CASE Synced
    BY <2>2, LineFacts, ReplayLine DEF Synced, InOrder
  <2>3. CASE ResetDone
    <3> DEFINE e == [kind |-> "loaded", db |-> db]
    <3>1. e \in Item(queued) /\ e.kind = "loaded"
      BY DEF Item, Typed, TypedRows
    <3> HIDE DEF e
    <3>2. LineOk(Tail(io)) /\ Calls(Tail(io), replay)
      BY <2>3, HeadLine DEF ResetDone
    <3> QED
      BY <2>3, <3>1, <3>2, ItemLine DEF ResetDone, e
  <2> QED
    BY <2>1, <2>2, <2>3
<1>3. Open' /\ Settled \subseteq Settled'
  BY <1>1, OpenAsIs
<1>4. pending' \in Seq(Entries(ShownIn(io', queued)))
  BY <1>1, <1>2, ShownStays
<1> QED
  BY <1>1, <1>2, <1>3, <1>4, OrderFrame

(* Continuations that write pending.                                       *)
LEMMA WrittenOrder ==
  ASSUME Typed, InOrder, Push \/ Edited \/ Acked \/ Dropped \/ Loaded
  PROVE  InOrder'
<1>1. /\ UNCHANGED <<db, todo, current, blocked, queued, known, dropped, excused>>
      /\ cancelled' \subseteq cancelled
  BY DEF Push, Edited, Acked, Dropped, Loaded, StillCancelled, scan, user, bridge, history
<1>2. LineOk(io') /\ Calls(io', replay') /\ (replay \in Busy => replay' \in Busy)
  <2>1. CASE Push \/ Edited
    <3> DEFINE e == [kind |-> "replay"]
    <3>1. e \in Item(queued) /\ e.kind = "replay"
      BY DEF Item
    <3> HIDE DEF e
    <3>2. LineOk(Tail(io)) /\ Calls(Tail(io), replay)
      BY <2>1, HeadLine DEF Push, Edited
    <3> QED
      BY <2>1, <3>1, <3>2, ItemLine DEF Push, Edited, e
  <2>2. CASE Acked
    BY <2>2, HeadLine, ReplayLine DEF Acked
  <2>3. CASE Dropped \/ Loaded
    BY <2>3, HeadLine DEF Dropped, Loaded
  <2> QED
    BY <2>1, <2>2, <2>3
<1>3. Open' /\ Settled \subseteq Settled'
  BY <1>1, OpenAsIs
<1>4. pending' \in Seq(Entries(ShownIn(io', queued)))
  <2> DEFINE R == ShownIn(io', queued)
  <2>0. pending \in Seq(Entries(R))
    BY <1>2, ShownStays
  <2>1. CASE Push
    <3>1. io' = Append(Tail(io), [kind |-> "replay"]) /\ Head(io).row \in R
      <4>1. [kind |-> "replay"] \in Item(queued) /\ [kind |-> "replay"].kind # "push"
        BY DEF Item
      <4>2. Tail(io) \in Seq(Item(queued)) /\ Head(io).row \in 1..queued /\ queued \in Nat
        BY <2>1, HeadTyped, LineFacts DEF Push
      <4>3. ShownIn(Append(Tail(io), [kind |-> "replay"]), queued) = ShownIn(Tail(io), queued)
        BY <4>1, <4>2, AppendLine
      <4>4. Head(io).row \in Mentions(Head(io))
        BY <2>1, HeadLine DEF Push, Mentions
      <4> QED
        BY <2>1, <4>2, <4>3, <4>4, HeadLine DEF Push
    <3> QED
      BY <2>0, <2>1, <3>1, AppendIn DEF Push, Status
  <2>2. CASE Edited
    <3>1. CASE Index(Head(io).row) = 0
      BY <2>0, <2>2, <3>1 DEF Edited
    <3>2. CASE Index(Head(io).row) # 0
      <4> DEFINE r == Head(io).row
      <4>1. Index(r) \in 1..Len(pending) /\ pending[Index(r)].row = r /\ Index(r) \in Nat \ {0}
        BY <2>0, <3>2, IndexFacts
      <4>2. r \in 1..queued /\ 0 \notin 1..queued
        BY <2>2, HeadTyped, LineFacts DEF Edited
      <4>3. pending[Index(r)] # Hole
        BY <4>1, <4>2 DEF Hole
      <4>4. r \in R
        BY <2>0, <4>1, <4>3, EntryFacts
      <4>5. pending' = Assign(Index(r), [row |-> r, status |-> "pending"])
        BY <2>2, <3>2 DEF Edited
      <4> QED
        BY <2>0, <4>1, <4>4, <4>5, WriteIn DEF Status
    <3> QED
      BY <3>1, <3>2
  <2>3. CASE Acked \/ Dropped
    BY <2>0, <2>3, WithoutIn DEF Acked, Dropped
  <2>4. CASE Loaded
    <3>1. Head(io).db \in Database(queued) /\ queued \in 0..MaxRow
      BY <2>4, HeadTyped DEF Loaded, Typed, TypedRest
    <3>2. {r \in Row : Head(io).db[r] # "none"} \subseteq R
      <4>1. {r \in Row : Head(io).db[r] # "none"} = Mentions(Head(io))
        BY <2>4, HeadLine DEF Loaded, Mentions
      <4>2. {r \in Row : Head(io).db[r] # "none"} \subseteq 1..queued
        BY <3>1 DEF Database
      <4> QED
        BY <2>4, <4>1, <4>2, HeadLine DEF Loaded
    <3> QED
      BY <2>4, <3>1, <3>2, LoadIn DEF Loaded
  <2> QED
    BY <2>1, <2>2, <2>3, <2>4
<1> QED
  BY <1>1, <1>2, <1>3, <1>4, OrderFrame

(* A continuation that waits behind the others, of a step that changes     *)
(* rows of the database only.                                              *)
LEMMA IssuedOrder ==
  ASSUME Typed, InOrder, NEW e \in Item(queued), e.kind \notin {"push", "items", "marked"},
         io' = Append(io, e), Open', Settled \subseteq Settled', known \subseteq known',
         UNCHANGED <<pending, replay, todo, current, blocked, queued>>
  PROVE  InOrder'
<1>1. LineOk(io') /\ Calls(io', replay')
  BY LineFacts, ItemLine DEF InOrder
<1>2. pending' \in Seq(Entries(ShownIn(io', queued)))
  BY <1>1, ShownStays
<1> QED
  BY <1>1, <1>2, OrderFrame

LEMMA AcknowledgedOrder ==
  ASSUME Typed, InOrder, NEW rs \in SUBSET known, NEW of \in {"event", "detail", "settled"},
         Acknowledge(rs, of),
         UNCHANGED <<pending, replay, scan, user, known, history>>
  PROVE  InOrder'
<1> DEFINE e == [kind |-> "acked", rows |-> rs, of |-> of]
<1>1. e \in Item(queued) /\ e.kind = "acked"
  BY DEF Item, Typed, TypedRest
<1>2. Open' /\ Settled \subseteq Settled'
  <2>1. Settled' = Settled /\ cancelled' \subseteq dropped' \cup excused' /\ UNCHANGED queued
    BY DEF Settled, user, history, InOrder, Open
  <2>2. \A r \in 1..queued : db'[r] = db[r] \/ r \in Settled'
    <3>1. 1..queued \subseteq Row
      BY OutboxAssumption DEF Typed, TypedRest, Row
    <3> QED
      BY <2>1, <3>1 DEF Acknowledge, Settled
  <2> QED
    BY <2>1, <2>2, OpenStays DEF InOrder
<1> HIDE DEF e
<1> QED
  BY <1>1, <1>2, IssuedOrder DEF Acknowledge, scan, user, e

LEMMA EventOrder ==
  ASSUME Typed, InOrder, IInv, TakeEvent
  PROVE  InOrder'
<1>1. CASE Head(wire).type = "user_message"
  <2>1. Head(wire).row \in known
    <3>1. Head(wire) \in KnownEvent
      BY DEF TakeEvent, IInv, EventsAreKnown
    <3> QED
      BY <1>1, <3>1 DEF KnownEvent
  <2> QED
    BY <1>1, <2>1, AcknowledgedOrder DEF TakeEvent
<1>2. CASE Head(wire).type # "user_message"
  <2>1. ReplayAfter(io) /\ UNCHANGED <<db, pending, scan, user, known, history>>
    BY <1>2 DEF TakeEvent
  <2>2. LineOk(io') /\ Calls(io', replay') /\ (replay \in Busy => replay' \in Busy)
    BY <2>1, LineFacts, ReplayLine DEF InOrder
  <2>3. Open' /\ Settled \subseteq Settled'
    BY <2>1, OpenAsIs DEF user, history
  <2>4. pending' \in Seq(Entries(ShownIn(io', queued)))
    BY <2>1, <2>2, ShownStays
  <2> QED
    BY <2>1, <2>2, <2>3, <2>4, OrderFrame DEF scan, user
<1> QED
  BY <1>1, <1>2

LEMMA DetailOrder ==
  ASSUME Typed, InOrder, NEW s \in Session, ReadDetail(s)
  PROVE  InOrder'
<1>1. /\ Acknowledge({r \in known : SessionOf[r] = s}, IF s \in busy THEN "detail" ELSE "settled")
      /\ UNCHANGED <<pending, replay, scan, user, known, history>>
  BY DEF ReadDetail, bridge
<1> QED
  BY <1>1, AcknowledgedOrder

(* A row that is cancelled is settled.                                     *)
LEMMA CancelOrder ==
  ASSUME Typed, InOrder, CancelInSheet \/ CancelInEditor
  PROVE  InOrder'
<1>1. PICK e \in Entries(1..queued) : CancelQueued(e)
  BY EntryFacts DEF CancelInSheet, CancelInEditor, Typed, TypedRows
<1> DEFINE i == [kind |-> "dropped", row |-> e.row]
<1>2. e.row \in 1..queued
  BY <1>1 DEF CancelQueued, Entries
<1>3. i \in Item(queued) /\ i.kind = "dropped"
  BY <1>2 DEF Item
<1>4. Open' /\ Settled \subseteq Settled'
  <2>1. /\ Settled' = Settled \cup {e.row} /\ UNCHANGED queued
        /\ cancelled' \subseteq dropped' \cup excused'
    BY <1>1 DEF CancelQueued, Settled, bridge, InOrder, Open
  <2>2. \A r \in 1..queued : db'[r] = db[r] \/ r \in Settled'
    BY <1>1, <2>1 DEF CancelQueued, Typed, TypedRows, Database
  <2> QED
    BY <2>1, <2>2, OpenStays DEF InOrder
<1> HIDE DEF i
<1> QED
  BY <1>1, <1>3, <1>4, IssuedOrder DEF CancelQueued, scan, bridge, i

(* An edited row is excused.                                               *)
LEMMA SavedOrder ==
  ASSUME Typed, InOrder, SaveEdit
  PROVE  InOrder'
<1> DEFINE e == [kind |-> "edited", row |-> editing.row]
<1>1. editing.row \in 1..queued
  BY DEF SaveEdit, Typed, TypedRows, Entries
<1>2. e \in Item(queued) /\ e.kind = "edited"
  BY <1>1 DEF Item
<1>3. Open' /\ Settled \subseteq Settled'
  <2>1. /\ Settled \subseteq Settled' /\ UNCHANGED queued
        /\ cancelled' \subseteq dropped' \cup excused'
    BY DEF SaveEdit, Settled, bridge, InOrder, Open
  <2>2. \A r \in 1..queued : db'[r] = db[r] \/ db'[r] \in Retryable
    BY DEF SaveEdit, Typed, TypedRows, Database, Retryable
  <2> QED
    BY <2>1, <2>2, OpenStays DEF InOrder
<1> HIDE DEF e
<1> QED
  BY <1>2, <1>3, IssuedOrder DEF SaveEdit, scan, bridge, e

(* A reset leaves rows that are quarantined, sent or settled.              *)
LEMMA ResetOrder ==
  ASSUME Typed, InOrder, IInv, Reset
  PROVE  InOrder'
<1> DEFINE e == [kind |-> "reset"]
<1>1. e \in Item(queued) /\ e.kind = "reset"
  BY DEF Item
<1>2. Open' /\ Settled \subseteq Settled'
  <2>1. /\ Settled' = Settled \cup Kept /\ UNCHANGED queued
        /\ cancelled' \subseteq dropped' \cup excused'
    BY DEF Reset, Settled, user, InOrder, Open
  <2>2. \A r \in 1..queued : r \in Settled'
    <3> SUFFICES ASSUME NEW r \in 1..queued, r \notin Settled PROVE r \in Kept
      BY <2>1
    <3>1. r \in Row
      BY OutboxAssumption DEF Typed, TypedRest, Row
    <3>2. db[r] \in Retryable
      BY DEF InOrder, Open
    <3> QED
      BY <3>1, <3>2 DEF Kept, Retryable
  <2> QED
    BY <2>1, <2>2, OpenStays DEF InOrder
<1> HIDE DEF e
<1> QED
  BY <1>1, <1>2, IssuedOrder DEF Reset, scan, user, e

(* The rows a replay has read: an earlier row of the conversation that is  *)
(* not among them is settled, or its push is yet to come, and then the     *)
(* later row is neither in the database's answer nor in pending.           *)
LEMMA ReadOrder ==
  ASSUME Typed, InOrder, ReadItems
  PROVE  InOrder'
<1> DEFINE R == ShownIn(Tail(io), queued)
<1>0. /\ UNCHANGED <<db, pending, current, blocked, cancelled, queued, known, dropped, excused>>
      /\ io' = Tail(io) /\ todo' = batch' /\ Continue("items")
  BY DEF ReadItems, rows, user, bridge, history
<1>1. /\ io # <<>> /\ Head(io).kind = "items" /\ LineOk(io') /\ \A s : Calls(io', s)
      /\ \A r \in Mentions(Head(io)) : r \in 1..queued => r \in R
  BY <1>0, HeadLine
<1>2. pending \in Seq(Entries(R))
  BY <1>0, <1>1, ShownStays
<1>3. todo' \subseteq R
  <2>1. Head(io).rows \subseteq R
    <3>1. Head(io).rows = Mentions(Head(io))
      BY <1>1 DEF Mentions
    <3>2. Head(io).rows \subseteq 1..queued
      BY <1>0, HeadTyped
    <3> QED
      BY <1>1, <3>1, <3>2
  <2>2. ASSUME NEW i \in 1..Len(pending), pending[i].status \in Retryable
        PROVE  pending[i].row \in R
    <3>1. pending[i] # Hole
      BY <2>2 DEF Hole, Retryable
    <3> QED
      BY <1>2, <3>1, EntryFacts
  <2> QED
    BY <1>0, <2>1, <2>2 DEF ReadItems
<1>4. Ordered(io') /\ Complete(io', queued, Settled)
  BY <1>1 DEF LineOk
<1>5. Marks'
  BY <1>1 DEF Marks, Calls
<1>6. Sorted'
  <2> SUFFICES ASSUME NEW r \in todo', NEW q \in Earlier(r)
               PROVE  q \in Settled \cup todo'
    BY <1>0 DEF Sorted, Earlier, Created, Settled
  <2>1. q \in 1..queued /\ q < r /\ r \in R
    BY <1>3 DEF Earlier, Created
  <2>2. io \in Seq(Item(queued)) /\ queued \in Nat
    BY LineFacts DEF Typed, TypedRows
  <2>3. 1 \in 1..Len(io) /\ Head(io) = io[1] /\ Len(io) \in Nat
    BY <1>1, <2>2
  <2>4. \/ q \in Head(io).rows \cup Settled
        \/ \E j \in 1..Len(io) : 1 < j /\ Pushes(io, j) /\ io[j].row = q
    BY <1>1, <2>1, <2>3 DEF InOrder, Complete
  <2>5. ASSUME NEW j \in 1..Len(io), 1 < j, Pushes(io, j), io[j].row = q
        PROVE  FALSE
    <3>1. j - 1 \in 1..Len(Tail(io)) /\ Tail(io)[j - 1] = io[j]
      BY <1>1, <2>2, <2>5
    <3>2. r < q
      BY <2>1, <2>5, <3>1 DEF ShownIn, Pushes
    <3>3. r \in Nat /\ q \in Nat
      BY <2>1, <2>2 DEF ShownIn
    <3> QED
      BY <2>1, <3>2, <3>3
  <2>6. Head(io).rows \subseteq todo'
    BY <1>0 DEF ReadItems
  <2> QED
    BY <2>4, <2>5, <2>6
<1>7. Open' /\ Settled' = Settled
  BY <1>0, OpenAsIs DEF Settled
<1>8. Shown'
  <2>1. current \in R \cup {0}
    BY <1>0, <1>1 DEF InOrder, Shown, LineOk
  <2> QED
    BY <1>0, <1>2, <1>3, <2>1 DEF Shown
<1> QED
  BY <1>0, <1>1, <1>4, <1>5, <1>6, <1>7, <1>8 DEF InOrder

LEMMA EndOrder ==
  ASSUME Typed, InOrder, EndReplay
  PROVE  InOrder'
<1>0. /\ UNCHANGED <<db, pending, io, todo, queued, known, dropped, excused>>
      /\ cancelled' \subseteq cancelled /\ todo = {} /\ current' = 0
      /\ replay = "next"
  BY DEF EndReplay, rows, bridge, history
<1>1. \A s : Calls(io, s)
  BY <1>0, CallsLine DEF InOrder, Typed, TypedRows
<1>2. Calls(io', replay') /\ Marks'
  BY <1>0, <1>1 DEF Calls, Marks
<1>3. Open' /\ Settled' = Settled
  BY <1>0, OpenAsIs DEF Settled
<1> QED
  BY <1>0, <1>2, <1>3 DEF InOrder, Sorted, Shown

-----------------------------------------------------------------------------
(* mark: its continuation is the only one that waits.                      *)
LEMMA MarkLine ==
  ASSUME Typed, InOrder, NEW r \in 1..queued, NEW status \in Status, Mark(r, status),
         replay \notin {"reading", "marking"}
  PROVE  /\ Ordered(io') /\ Complete(io', queued, Settled) /\ Calls(io', replay')
         /\ ShownIn(io', queued) = ShownIn(io, queued)
         /\ \A i \in 1..Len(io') : io'[i].kind = "marked" => io'[i].row = r /\ io'[i].status = status
<1> DEFINE e == [kind |-> "marked", row |-> r, status |-> status, at |-> Index(r)]
<1>1. Index(r) \in Nat
  <2>1. Len(pending) \in Nat /\ Index(r) \in 0..Len(pending)
    BY IndexFacts DEF Typed, TypedRows
  <2> QED
    BY <2>1
<1>2. e \in Item(queued) /\ e.kind = "marked" /\ e.row = r /\ e.status = status
  BY <1>1 DEF Item
<1>3. io' = Append(io, e) /\ replay' = "marking"
  BY DEF Mark
<1> HIDE DEF e
<1>4. queued \in Nat /\ io \in Seq(Item(queued)) /\ Calls(io, replay)
  BY LineFacts DEF InOrder, Typed, TypedRows
<1>5. /\ Ordered(io') /\ Complete(io', queued, Settled)
      /\ ShownIn(io', queued) = ShownIn(io, queued)
  BY <1>2, <1>3, <1>4, AppendLine DEF InOrder
<1>6. Calls(io', replay')
  BY <1>2, <1>3, <1>4, CallsLine
<1>7. \A i \in 1..Len(io) : io[i].kind # "marked"
  BY <1>4 DEF Calls
<1>8. \A i \in 1..Len(io') : (i \in 1..Len(io) /\ io'[i] = io[i]) \/ io'[i] = e
  BY <1>3, <1>4
<1> QED
  BY <1>2, <1>5, <1>6, <1>7, <1>8

(* The next row, before which every row of its conversation is settled.    *)
LEMMA TakeOrder ==
  ASSUME Typed, InOrder, TakeItem
  PROVE  InOrder'
<1>0. /\ UNCHANGED <<pending, blocked, cancelled, queued, known, dropped, excused>>
      /\ replay = "next" /\ replay \notin Busy
  BY DEF TakeItem, user, bridge, history, Busy
<1>1. PICK r \in todo :
        /\ \A s \in todo \ {r} : Before(r, s)
        /\ todo' = todo \ {r}
        /\ \/ /\ SessionOf[r] \in blocked \/ r \in cancelled
              /\ UNCHANGED <<db, io, replay, current>>
           \/ SessionOf[r] \notin blocked /\ current' = r /\ Mark(r, "sending")
  BY DEF TakeItem
<1>2. r \in 1..queued /\ queued \in Nat /\ r \in ShownIn(io, queued)
  BY LineFacts DEF Typed, TypedScan, InOrder, Shown
<1>3. \A q \in todo : \A s \in Earlier(q) : s \in Settled \cup todo \/ SessionOf[q] \in blocked
  BY <1>0 DEF InOrder, Sorted
<1>4. CASE /\ SessionOf[r] \in blocked \/ r \in cancelled
           /\ UNCHANGED <<db, io, replay, current>>
  <2>1. Open' /\ Settled' = Settled
    BY <1>0, <1>4, OpenAsIs DEF Settled
  <2>2. Sorted'
    <3> SUFFICES ASSUME NEW q \in todo', NEW s \in Earlier(q)
                 PROVE  s \in Settled \cup todo' \/ SessionOf[q] \in blocked
      BY <1>0, <2>1 DEF Sorted, Earlier, Created
    <3>1. s \in Settled \cup todo \/ SessionOf[q] \in blocked
      BY <1>1, <1>3
    <3>2. SessionOf[s] = SessionOf[q]
      BY DEF Earlier
    <3>3. r \in cancelled => r \in Settled
      BY DEF InOrder, Open, Settled
    <3> QED
      BY <1>1, <1>4, <3>1, <3>2, <3>3
  <2>3. Marks'
    BY <1>0, <1>4, <2>1 DEF InOrder, Marks, Earlier, Created
  <2> QED
    BY <1>0, <1>1, <1>4, <2>1, <2>2, <2>3 DEF InOrder, Shown
<1>5. CASE SessionOf[r] \notin blocked /\ current' = r /\ Mark(r, "sending")
  <2>1. /\ Ordered(io') /\ Complete(io', queued, Settled) /\ Calls(io', replay')
        /\ ShownIn(io', queued) = ShownIn(io, queued) /\ replay' = "marking"
        /\ \A i \in 1..Len(io') :
             io'[i].kind = "marked" => io'[i].row = r /\ io'[i].status = "sending"
    BY <1>0, <1>2, <1>5, MarkLine DEF Status, Mark
  <2>2. Open' /\ Settled' = Settled
    <3>1. Settled' = Settled /\ cancelled' \subseteq dropped' \cup excused'
      BY <1>0 DEF Settled, InOrder, Open
    <3>2. \A q \in 1..queued : db'[q] = db[q] \/ db'[q] \in Retryable
      BY <1>5 DEF Mark, Retryable, Typed, TypedRows, Database
    <3> QED
      BY <1>0, <3>1, <3>2, OpenStays DEF InOrder
  <2>3. Earlier(r) \subseteq Settled
    <3> SUFFICES ASSUME NEW q \in Earlier(r), q \in todo PROVE FALSE
      BY <1>3, <1>5
    <3>1. q \in Nat /\ r \in Nat /\ q < r /\ SessionOf[q] = SessionOf[r]
      BY <1>2 DEF Earlier, Created
    <3>2. Before(r, q)
      BY <1>1, <3>1
    <3>3. SessionOf[r] \in Nat
      <4>1. r \in Row
        BY <1>2, OutboxAssumption DEF Typed, TypedRest, Row
      <4> QED
        BY <4>1, OutboxAssumption
    <3> QED
      BY <3>1, <3>2, <3>3 DEF Before
  <2>4. Marks'
    BY <1>0, <1>5, <2>1, <2>2, <2>3 DEF Marks, Earlier, Created
  <2>5. Sorted'
    BY <1>0, <1>1, <1>3, <1>5, <2>1, <2>2 DEF Sorted, Earlier, Created, Busy
  <2>6. Shown'
    BY <1>0, <1>1, <1>2, <1>5, <2>1 DEF Shown, InOrder
  <2> QED
    BY <1>0, <2>1, <2>2, <2>4, <2>5, <2>6 DEF InOrder
<1> QED
  BY <1>1, <1>4, <1>5

(* The answer to a post, and the loss of one, mark the row current.        *)
LEMMA MarkedAgain ==
  ASSUME Typed, InOrder, replay \in {"posting", "accepted", "deferred"},
         NEW status \in {"sent", "waiting", "failed"}, Mark(current, status),
         status = "sent" => current \in known, status = "failed" => current \in excused',
         UNCHANGED <<pending, scan, user, known, dropped>>, excused \subseteq excused'
  PROVE  InOrder'
<1>1. current \in 1..queued /\ replay \in Busy
  BY LineFacts DEF Typed, TypedScan, Busy
<1>2. /\ Ordered(io') /\ Complete(io', queued, Settled) /\ Calls(io', replay')
      /\ ShownIn(io', queued) = ShownIn(io, queued) /\ replay' \in Busy
      /\ \A i \in 1..Len(io') :
           io'[i].kind = "marked" => io'[i].row = current /\ io'[i].status = status
  <2>1. status \in Status /\ replay \notin {"reading", "marking"} /\ replay' = "marking"
    BY DEF Status, Mark
  <2> QED
    BY <1>1, <2>1, MarkLine DEF Busy
<1>3. Open' /\ Settled \subseteq Settled'
  <2>1. Settled \subseteq Settled' /\ cancelled' \subseteq dropped' \cup excused'
    BY DEF Settled, user, InOrder, Open
  <2>2. \A q \in 1..queued : db'[q] = db[q] \/ (q = current /\ db'[q] = status)
    BY <1>1 DEF Mark, Typed, TypedRows, Database
  <2>3. status \in Retryable \/ current \in Settled'
    BY DEF Retryable, Settled
  <2> QED
    BY <2>1, <2>2, <2>3, OpenStays DEF user, InOrder
<1>4. Complete(io', queued', Settled')
  BY <1>2, <1>3, CompleteStays DEF user
<1>5. Marks'
  BY <1>2 DEF Marks, scan
<1>6. Sorted'
  BY <1>1, <1>2, <1>3 DEF InOrder, Sorted, Earlier, Created, scan, user
<1>7. Shown'
  BY <1>2 DEF InOrder, Shown, scan, user
<1> QED
  BY <1>2, <1>3, <1>4, <1>5, <1>6, <1>7 DEF InOrder

LEMMA AnswerOrder ==
  ASSUME Typed, InOrder, IInv, Answer
  PROVE  InOrder'
<1>0. UNCHANGED <<pending, scan, user, known, history>> /\ replay \in {"accepted", "deferred"}
  BY DEF Answer, bridge
<1>1. CASE current \in cancelled /\ replay' = "next" /\ UNCHANGED <<db, io>>
  <2>1. LineOk(io') /\ Calls(io', replay')
    <3>1. Calls(io, replay) /\ io \in Seq(Item(queued))
      BY DEF InOrder, Typed, TypedRows
    <3> QED
      BY <1>0, <1>1, <3>1, LineFacts, CallsLine
  <2>2. Open' /\ Settled \subseteq Settled'
    BY <1>0, <1>1, OpenAsIs DEF user, history
  <2>3. pending' \in Seq(Entries(ShownIn(io', queued)))
    BY <1>0, <2>1, ShownStays
  <2>4. current \in Settled'
    BY <1>1, <2>2 DEF InOrder, Open, Settled
  <2> QED
    BY <1>0, <2>1, <2>2, <2>3, <2>4, OrderFrame DEF scan, user
<1>2. CASE Mark(current, IF replay = "accepted" THEN "sent" ELSE "waiting")
  <2>1. replay = "accepted" => current \in known
    BY DEF IInv, AcceptedIsKnown
  <2>2. CASE replay = "accepted"
    BY <1>0, <1>2, <2>1, <2>2, MarkedAgain DEF history
  <2>3. CASE replay # "accepted"
    BY <1>0, <1>2, <2>3, MarkedAgain DEF history
  <2> QED
    BY <2>2, <2>3
<1> QED
  BY <1>1, <1>2 DEF Answer

LEMMA LostOrder ==
  ASSUME Typed, InOrder, Lost
  PROVE  InOrder'
BY MarkedAgain DEF Lost, bridge

(* A row that is not posted is settled, or blocks its conversation.        *)
LEMMA MarkedOrder ==
  ASSUME Typed, InOrder, Marked
  PROVE  InOrder'
<1> DEFINE k == Head(io)
           e == [row |-> k.row, status |-> k.status]
<1>0. /\ UNCHANGED <<db, todo, current, cancelled, queued, known, dropped, excused>>
      /\ io' = Tail(io) /\ Continue("marked")
      /\ blocked' = blocked \cup BlockedBy(k.row, k.status)
      /\ replay' = IF PostsNow(k.row, k.status) THEN "posting" ELSE "next"
      /\ pending' = IF k.at > 0 THEN Assign(k.at, e)
                    ELSE IF k.status # "sent" THEN Append(pending, e) ELSE pending
  BY DEF Marked, user, bridge, history
<1>1. /\ io # <<>> /\ k.kind = "marked" /\ LineOk(io') /\ Calls(io', replay')
      /\ k.row \in 1..queued /\ k.status \in Status /\ k.at \in Nat /\ queued \in Nat
  BY <1>0, HeadLine, HeadTyped, LineFacts
<1>2. /\ k.row = current /\ k.status \in {"sending", "sent", "waiting", "failed"}
      /\ k.status = "sent" => current \in known
  <2>1. 1 \in 1..Len(io) /\ k = io[1]
    BY <1>1 DEF Typed, TypedRows
  <2> QED
    BY <1>1, <2>1 DEF InOrder, Marks
<1> HIDE DEF k
<1>3. Open' /\ Settled \subseteq Settled'
  BY <1>0, OpenAsIs
<1>4. pending' \in Seq(Entries(ShownIn(io', queued)))
  <2>1. pending \in Seq(Entries(ShownIn(io', queued)))
    BY <1>1, ShownStays
  <2>2. k.row \in ShownIn(io', queued)
    BY <1>1, <1>2 DEF InOrder, Shown, LineOk
  <2>3. k.at > 0 => k.at \in Nat \ {0}
    BY <1>1
  <2> QED
    BY <1>0, <1>1, <2>1, <2>2, <2>3, AppendIn, WriteIn
<1>5. \/ replay' \in Busy \/ current \in Settled' \/ SessionOf[current] \in blocked'
  <2>1. current \in cancelled => current \in Settled'
    BY <1>3 DEF InOrder, Open, Settled
  <2>2. current \in known => current \in Settled'
    BY <1>3 DEF Settled
  <2> QED
    BY <1>0, <1>2, <2>1, <2>2 DEF PostsNow, BlockedBy, Busy
<1> QED
  BY <1>0, <1>1, <1>3, <1>4, <1>5, OrderFrame

(* A new row is later than all, and its push is behind what waits.         *)
LEMMA QueueOrder ==
  ASSUME Typed, InOrder, Queue
  PROVE  InOrder'
<1> DEFINE n == queued + 1
           e == [kind |-> "push", row |-> n]
<1>0. /\ queued' = n /\ io' = Append(io, e) /\ db' = [db EXCEPT ![n] = "pending"]
      /\ UNCHANGED <<pending, replay, todo, current, blocked, cancelled, known, dropped, excused>>
  BY DEF Queue, scan, bridge, history
<1>1. queued \in Nat /\ io \in Seq(Item(queued)) /\ e.kind = "push" /\ e.row = queued + 1
  BY LineFacts DEF Typed, TypedRows
<1>2. n \in Row /\ \A r \in 1..n : r \in 1..queued \/ r = n
  BY <1>1, OutboxAssumption DEF Queue, Typed, TypedRest, Row
<1> HIDE DEF e
<1>3. Settled' = Settled
  BY <1>0 DEF Settled
<1>4. /\ Ordered(io') /\ Complete(io', queued', Settled')
      /\ ShownIn(io, queued) \subseteq ShownIn(io', queued')
  BY <1>0, <1>1, <1>3, PushLine DEF InOrder, n
<1>5. /\ Calls(io', replay')
      /\ \A i \in 1..Len(io') : io'[i].kind = "marked" => i \in 1..Len(io) /\ io'[i] = io[i]
  <2>1. \A i \in 1..Len(io') : (i \in 1..Len(io) /\ io'[i] = io[i]) \/ io'[i] = e
    BY <1>0, <1>1
  <2>2. e \in Item(queued) \cup {e} /\ io \in Seq(Item(queued) \cup {e})
    BY <1>1, Wider
  <2> QED
    BY <1>0, <1>1, <2>1, <2>2, CallsLine DEF InOrder
<1>6. \A r \in 1..queued : Earlier(r)' = Earlier(r)
  BY <1>0, <1>1 DEF Earlier, Created, n
<1>7. Marks'
  <2> SUFFICES ASSUME NEW i \in 1..Len(io), io[i].kind = "marked"
               PROVE  /\ io[i].row = current
                      /\ io[i].status \in {"sending", "sent", "waiting", "failed"}
                      /\ io[i].status = "sent" => current \in known
                      /\ \A r \in {current} : io[i].status = "sending" =>
                           Earlier(r)' \subseteq Settled
    BY <1>0, <1>3, <1>5 DEF Marks, Earlier, Created
  <2>1. io[i].row \in 1..queued
    <3>1. io[i] \in Item(queued)
      BY <1>1
    <3> QED
      BY <3>1 DEF Item
  <2> QED
    BY <1>6, <2>1 DEF InOrder, Marks
<1>8. Sorted'
  <2> SUFFICES ASSUME NEW r \in todo, NEW q \in Earlier(r)'
               PROVE  \/ q \in Settled \cup todo \/ SessionOf[r] \in blocked
                      \/ replay \in Busy /\ q = current
    BY <1>0, <1>3 DEF Sorted, Earlier, Created
  <2>1. r \in 1..queued
    BY DEF Typed, TypedScan
  <2> QED
    BY <1>6, <2>1 DEF InOrder, Sorted
<1>9. Open'
  <2>1. \A r \in 1..queued : r # n /\ db'[r] = db[r]
    BY <1>0, <1>1 DEF n, Typed, TypedRows, Database
  <2>2. db'[n] \in Retryable
    BY <1>0, <1>2 DEF Retryable, Typed, TypedRows, Database
  <2> QED
    BY <1>0, <1>2, <1>3, <2>1, <2>2 DEF InOrder, Open
<1>10. Shown'
  <2>1. Entries(ShownIn(io, queued)) \subseteq Entries(ShownIn(io', queued'))
    BY <1>4 DEF Entries
  <2>2. pending \in Seq(Entries(ShownIn(io', queued')))
    BY <2>1, Wider DEF InOrder, Shown
  <2> QED
    BY <1>0, <1>4, <2>2 DEF InOrder, Shown
<1> QED
  BY <1>4, <1>5, <1>7, <1>8, <1>9, <1>10 DEF InOrder

(* The page forgets the replay.                                            *)
LEMMA ReloadOrder ==
  ASSUME Typed, InOrder, Reload
  PROVE  InOrder'
<1> DEFINE e == [kind |-> "loaded", db |-> db']
<1>0. /\ io' = <<e>> /\ pending' = <<>> /\ todo' = {} /\ current' = 0 /\ cancelled' = {}
      /\ UNCHANGED <<queued, known, dropped, excused>>
  BY DEF Reload, bridge, history
<1>1. Len(io') = 1 /\ io'[1].kind = "loaded" /\ \A i \in 1..Len(io') : i = 1
  BY <1>0
<1>2. Ordered(io') /\ Complete(io', queued', Settled') /\ Calls(io', replay')
  BY <1>1 DEF Ordered, Complete, Calls
<1>3. Marks' /\ Sorted'
  BY <1>0, <1>1 DEF Marks, Sorted
<1>4. Open'
  <2>1. Settled' = Settled
    BY <1>0 DEF Settled
  <2>2. \A r \in 1..queued : db'[r] = db[r] \/ db'[r] \in Retryable
    <3>1. 1..queued \subseteq Row
      BY OutboxAssumption DEF Typed, TypedRest, Row
    <3> QED
      BY <3>1 DEF Reload, Retryable
  <2> QED
    BY <1>0, <2>1, <2>2, OpenStays DEF InOrder
<1>5. Shown'
  BY <1>0 DEF Shown
<1> QED
  BY <1>2, <1>3, <1>4, <1>5 DEF InOrder

LEMMA OrderStep ==
  ASSUME Typed, InOrder, IInv, [Next]_vars
  PROVE  InOrder'
<1>1. CASE \/ Serve \/ LoseSocket \/ GoOnline \/ UNCHANGED vars
           \/ (\E s \in Session : TurnEnds(s)) \/ \E r \in Row : OpenEditor(r)
  BY <1>1, QuietOrder
<1>2. CASE ReplayCalled \/ Synced \/ ResetDone
  BY <1>2, CalledOrder
<1>3. CASE Push \/ Edited \/ Acked \/ Dropped \/ Loaded
  BY <1>3, WrittenOrder
<1>4. CASE TakeEvent \/ \E s \in Session : ReadDetail(s)
  BY <1>4, EventOrder, DetailOrder
<1>5. CASE CancelInSheet \/ CancelInEditor \/ SaveEdit \/ Reset \/ Reload
  BY <1>5, CancelOrder, SavedOrder, ResetOrder, ReloadOrder
<1>6. CASE ReadItems \/ TakeItem \/ Marked \/ EndReplay \/ Answer \/ Lost \/ Queue
  BY <1>6, ReadOrder, TakeOrder, MarkedOrder, EndOrder, AnswerOrder, LostOrder, QueueOrder
<1> QED
  BY <1>1, <1>2, <1>3, <1>4, <1>5, <1>6 DEF Next, Progress

LEMMA OrderInit == Init => Typed /\ InOrder
<1> SUFFICES ASSUME Init PROVE Typed /\ InOrder
  OBVIOUS
<1>1. queued = 0 /\ io = <<>> /\ pending = <<>> /\ todo = {} /\ current = 0 /\ MaxRow \in Nat
  BY OutboxAssumption DEF Init
<1>2. TypedRows
  BY <1>1 DEF Init, TypedRows, Database, Entries, Row
<1>3. TypedScan /\ TypedRest
  <2>1. TypedScan
    BY <1>1 DEF Init, TypedScan, Busy
  <2>2. TypedRest
    <3>1. online \in BOOLEAN /\ syncing \in BOOLEAN
      BY DEF Init
    <3>2. queued \in 0..MaxRow
      BY <1>1
    <3> QED
      BY <3>1, <3>2 DEF Init, TypedRest
  <2> QED
    BY <2>1, <2>2
<1>4. InOrder
  BY <1>1 DEF Init, InOrder, Ordered, Complete, Calls, Marks, Sorted, Open, Shown
<1> QED
  BY <1>2, <1>3, <1>4 DEF Typed

-----------------------------------------------------------------------------
(* The two copies of the rows and the replay have their types, and rows    *)
(* that have not been created are nowhere (queueMessage, mark,             *)
(* acknowledgeClientIds, resetSyncState, boot).                            *)
THEOREM OutboxTypes == Spec => []TypeOK
<1>1. Init => Typed /\ InOrder /\ IInv
  BY OrderInit, Initially
<1>2. (Typed /\ InOrder /\ IInv) /\ [Next]_vars => (Typed /\ InOrder /\ IInv)'
  BY TypedStep, OrderStep, StepKeeps DEF InOrder
<1>3. Typed /\ InOrder /\ IInv => TypeOK
  BY TypedOK
<1> QED
  BY <1>1, <1>2, <1>3, PTL DEF Spec

(* Only the continuation of mark lets a row be posted.                     *)
LEMMA PostedStep ==
  ASSUME Typed, InOrder, [Next]_vars, Posts
  PROVE  Earlier(current) \subseteq Settled
<1>1. Marked
  <2>1. replay # "posting" /\ replay' = "posting"
    BY DEF Posts
  <2>2. \A q : ~ReplayAfter(q)
    BY <2>1 DEF ReplayAfter
  <2>3. ~(ReplayCalled \/ Acked \/ Synced \/ TakeEvent)
    BY <2>1, <2>2 DEF ReplayCalled, Acked, Synced, TakeEvent
  <2>4. ~(TakeItem \/ Answer \/ Lost \/ Serve \/ EndReplay \/ ReadItems)
    BY <2>1 DEF TakeItem, Answer, Lost, Serve, EndReplay, ReadItems, Mark
  <2>5. ~(CancelInSheet \/ CancelInEditor \/ SaveEdit \/ Reset \/ Reload \/ Queue \/ Push)
    BY <2>1 DEF CancelInSheet, CancelInEditor, CancelQueued, SaveEdit, Reset, Reload, Queue, Push
  <2>6. ~(Dropped \/ Edited \/ GoOnline \/ ResetDone \/ Loaded \/ LoseSocket \/ UNCHANGED vars)
    BY <2>1 DEF Dropped, Edited, GoOnline, ResetDone, Loaded, LoseSocket, vars
  <2>7. \A s \in Session : ~TurnEnds(s) /\ ~ReadDetail(s)
    BY <2>1 DEF TurnEnds, ReadDetail
  <2>8. \A r \in Row : ~OpenEditor(r)
    BY <2>1 DEF OpenEditor
  <2> QED
    BY <2>3, <2>4, <2>5, <2>6, <2>7, <2>8 DEF Next, Progress
<1>2. io # <<>> /\ Head(io).kind = "marked" /\ Head(io).status = "sending"
  BY <1>1 DEF Posts, Marked, Continue, PostsNow
<1>3. 1 \in 1..Len(io) /\ Head(io) = io[1]
  BY <1>2 DEF Typed, TypedRows
<1> QED
  BY <1>2, <1>3 DEF InOrder, Marks

(* No replay lets a row pass an earlier one of its conversation, unless    *)
(* that one has become a turn, was cancelled, or was shown to the user as  *)
(* failed, quarantined or edited: whatever comes between the reading of    *)
(* the rows and a post (replayOutbox, replayInSessionOrder, mark).         *)
THEOREM RowsKeepTheirOrder == Spec => PostedInOrder
<1>1. Init => Typed /\ InOrder /\ IInv
  BY OrderInit, Initially
<1>2. (Typed /\ InOrder /\ IInv) /\ [Next]_vars => (Typed /\ InOrder /\ IInv)'
  BY TypedStep, OrderStep, StepKeeps DEF InOrder
<1>3. (Typed /\ InOrder /\ IInv) /\ [Next]_vars
        => [Posts => Earlier(current) \subseteq known \cup dropped \cup excused]_vars
  BY PostedStep DEF Settled
<1> QED
  BY <1>1, <1>2, <1>3, PTL DEF Spec, PostedInOrder
=============================================================================
