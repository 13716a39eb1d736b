------------------------------- MODULE Outbox -------------------------------
(***************************************************************************)
(* The outbox of the web client: queueMessage, replayOutbox,               *)
(* replayInSessionOrder, acknowledgeClientIds, cancelQueued,               *)
(* savePendingEdit, resetSyncState and boot over two copies of the rows,   *)
(* one in IndexedDB and one in the array pending.                          *)
(*                                                                         *)
(* A row is a number: rows are created in that order.  IndexedDB executes  *)
(* its operations in the order they are issued, so an operation takes      *)
(* effect when it is issued, and its continuation waits in a queue.        *)
(***************************************************************************)
EXTENDS Naturals, Sequences, FiniteSets

CONSTANTS
  Session,    \* conversations, as numbers
  SessionOf,  \* the conversation of each row
  MaxRow,     \* bound: messages queued
  MaxLost,    \* bound: answers and sockets lost
  MaxPoll,    \* bound: details of a conversation that are read
  MaxWait,    \* bound: continuations that wait when something comes from outside
  MaxClick,   \* bound: continuations that wait when a row is cancelled
  MaxEdit,    \* bound: times the editor is opened
  MaxReset,   \* bound: resets of the event stream
  MaxReload   \* bound: reloads of the page

Row == 1..MaxRow

ASSUME OutboxAssumption ==
  /\ MaxRow \in Nat /\ MaxLost \in Nat /\ MaxPoll \in Nat /\ MaxWait \in Nat
  /\ MaxClick \in Nat /\ MaxEdit \in Nat /\ MaxReset \in Nat /\ MaxReload \in Nat
  /\ Session \subseteq Nat /\ SessionOf \in [Row -> Session]

VARIABLES
  db,         \* IndexedDB: the status of each row, or "none"
  pending,    \* the array: entries of a row and its status, or a hole
  io,         \* continuations of IndexedDB operations, in their order
  replay,     \* replayOutbox: what it awaits; "idle" while sending is false
  batch,      \* the rows it has read
  todo,       \* those it has not come to
  current,    \* the one it is at
  blocked,    \* the conversations it skips
  cancelled,  \* cancelledPendingIds
  editing,    \* editingPending: the entry open in the editor as it was, or a hole
  queued,     \* rows created
  online,     \* the network is there and serverOffline is false
  syncing,    \* a socket is being opened and its syncAll has not ended
  known,      \* bridge: rows that have become a turn
  busy,       \* bridge: conversations with a turn in progress
  wire,       \* events on their way to the client
  late,       \* history: rows cancelled while a request for them was under way
  dropped,    \* history: rows the user has cancelled and not saved again
  excused,    \* history: rows that have failed, been quarantined or edited
  used        \* counts up to the bounds

rows == <<db, pending>>
scan == <<batch, todo, current, blocked>>
user == <<cancelled, editing, queued>>
net == <<online, syncing>>
bridge == <<known, busy, wire>>
history == <<dropped, late, excused>>
vars == <<rows, io, replay, scan, user, net, bridge, history, used>>

Hole == [row |-> 0, status |-> "none"]
Status == {"pending", "waiting", "sending", "failed", "quarantined", "sent"}
Entry == [row : Row, status : Status]
Retryable == {"pending", "waiting", "sending"}

\* A turn of the desktop or of another device may be in progress.
Init ==
  /\ db = [r \in Row |-> "none"] /\ pending = <<>> /\ io = <<>>
  /\ replay = "idle" /\ batch = {} /\ todo = {} /\ current = 0 /\ blocked = {}
  /\ cancelled = {} /\ editing = Hole /\ queued = 0
  /\ online = TRUE /\ syncing = FALSE
  /\ known = {} /\ busy \in SUBSET Session /\ wire = <<>>
  /\ dropped = {} /\ late = {} /\ excused = {}
  /\ used = [lost |-> 0, poll |-> 0, edit |-> 0, reset |-> 0, reload |-> 0]

(* The types, the rows of a running replay, and that rows not yet created  *)
(* are nowhere.                                                            *)
TypeOK ==
  /\ db \in [Row -> Status \cup {"none"}]
  /\ pending \in Seq(Entry \cup {Hole})
  /\ replay \in {"idle", "reading", "next", "marking", "posting", "accepted", "deferred"}
  /\ todo \subseteq batch /\ batch \subseteq Row /\ current \in Row \cup {0}
  /\ blocked \subseteq Session /\ cancelled \subseteq Row
  /\ editing \in Entry \cup {Hole} /\ queued \in 0..MaxRow
  /\ online \in BOOLEAN /\ syncing \in BOOLEAN
  /\ known \subseteq 1..queued /\ busy \subseteq Session
  /\ dropped \subseteq 1..queued /\ late \subseteq 1..queued /\ excused \subseteq 1..queued

-----------------------------------------------------------------------------
(* Once pending has a hole, what looks a row up in it throws, replayOutbox *)
(* before its try: what the page does then is not modelled.                *)
HasHole == \E i \in 1..Len(pending) : pending[i] = Hole

\* replayInSessionOrder goes from one row to the next without an await.
Ready == ~HasHole /\ replay # "next"

\* What comes from outside finds few continuations waiting, and so does a
\* cancellation, whose moment matters most.
Outside == Ready /\ Len(io) <= MaxWait
Click == Ready /\ Len(io) <= MaxClick

Continue(kind) == Ready /\ io # <<>> /\ Head(io).kind = kind

Use(kind, max) == used[kind] < max /\ used' = [used EXCEPT ![kind] = @ + 1]

\* findIndex, counted from 1; 0 if there is no entry of row r.
Index(r) ==
  IF \E i \in 1..Len(pending) : pending[i].row = r
  THEN CHOOSE i \in 1..Len(pending) :
         pending[i].row = r /\ \A j \in 1..(i - 1) : pending[j].row # r
  ELSE 0

\* pending[i] = e, which in JavaScript may be past the end.
Assign(i, e) ==
  [j \in 1..(IF i > Len(pending) THEN i ELSE Len(pending)) |->
     IF j = i THEN e ELSE IF j <= Len(pending) THEN pending[j] ELSE Hole]

\* filter: the entries of s that are in a set, in their order.
Filtered(s, entries) ==
  LET kept[n \in 0..Len(s)] ==
        IF n = 0 THEN <<>>
        ELSE IF s[n] \in entries THEN Append(kept[n - 1], s[n]) ELSE kept[n - 1]
  IN kept[Len(s)]

Without(rs) == Filtered(pending, {e \in Entry \cup {Hole} : e.row \notin rs})

(* replayOutbox up to its first await, after the continuations q.          *)
ReplayAfter(q) ==
  IF replay = "idle" /\ online
  THEN /\ replay' = "reading"
       /\ io' = Append(q, [kind |-> "items", rows |-> {r \in Row : db[r] \in Retryable}])
  ELSE io' = q /\ UNCHANGED replay

-----------------------------------------------------------------------------
(* queueMessage: the row is put, pushed to pending, and its message put;   *)
(* then the outbox is replayed.                                            *)
Queue ==
  /\ Outside /\ queued < MaxRow
  /\ queued' = queued + 1
  /\ db' = [db EXCEPT ![queued + 1] = "pending"]
  /\ io' = Append(io, [kind |-> "push", row |-> queued + 1])
  /\ UNCHANGED <<pending, replay, scan, cancelled, editing, net, bridge, history, used>>

Push ==
  /\ Continue("push")
  /\ pending' = Append(pending, [row |-> Head(io).row, status |-> "pending"])
  /\ io' = Append(Tail(io), [kind |-> "replay"])
  /\ UNCHANGED <<db, replay, scan, user, net, bridge, history, used>>

ReplayCalled ==
  /\ Continue("replay")
  /\ ReplayAfter(Tail(io))
  /\ UNCHANGED <<rows, scan, user, net, bridge, history, used>>

(* The rows are read: those of IndexedDB, and those only pending has.      *)
ReadItems ==
  /\ Continue("items")
  /\ LET inMemory == {pending[i].row : i \in {j \in 1..Len(pending) :
                                                pending[j].status \in Retryable}}
     IN batch' = Head(io).rows \cup inMemory
  /\ todo' = batch'
  /\ replay' = IF batch' = {} THEN "idle" ELSE "next"
  /\ io' = Tail(io)
  /\ UNCHANGED <<rows, current, blocked, user, net, bridge, history, used>>

(* mark: the place in pending is looked up, then the row is put.           *)
Mark(r, status) ==
  /\ db' = [db EXCEPT ![r] = status]
  /\ io' = Append(io, [kind |-> "marked", row |-> r, status |-> status, at |-> Index(r)])
  /\ replay' = "marking"

\* The order of a replay: by conversation, then by creation.
Before(r, s) ==
  SessionOf[r] < SessionOf[s] \/ (SessionOf[r] = SessionOf[s] /\ r < s)

(* The next row is marked as being sent, unless its conversation is        *)
(* blocked or it is cancelled.                                             *)
TakeItem ==
  /\ replay = "next" /\ ~HasHole
  /\ \E r \in todo :
       /\ \A s \in todo \ {r} : Before(r, s)
       /\ todo' = todo \ {r}
       /\ IF SessionOf[r] \in blocked \/ r \in cancelled
          THEN UNCHANGED <<db, io, replay, current>>
          ELSE current' = r /\ Mark(r, "sending")
  /\ UNCHANGED <<pending, batch, blocked, user, net, bridge, history, used>>

\* Mutant: a refused message blocks nothing.
BlockedByFailure(r, status) == IF status = "failed" THEN {SessionOf[r]} ELSE {}

\* What blocked gains when row r is marked with a status.
BlockedBy(r, status) == IF status \in {"waiting", "failed"} THEN {SessionOf[r]} ELSE {}

\* Mutant: cancellation is looked at before mark only.
PostsIfMarked(r, status) == status = "sending"

\* The row has been marked as being sent, and not cancelled meanwhile.
PostsNow(r, status) == status = "sending" /\ r \notin cancelled

(* The continuation of mark: the entry is written where it was found, and  *)
(* replayInSessionOrder posts the row or goes on.                          *)
Marked ==
  /\ Continue("marked")
  /\ LET k == Head(io)
         e == [row |-> k.row, status |-> k.status]
     IN /\ pending' = IF k.at > 0 THEN Assign(k.at, e)
                      ELSE IF k.status # "sent" THEN Append(pending, e) ELSE pending
        /\ replay' = IF PostsNow(k.row, k.status) THEN "posting" ELSE "next"
        /\ blocked' = blocked \cup BlockedBy(k.row, k.status)
  /\ io' = Tail(io)
  /\ UNCHANGED <<db, batch, todo, current, user, net, bridge, history, used>>

(* The finally of replayOutbox.                                            *)
EndReplay ==
  /\ replay = "next" /\ todo = {} /\ ~HasHole
  /\ replay' = "idle" /\ batch' = {} /\ current' = 0 /\ blocked' = {}
  /\ cancelled' = cancelled \ batch
  /\ UNCHANGED <<rows, io, todo, editing, queued, net, bridge, history, used>>

(* The bridge: a client_id becomes one turn; a conversation whose turn is  *)
(* in progress refuses another with 409.                                   *)
Serve ==
  /\ replay = "posting"
  /\ \/ current \in known /\ replay' = "accepted" /\ UNCHANGED bridge
     \/ /\ current \notin known /\ SessionOf[current] \in busy
        /\ replay' = "deferred" /\ UNCHANGED bridge
     \/ /\ current \notin known /\ SessionOf[current] \notin busy
        /\ replay' = "accepted"
        /\ known' = known \cup {current} /\ busy' = busy \cup {SessionOf[current]}
        /\ wire' = Append(wire, [type |-> "user_message", row |-> current])
  /\ UNCHANGED <<rows, io, scan, user, net, history, used>>

(* The answer arrives.                                                     *)
Answer ==
  /\ replay \in {"accepted", "deferred"} /\ Ready
  /\ IF replay = "accepted" /\ current \in cancelled
     THEN replay' = "next" /\ UNCHANGED <<db, io>>
     ELSE Mark(current, IF replay = "accepted" THEN "sent" ELSE "waiting")
  /\ UNCHANGED <<pending, scan, user, net, bridge, history, used>>

(* The request or its answer is lost.                                      *)
Lost ==
  /\ replay \in {"posting", "accepted", "deferred"} /\ Ready
  /\ Use("lost", MaxLost)
  /\ Mark(current, "failed")
  /\ excused' = excused \cup {current}
  /\ UNCHANGED <<pending, scan, user, net, bridge, dropped, late>>

-----------------------------------------------------------------------------
(* Events and details.                                                     *)
TurnEnds(s) ==
  /\ s \in busy
  /\ busy' = busy \ {s}
  /\ wire' = Append(wire, [type |-> "turn_completed", row |-> 0])
  /\ UNCHANGED <<rows, io, replay, scan, user, net, known, history, used>>

(* acknowledgeClientIds up to its await.                                   *)
Acknowledge(rs, of) ==
  /\ db' = [r \in Row |-> IF r \in rs THEN "none" ELSE db[r]]
  /\ io' = Append(io, [kind |-> "acked", rows |-> rs, of |-> of])

(* project: one event at a time.                                           *)
TakeEvent ==
  /\ Outside /\ online /\ wire # <<>>
  /\ \A i \in 1..Len(io) : io[i].kind = "acked" => io[i].of # "event"
  /\ wire' = Tail(wire)
  /\ IF Head(wire).type = "user_message"
     THEN Acknowledge({Head(wire).row}, "event") /\ UNCHANGED replay
     ELSE ReplayAfter(io) /\ UNCHANGED db
  /\ UNCHANGED <<pending, scan, user, net, known, busy, history, used>>

(* acknowledgePending of the detail that select, reconcilePending or       *)
(* settleActiveTurnAfterSync has read.                                     *)
ReadDetail(s) ==
  /\ Outside /\ online /\ Use("poll", MaxPoll)
  /\ {r \in known : SessionOf[r] = s} # {}
  /\ Acknowledge({r \in known : SessionOf[r] = s},
                 IF s \in busy THEN "detail" ELSE "settled")
  /\ UNCHANGED <<pending, replay, scan, user, net, bridge, history>>

(* Its continuation; settleActiveTurnAfterSync replays if the turn ended.  *)
Acked ==
  /\ Continue("acked")
  /\ pending' = Without(Head(io).rows)
  /\ \/ io' = Tail(io) /\ UNCHANGED replay
     \/ Head(io).of = "settled" /\ ReplayAfter(Tail(io))
  /\ UNCHANGED <<db, scan, user, net, bridge, history, used>>

-----------------------------------------------------------------------------
(* The user.                                                               *)

\* The request for row r is under way, or was refused.
Submitting(r) == current = r /\ replay \in {"posting", "accepted", "deferred"}

(* cancelQueued of an entry that isPendingCancellable: one of the outbox   *)
(* sheet, or the one in the editor, as it was when the editor was opened.  *)
CancelQueued(e) ==
  /\ Click /\ e # Hole /\ e.status \notin {"sending", "sent"}
  /\ \A i \in 1..Len(io) : io[i].kind = "dropped" => io[i].row # e.row  \* one click
  /\ cancelled' = cancelled \cup {e.row}
  /\ dropped' = dropped \cup {e.row}
  /\ late' = IF Submitting(e.row) THEN late \cup {e.row} ELSE late
  /\ db' = [db EXCEPT ![e.row] = "none"]
  /\ io' = Append(io, [kind |-> "dropped", row |-> e.row])
  /\ UNCHANGED <<pending, replay, scan, queued, net, bridge, excused, used>>

CancelInSheet ==
  /\ editing = Hole /\ UNCHANGED editing
  /\ \E i \in 1..Len(pending) : CancelQueued(pending[i])

CancelInEditor == CancelQueued(editing) /\ editing' = Hole

\* cancelledPendingIds after a cancelled row r has left pending.
StillCancelled(r) == IF replay = "idle" THEN cancelled \ {r} ELSE cancelled

Dropped ==
  /\ Continue("dropped")
  /\ pending' = Without({Head(io).row})
  /\ cancelled' = StillCancelled(Head(io).row)
  /\ io' = Tail(io)
  /\ UNCHANGED <<db, replay, scan, editing, queued, net, bridge, history, used>>

OpenEditor(r) ==
  /\ Outside /\ editing = Hole /\ Index(r) # 0 /\ Use("edit", MaxEdit)
  /\ editing' = pending[Index(r)]
  /\ UNCHANGED <<rows, io, replay, scan, cancelled, queued, net, bridge, history>>

(* savePendingEdit: the row is to be sent, whatever has become of it.      *)
SaveEdit ==
  /\ Outside /\ editing # Hole
  /\ LET r == editing.row
     IN /\ db' = [db EXCEPT ![r] = "pending"]
        /\ io' = Append(io, [kind |-> "edited", row |-> r])
        /\ dropped' = dropped \ {r} /\ excused' = excused \cup {r}
  /\ editing' = Hole
  /\ UNCHANGED <<pending, replay, scan, cancelled, queued, net, bridge, used, late>>

Edited ==
  /\ Continue("edited")
  /\ LET r == Head(io).row
     IN pending' = IF Index(r) = 0 THEN pending
                   ELSE Assign(Index(r), [row |-> r, status |-> "pending"])
  /\ io' = Append(Tail(io), [kind |-> "replay"])
  /\ UNCHANGED <<db, replay, scan, user, net, bridge, history, used>>

-----------------------------------------------------------------------------
(* The network, the event stream and the page.                             *)

\* The socket is lost, and with it perhaps the network.
LoseSocket ==
  /\ ~syncing /\ Use("lost", MaxLost)
  /\ online' \in BOOLEAN /\ syncing' = TRUE
  /\ UNCHANGED <<rows, io, replay, scan, user, bridge, history>>

GoOnline ==
  /\ ~online
  /\ online' = TRUE
  /\ UNCHANGED <<rows, io, replay, scan, user, syncing, bridge, history, used>>

(* The end of syncAll: the missed events are projected, the outbox is      *)
(* replayed.                                                               *)
Synced ==
  /\ Outside /\ online /\ syncing /\ wire = <<>>
  /\ syncing' = FALSE
  /\ ReplayAfter(io)
  /\ UNCHANGED <<rows, scan, user, online, bridge, history, used>>

\* Mutant: rows that failed are not kept.
KeptIfRetryable == {r \in Row : db[r] \in Retryable}

\* The rows a reset of the stream keeps.
Kept == {r \in Row : db[r] \notin {"none", "sent"}}

(* The bridge comes back with another stream, and syncAll of the new       *)
(* socket comes to resetSyncState: rows are quarantined, then pending is   *)
(* read anew.  The new stream has no old event, and this syncAll ends      *)
(* without replayOutbox.                                                   *)
Reset ==
  /\ Outside /\ online /\ Use("reset", MaxReset)
  /\ db' = [r \in Row |-> IF r \in Kept THEN "quarantined" ELSE "none"]
  /\ excused' = excused \cup Kept
  /\ io' = Append(io, [kind |-> "reset"])
  /\ wire' = <<>> /\ syncing' = FALSE
  /\ UNCHANGED <<pending, replay, scan, user, online, known, busy, dropped, late>>

ResetDone ==
  /\ Continue("reset")
  /\ io' = Append(Tail(io), [kind |-> "loaded", db |-> db])
  /\ UNCHANGED <<rows, replay, scan, user, net, bridge, history, used>>

Loaded ==
  /\ Continue("loaded")
  /\ pending' = Filtered([r \in Row |-> [row |-> r, status |-> Head(io).db[r]]], Entry)
  /\ io' = Tail(io)
  /\ UNCHANGED <<db, replay, scan, user, net, bridge, history, used>>

(* The page is opened anew: boot restores the row that was being sent.     *)
Reload ==
  /\ online /\ Use("reload", MaxReload)
  /\ db' = [r \in Row |-> IF db[r] = "sending" THEN "pending" ELSE db[r]]
  /\ pending' = <<>> /\ io' = <<[kind |-> "loaded", db |-> db']>>
  /\ replay' = "idle" /\ batch' = {} /\ todo' = {} /\ current' = 0 /\ blocked' = {}
  /\ cancelled' = {} /\ editing' = Hole /\ syncing' = TRUE
  /\ UNCHANGED <<queued, online, bridge, history>>

-----------------------------------------------------------------------------
Progress ==
  \/ Push \/ ReplayCalled \/ ReadItems \/ TakeItem \/ Marked \/ EndReplay
  \/ Serve \/ Answer \/ TakeEvent \/ Acked \/ Dropped \/ SaveEdit \/ Edited
  \/ GoOnline \/ Synced \/ ResetDone \/ Loaded
  \/ \E s \in Session : TurnEnds(s)

Next ==
  \/ Progress \/ Queue \/ Lost \/ LoseSocket \/ Reset \/ Reload
  \/ CancelInSheet \/ CancelInEditor
  \/ \E r \in Row : OpenEditor(r)
  \/ \E s \in Session : ReadDetail(s)

Spec == Init /\ [][Next]_vars

(* Handlers, promises and the bridge run; turns end; the network comes     *)
(* back; an editor is closed.  Progress cannot go on for ever by itself.   *)
FairSpec == Spec /\ WF_vars(Progress)

-----------------------------------------------------------------------------
Created == 1..queued

\* A step that posts the row current.
Posts == replay # "posting" /\ replay' = "posting"

(* No message is lost: a row that has left IndexedDB has become a turn, or *)
(* the user has cancelled it (acknowledgeClientIds, cancelQueued,          *)
(* resetSyncState, boot).                                                  *)
NothingLost == \A r \in Created : db[r] = "none" => r \in dropped \cup known

(* What the user has cancelled is not posted afterwards                    *)
(* (replayInSessionOrder, cancelledPendingIds), unless its request was     *)
(* under way when it was cancelled: then a refusal puts the row back       *)
(* (outbox.ts:65), and the next replay posts it.                           *)
CancelledNotPosted == [][Posts => current \notin dropped \ late]_vars

Earlier(r) == {q \in Created : SessionOf[q] = SessionOf[r] /\ q < r}

(* No replay lets a row pass an earlier one of its conversation, unless    *)
(* that one has become a turn, was cancelled, or was shown to the user as  *)
(* failed, quarantined or edited (blocked of replayInSessionOrder, and     *)
(* the order in which replayOutbox reads the rows).                        *)
PostedInOrder == [][Posts => Earlier(current) \subseteq known \cup dropped \cup excused]_vars

(* A queued message becomes a turn, unless it is cancelled or the user is  *)
(* shown why not: a refused one is kept and resumed by the next replay     *)
(* (outbox.test.ts:5), one queued meanwhile is replayed too                *)
(* (README.md:96).  It does not hold: replayOutbox returns at once while   *)
(* another replay is sending, and there may be no next one.                *)
EveryRowPosted ==
  \A r \in Row :
    queued >= r ~> r \in known \cup dropped \/ db[r] \in {"failed", "quarantined"}
=============================================================================
