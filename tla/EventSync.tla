----------------------------- MODULE EventSync ------------------------------
(***************************************************************************)
(* How a web client copies the event log of the bridge: Store.addEvent,    *)
(* the publish queue of index.ts, SessionService.sync, and in App.vue      *)
(* openWs, syncAll, drainSync, enqueueProject and project.  Sockets drop,  *)
(* requests are lost, the bridge restarts with its database or without,    *)
(* and the page is reloaded.                                               *)
(*                                                                         *)
(* Every socket the client opens has a number, its generation.  One run of *)
(* syncAll belongs to each, and several may be under way.                  *)
(***************************************************************************)
EXTENDS Naturals, Sequences

CONSTANTS
  Hidden,     \* sequence numbers of events this client has no access to
  PageSize,   \* the LIMIT of eventsAfter
  MaxSeq,     \* bound: events of one database
  MaxStream,  \* bound: databases
  MaxDrop     \* bound: lost sockets and requests, reopened sockets, restarts, reloads

ASSUME SyncAssumption ==
  /\ PageSize \in Nat \ {0}
  /\ MaxSeq \in Nat /\ MaxStream \in Nat \ {0} /\ MaxDrop \in Nat

VARIABLES
  stream,       \* stream_id of the database: a number, 0 being the empty id
  latest,       \* latestCursor: the last sequence number given out
  publishQueue, \* events whose access is being checked
  wire,         \* events sent to the client's socket and not received
  cursor,       \* IndexedDB: the cursor
  streamId,     \* IndexedDB: the stream id
  cache,        \* IndexedDB: the events
  wsGeneration, \* the number of the last socket
  phase,        \* how far that socket is
  buffered,     \* events received before it was synchronized
  projectQueue, \* tasks chained to projectQueue; the first one is running
  projecting,   \* what the running task awaits
  readCursor,   \* the cursor it has read
  sync,         \* the run of syncAll of each generation
  syncInFlight, \* the generation whose run others wait for, or 0
  drops         \* counts up to MaxDrop

serverVars == <<stream, latest, publishQueue>>
dbVars == <<cursor, streamId, cache>>
socketVars == <<wire, wsGeneration, phase, buffered>>
taskVars == <<projectQueue, projecting, readCursor>>
syncVars == <<sync, syncInFlight>>
vars == <<serverVars, dbVars, socketVars, taskVars, syncVars, drops>>

Generation == 1..(MaxDrop + 1)
Event == [stream : 1..MaxStream, seq : 1..MaxSeq]
Task == [event : Event, gen : Generation, of : {"sync", "live"}]
Page == [stream : 1..MaxStream, reset : BOOLEAN, cursor : 0..MaxSeq,
         more : BOOLEAN, events : SUBSET Event]
NoPage == [stream |-> 1, reset |-> FALSE, cursor |-> 0, more |-> FALSE, events |-> {}]
NoRun == [pc |-> "none", current |-> 0, requested |-> 0, resetApplied |-> FALSE,
          page |-> NoPage]
Run == [pc : {"none", "wait", "join", "begin", "fetch", "page", "apply", "stream"},
        current : 0..MaxSeq, requested : 0..MaxStream, resetApplied : BOOLEAN,
        page : Page]

TypeOK ==
  /\ stream \in 1..MaxStream
  /\ latest \in 0..MaxSeq
  /\ publishQueue \in Seq(Event) /\ wire \in Seq(Event) /\ buffered \in Seq(Event)
  /\ cursor \in 0..MaxSeq /\ readCursor \in 0..MaxSeq
  /\ streamId \in 0..MaxStream
  /\ cache \subseteq Event
  /\ wsGeneration \in 0..(MaxDrop + 1)
  /\ phase \in {"none", "connecting", "accepted", "opening", "draining", "live", "closed"}
  /\ phase # "none" => wsGeneration # 0
  /\ projectQueue \in Seq(Task)
  /\ projecting \in {"idle", "put", "read"}
  /\ projecting # "idle" => projectQueue # <<>>
  /\ sync \in [Generation -> Run]
  /\ syncInFlight \in {0} \cup Generation
  /\ drops \in 0..MaxDrop

Init ==
  /\ stream = 1 /\ latest = 0 /\ publishQueue = <<>>
  /\ wire = <<>> /\ wsGeneration = 0 /\ phase = "none" /\ buffered = <<>>
  /\ cursor = 0 /\ streamId = 0 /\ cache = {}
  /\ projectQueue = <<>> /\ projecting = "idle" /\ readCursor = 0
  /\ sync = [g \in Generation |-> NoRun] /\ syncInFlight = 0
  /\ drops = 0

-----------------------------------------------------------------------------
(* The server.                                                             *)

(* CodexManager.record: addEvent, then the 'event' listener of index.ts,   *)
(* which chains the access check and the publication to publishQueue.      *)
Record ==
  /\ latest < MaxSeq
  /\ latest' = latest + 1
  /\ publishQueue' = Append(publishQueue, [stream |-> stream, seq |-> latest + 1])
  /\ UNCHANGED <<stream, dbVars, socketVars, taskVars, syncVars, drops>>

Connected == phase \in {"accepted", "opening", "draining", "live"}

(* canAccessEvent has answered for the first event of the queue: it goes   *)
(* to the sockets that are open now.                                       *)
Publish ==
  /\ publishQueue # <<>>
  /\ publishQueue' = Tail(publishQueue)
  /\ wire' = IF Connected /\ Head(publishQueue).seq \notin Hidden
             THEN Append(wire, Head(publishQueue)) ELSE wire
  /\ UNCHANGED <<stream, latest, dbVars, wsGeneration, phase, buffered, taskVars,
                 syncVars, drops>>

\* What of a range of the log the client may see.
Visible(lo, hi) == {e \in Event : e.stream = stream /\ e.seq \in lo..hi \ Hidden}

\* Mutant: the page carries the cursor of the whole log.
PageToEnd(c, s) ==
  [stream |-> stream, reset |-> FALSE, cursor |-> latest, more |-> FALSE,
   events |-> IF c < latest THEN Visible(c + 1, c + 1) ELSE {}]

(* SessionService.sync for cursor c and stream id s.                       *)
SyncPage(c, s) ==
  LET reset == \/ s # 0 /\ s # stream
               \/ s = 0 /\ c > 0
               \/ c > latest
      start == IF reset THEN 0 ELSE c
      end == IF start + PageSize < latest THEN start + PageSize ELSE latest
  IN [stream |-> stream, reset |-> reset, cursor |-> end, more |-> end < latest,
      events |-> Visible(start + 1, end)]

ServeSync(g) ==
  /\ sync[g].pc = "fetch"
  /\ sync' = [sync EXCEPT ![g].pc = "page",
                          ![g].page = SyncPage(sync[g].current, sync[g].requested)]
  /\ UNCHANGED <<serverVars, dbVars, socketVars, taskVars, syncInFlight, drops>>

-----------------------------------------------------------------------------
(* The socket of the client.                                               *)

(* openWs: the previous socket is closed, what it had buffered is dropped. *)
OpenSocket ==
  /\ wsGeneration <= MaxDrop
  /\ wsGeneration' = wsGeneration + 1
  /\ phase' = "connecting"
  /\ wire' = <<>> /\ buffered' = <<>>
  /\ UNCHANGED <<serverVars, dbVars, taskVars, syncVars>>

(* boot, or the retry timer that onclose has set.                          *)
Reopen == phase \in {"none", "closed"} /\ OpenSocket /\ UNCHANGED drops

(* onTokenRefreshed or network, unless wsReconnecting.                     *)
Replace == phase = "live" /\ drops < MaxDrop /\ drops' = drops + 1 /\ OpenSocket

(* attachWs: the server has accepted the upgrade and publishes to it.      *)
Accept ==
  /\ phase = "connecting"
  /\ phase' = "accepted"
  /\ UNCHANGED <<serverVars, dbVars, wire, wsGeneration, buffered, taskVars, syncVars,
                 drops>>

\* Mutant: a run of syncAll does not wait for the one of an older socket.
EnterAtOnce(g) ==
  /\ sync' = [sync EXCEPT ![g].pc = "begin"]
  /\ syncInFlight' = g

(* syncAll: wait for a run of an older socket, else start one.             *)
EnterSync(g) ==
  IF syncInFlight = 0
  THEN /\ sync' = [sync EXCEPT ![g].pc = "begin"]
       /\ syncInFlight' = g
  ELSE /\ sync' = [sync EXCEPT ![g].pc = "wait"]
       /\ UNCHANGED syncInFlight

(* onopen.                                                                 *)
Opened ==
  /\ phase = "accepted"
  /\ phase' = "opening"
  /\ EnterSync(wsGeneration)
  /\ UNCHANGED <<serverVars, dbVars, wire, wsGeneration, buffered, taskVars, drops>>

Enqueue(e, g, of) ==
  projectQueue' = Append(projectQueue, [event |-> e, gen |-> g, of |-> of])

\* Mutant: live events are projected before the pages have been applied.
ReceiveAtOnce ==
  /\ phase \in {"opening", "draining", "live"} /\ wire # <<>>
  /\ wire' = Tail(wire)
  /\ Enqueue(Head(wire), wsGeneration, "live")
  /\ UNCHANGED <<serverVars, dbVars, wsGeneration, phase, buffered, projecting,
                 readCursor, syncVars, drops>>

(* onmessage: project the event, or keep it until synchronized.            *)
Receive ==
  /\ phase \in {"opening", "draining", "live"} /\ wire # <<>>
  /\ wire' = Tail(wire)
  /\ IF phase = "live"
     THEN Enqueue(Head(wire), wsGeneration, "live") /\ UNCHANGED buffered
     ELSE buffered' = Append(buffered, Head(wire)) /\ UNCHANGED projectQueue
  /\ UNCHANGED <<serverVars, dbVars, wsGeneration, phase, projecting, readCursor,
                 syncVars, drops>>

\* Some task of this origin has not been worked off.
Awaited(g, of) ==
  \E i \in 1..Len(projectQueue) : projectQueue[i].gen = g /\ projectQueue[i].of = of

(* The loop of onopen over buffered: one event after the other, awaited.   *)
(* Events arrive in the order of seq, so its sort changes nothing.         *)
DrainBuffered ==
  /\ phase = "draining" /\ ~Awaited(wsGeneration, "live")
  /\ IF buffered # <<>>
     THEN /\ Enqueue(Head(buffered), wsGeneration, "live")
          /\ buffered' = Tail(buffered)
          /\ UNCHANGED phase
     ELSE /\ phase' = "live"
          /\ UNCHANGED <<projectQueue, buffered>>
  /\ UNCHANGED <<serverVars, dbVars, wire, wsGeneration, projecting, readCursor,
                 syncVars, drops>>

-----------------------------------------------------------------------------
(* enqueueProject and project.                                             *)

(* A task of an older socket is dropped; else the event is stored first.   *)
Project ==
  /\ projectQueue # <<>> /\ projecting = "idle"
  /\ IF Head(projectQueue).gen = wsGeneration
     THEN /\ projecting' = "put"
          /\ cache' = cache \cup {Head(projectQueue).event}
          /\ UNCHANGED projectQueue
     ELSE /\ projectQueue' = Tail(projectQueue)
          /\ UNCHANGED <<projecting, cache>>
  /\ UNCHANGED <<serverVars, cursor, streamId, socketVars, readCursor, syncVars, drops>>

(* Acknowledgement, projection and the read of the approvals are over:     *)
(* await cursor().                                                         *)
ProjectRead ==
  /\ projecting = "put"
  /\ projecting' = "read"
  /\ readCursor' = cursor
  /\ UNCHANGED <<serverVars, dbVars, socketVars, projectQueue, syncVars, drops>>

(* setCursor(Math.max(...)); the task is done.                             *)
ProjectWrite ==
  /\ projecting = "read"
  /\ LET seq == Head(projectQueue).event.seq
     IN cursor' = IF seq > readCursor THEN seq ELSE readCursor
  /\ projectQueue' = Tail(projectQueue)
  /\ projecting' = "idle" /\ readCursor' = 0
  /\ UNCHANGED <<serverVars, streamId, cache, socketVars, syncVars, drops>>

-----------------------------------------------------------------------------
(* A run of syncAll.                                                       *)

\* Mutant: the runs that wait for this one are forgotten.
SettleAlone(g, ok) ==
  /\ sync' = [sync EXCEPT ![g] = NoRun]
  /\ syncInFlight' = 0
  /\ phase' = IF g = wsGeneration /\ phase = "opening"
              THEN IF ok THEN "draining" ELSE "closed"
              ELSE phase

(* The promise of g's run settles.  The first that waited for it runs; the *)
(* others find that run in flight and return its promise.  onopen of the   *)
(* current socket goes on, or closes the socket.                           *)
Settle(g, ok) ==
  LET waiting == {h \in Generation : sync[h].pc = "wait"}
      settled == {g} \cup {h \in Generation : sync[h].pc = "join"}
      isNext(h) == h \in waiting /\ \A k \in waiting : h <= k
  IN /\ sync' = [h \in Generation |->
                   IF h \in settled THEN NoRun
                   ELSE IF isNext(h) THEN [sync[h] EXCEPT !.pc = "begin"]
                   ELSE IF h \in waiting THEN [sync[h] EXCEPT !.pc = "join"]
                   ELSE sync[h]]
     /\ \/ waiting = {} /\ syncInFlight' = 0
        \/ \E h \in waiting : isNext(h) /\ syncInFlight' = h
     /\ phase' = IF wsGeneration \in settled /\ phase = "opening"
                 THEN IF ok THEN "draining" ELSE "closed"
                 ELSE phase

(* await streamId(), await cursor(), and the first request.                *)
BeginSync(g) ==
  /\ sync[g].pc = "begin"
  /\ sync' = [sync EXCEPT ![g].pc = "fetch", ![g].current = cursor,
                          ![g].requested = streamId]
  /\ UNCHANGED <<serverVars, dbVars, socketVars, taskVars, syncInFlight, drops>>

(* drainSync gives up when a second page asks for a reset.                 *)
TakeSecondReset(g) ==
  /\ sync[g].pc = "page" /\ sync[g].page.reset /\ sync[g].resetApplied
  /\ Settle(g, FALSE)
  /\ UNCHANGED <<serverVars, dbVars, wire, wsGeneration, buffered, taskVars, drops>>

(* resetSyncState, one transaction.                                        *)
ResetSyncState == cache' = {} /\ cursor' = 0 /\ streamId' = 0

\* Mutant: after a reset the position in the old log is kept.
TakePageKeepsCurrent(g) ==
  /\ sync[g].pc = "page" /\ ~(sync[g].page.reset /\ sync[g].resetApplied)
  /\ sync' = [sync EXCEPT
       ![g].pc = "apply",
       ![g].requested = sync[g].page.stream,
       ![g].resetApplied = sync[g].resetApplied \/ sync[g].page.reset]
  /\ IF sync[g].page.reset /\ g = wsGeneration THEN ResetSyncState ELSE UNCHANGED dbVars
  /\ UNCHANGED <<serverVars, socketVars, taskVars, syncInFlight, drops>>

(* A page arrives; the reset is applied unless the socket has been         *)
(* replaced.                                                               *)
TakePage(g) ==
  /\ sync[g].pc = "page" /\ ~(sync[g].page.reset /\ sync[g].resetApplied)
  /\ sync' = [sync EXCEPT
       ![g].pc = "apply",
       ![g].requested = sync[g].page.stream,
       ![g].resetApplied = sync[g].resetApplied \/ sync[g].page.reset,
       ![g].current = IF sync[g].page.reset THEN 0 ELSE sync[g].current]
  /\ IF sync[g].page.reset /\ g = wsGeneration THEN ResetSyncState ELSE UNCHANGED dbVars
  /\ UNCHANGED <<serverVars, socketVars, taskVars, syncInFlight, drops>>

(* apply: the next event of the page, once the one before it is projected. *)
ApplyEvent(g) ==
  /\ sync[g].pc = "apply" /\ ~Awaited(g, "sync")
  /\ \E e \in sync[g].page.events :
       /\ \A f \in sync[g].page.events : e.seq <= f.seq
       /\ sync' = [sync EXCEPT ![g].page.events = sync[g].page.events \ {e}]
       /\ IF g = wsGeneration THEN Enqueue(e, g, "sync") ELSE UNCHANGED projectQueue
  /\ UNCHANGED <<serverVars, dbVars, socketVars, projecting, readCursor, syncInFlight,
                 drops>>

PageApplied(g) ==
  sync[g].pc = "apply" /\ sync[g].page.events = {} /\ ~Awaited(g, "sync")

\* The cursor only grows: a page that says there is more is never empty, so
\* "sync cursor did not advance" is not thrown.
Advanced(g) ==
  IF sync[g].page.cursor > sync[g].current THEN sync[g].page.cursor ELSE sync[g].current

NextPage(g) ==
  /\ PageApplied(g) /\ sync[g].page.more
  /\ sync' = [sync EXCEPT ![g].pc = "fetch", ![g].current = Advanced(g),
                          ![g].page = NoPage]
  /\ UNCHANGED <<serverVars, dbVars, socketVars, taskVars, syncInFlight, drops>>

(* drainSync returns: the run of a replaced socket ends here, the other    *)
(* stores the cursor.                                                      *)
StoreCursor(g) ==
  /\ PageApplied(g) /\ ~sync[g].page.more /\ g = wsGeneration
  /\ cursor' = Advanced(g)
  /\ sync' = [sync EXCEPT ![g].pc = "stream"]
  /\ UNCHANGED <<serverVars, streamId, cache, socketVars, taskVars, syncInFlight, drops>>

AbandonRun(g) ==
  /\ PageApplied(g) /\ ~sync[g].page.more /\ g # wsGeneration
  /\ Settle(g, TRUE)
  /\ UNCHANGED <<serverVars, dbVars, wire, wsGeneration, buffered, taskVars, drops>>

(* setStreamId, and the rest of the run.                                   *)
StoreStream(g) ==
  /\ sync[g].pc = "stream"
  /\ streamId' = sync[g].requested
  /\ Settle(g, TRUE)
  /\ UNCHANGED <<serverVars, cursor, cache, wire, wsGeneration, buffered, taskVars, drops>>

-----------------------------------------------------------------------------
(* What goes wrong, MaxDrop times.                                         *)

Drop == drops < MaxDrop /\ drops' = drops + 1

(* onclose.                                                                *)
LoseSocket ==
  /\ phase \in {"connecting", "accepted", "opening", "draining", "live"} /\ Drop
  /\ phase' = "closed"
  /\ wire' = <<>> /\ buffered' = <<>>
  /\ UNCHANGED <<serverVars, dbVars, wsGeneration, taskVars, syncVars>>

LoseRequest(g) ==
  /\ sync[g].pc \in {"fetch", "page"} /\ Drop
  /\ Settle(g, FALSE)
  /\ UNCHANGED <<serverVars, dbVars, wire, wsGeneration, buffered, taskVars>>

(* The bridge dies and comes back, with its database or with a new one.    *)
(* Its sockets are seen to close before it serves again.                   *)
RestartBridge(newStream) ==
  /\ Drop
  /\ newStream \in stream..MaxStream /\ newStream <= stream + 1
  /\ stream' = newStream
  /\ latest' = IF newStream = stream THEN latest ELSE 0
  /\ publishQueue' = <<>>
  /\ phase' = IF phase \in {"none", "connecting"} THEN phase ELSE "closed"
  /\ wire' = <<>> /\ buffered' = <<>>
  /\ UNCHANGED <<dbVars, wsGeneration, taskVars, syncVars>>

(* The page is closed and opened again: IndexedDB is what remains.         *)
(* wsGeneration starts anew in the code; nothing that compares it is left. *)
Reload ==
  /\ Drop
  /\ phase' = "none" /\ wire' = <<>> /\ buffered' = <<>>
  /\ projectQueue' = <<>> /\ projecting' = "idle" /\ readCursor' = 0
  /\ sync' = [g \in Generation |-> NoRun] /\ syncInFlight' = 0
  /\ UNCHANGED <<serverVars, dbVars, wsGeneration>>

-----------------------------------------------------------------------------
SyncStep(g) ==
  \/ BeginSync(g) \/ ServeSync(g) \/ TakeSecondReset(g) \/ TakePage(g) \/ ApplyEvent(g)
  \/ NextPage(g) \/ StoreCursor(g) \/ AbandonRun(g) \/ StoreStream(g)

Progress ==
  \/ Publish \/ Reopen \/ Accept \/ Opened \/ Receive \/ DrainBuffered
  \/ Project \/ ProjectRead \/ ProjectWrite
  \/ \E g \in Generation : SyncStep(g)

Next ==
  \/ Record \/ Progress
  \/ Replace \/ LoseSocket \/ Reload
  \/ \E s \in 1..MaxStream : RestartBridge(s)
  \/ \E g \in Generation : LoseRequest(g)

Spec == Init /\ [][Next]_vars

(* The page, the bridge and the network each do what they can: handlers,   *)
(* promises and the retry timer run, and requests that are not lost are    *)
(* answered.  No step of Progress can be repeated for ever, so fairness of *)
(* all of them together is enough.                                         *)
FairSpec == Spec /\ WF_vars(Progress)

-----------------------------------------------------------------------------
(* Properties.                                                             *)

Missing == {n \in 1..latest : n \notin Hidden /\ [stream |-> stream, seq |-> n] \notin cache}

(* What is said of the events holds up to a first failure.  After a second *)
(* one, two newer sockets may wait for one run, and the second of them     *)
(* takes for its own the run of the first, which is replaced: its pages    *)
(* are skipped, and live events pass the cursor over them (App.vue:115).   *)
OneFailure == drops <= 1

(* What the client will not ask for again it has: no event up to the       *)
(* cursor is missing from IndexedDB (README.md:60, setCursor, syncAll).    *)
(* This is about the first database: after a change of database, a task    *)
(* of an older socket that has read the cursor still writes it             *)
(* (App.vue:206 asks for the generation before its awaits only).           *)
CursorCovers == OneFailure /\ stream = 1 => \A n \in Missing : n > cursor

(* Pages first, then live events: when an event is stored by the           *)
(* synchronization, no earlier one of its log is missing (README.md:62,    *)
(* buffered and synchronized).  The events of details are put into the     *)
(* same table when a conversation is opened (cacheEvents, App.vue:158,     *)
(* 375), in no such order; no cursor depends on them, and cache leaves     *)
(* them out.                                                               *)
StoredInOrder ==
  [][OneFailure' =>
       \A e \in cache' \ cache : e.stream = stream =>
         \A n \in 1..(e.seq - 1) : n \in Hidden \/ [stream |-> stream, seq |-> n] \in cache]_vars

(* Runs of syncAll do not overlap: no page of one is applied between two   *)
(* pages, or a reset and a page, of another (syncInFlight, App.vue:110).   *)
OneRunAtATime ==
  \A g, h \in Generation :
    {sync[g].pc, sync[h].pc} \cap {"none", "wait", "join"} = {} => g = h

(* Whatever failed before, the client is at last synchronized: no run      *)
(* waits for ever for another, and no lost socket stays lost (syncAll,     *)
(* onclose).                                                               *)
Reconnects == <>[](phase = "live")

(* After the failure, the client has every event it may see (openWs and    *)
(* its retry timer, syncAll, live events).                                 *)
CatchesUp == []OneFailure => <>[](Missing = {})

=============================================================================
