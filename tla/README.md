# Codex Remote: TLA+ models, model checking and proofs

Codex Remote lets a browser or phone drive the Codex agent of a host. This
directory models the parts of it that are hard to get right: what becomes of a
message when anything in between fails, who answers an approval when processes are
replaced, how a client copies the event log, how its outbox empties, what it shows of a
conversation, which sessions it is shown, how the state file of Codex Desktop is
rewritten, and how the client keeps its pairing and its socket. Paths below are relative to the repository; the server is
`packages/server/src`, the web client `packages/web/src`.

## 1. The system

| component | state | operations | talks to |
|---|---|---|---|
| `codex/json-rpc-client.ts` | `pending` requests with timers, `started` | request, notify, respond, line, fail, close | app-server process, manager (events) |
| `codex/app-server-process.ts` | one child | start, write, stop (close stdin, wait 1.5 s, kill) | the Codex app-server over stdio |
| `codex/manager.ts` | `initialized`, `resumed`, `active`, `completed`, `queues`, `epoch` | ready, resume, startTurn, interrupt, restartConnection, notification, serverRequest, decide | RPC client, store |
| `db.ts` (SQLite, synchronous) | idempotency rows, approvals, events with `seq`, `stream_id`, devices, overlays | one statement each | everybody |
| `service.ts` | access cache, rollout mtimes | message, cancel, decide, sync, list, detail | manager, store, catalog, desktop state |
| `codex-sessions.ts` | catalog of rollout files, running scan | refresh, detail, parsing of rollouts | file system |
| `desktop-state.ts` | four caches; the files belong to Codex Desktop | getState, getDeletedThreadIds, getLockedThreadIds, registerThread | file system |
| `auth.ts`, `app.ts` | devices, pair codes, pairing limiter | pair, refresh, verify, revoke | store |
| `index.ts`, `ws.ts` | publish queue, sockets, missed pings | publish, heartbeat, shutdown | manager (events), clients |
| web `outbox.ts`, `App.vue` | pending rows in IndexedDB, `sending` | queue, replay, acknowledge, edit, cancel | server over HTTP |
| web `sync.ts`, `eventProjection.ts`, `App.vue` | cursor, stream id, cached events | sync, project, reset | server over HTTP and WebSocket |
| web `api.ts`, `secureStorage.ts`, `App.vue` | tokens, `manualClose`, timers | refresh, reconnect, offline mode | server |

One JavaScript thread runs the bridge, so code is atomic from one `await` to the
next; everything else interleaves: handlers with each other, with the lines of the
child's stdout, with timers, with the exit of the child, with the death of the bridge.
What each component must keep:

* **turns**: one `client_id` becomes at most one turn; what a caller is told is true;
  one turn at a time on a thread; nobody waits for ever; `active` means running.
* **approvals**: one answer per request, to the process that asked; nothing pending
  from a process that is gone; a resolved row stays resolved.
* **event store and sync**: no event is skipped or applied twice, in whatever order
  pages and live events come; a reset restarts from nothing.
* **outbox**: every queued message is posted until the server knows it, in order per
  session, and an acknowledged row does not come back.
* **tokens and connection**: a session is not lost by a lost response; a dropped
  socket is reopened.
* **catalog, lists, access**: a forced refresh sees what was there when it was asked for;
  a deleted session is not listed; the verdicts on access settle.
* **desktop state**: a registration replaces what it has read; a cache entry in use is never of an earlier time.

The hazards behind these are listed, at their lines, in `PROJECT.json`.

## 2. Plan

Done, each with its model-checking module and, where named, its proofs:

1. `TurnBridge` with `MessageOnce` as its abstract specification, `TurnBridgeProofs`.
2. `Approvals`, `ApprovalsProofs`.
3. `Outbox`, `OutboxProofs`.
4. `EventSync`, `EventSyncProofs`.
5. `Timeline`, `TimelineProofs`.
6. `DesktopViews`, `DesktopState`, `DesktopStateProofs`.
7. `SessionCatalog`, and `SessionList`, which composes it with `DesktopViews`;
   `SessionListProofs` about both.
8. `ClientSession`, `ClientSessionProofs`.

Left:

* `Delivery`: `Outbox` composed with `MessageOnce` in the place of the bridge, which
  `TurnBridge` is proved to implement; end-to-end exactly-once where it holds, and the
  row that stays uncertain although nothing was sent (`service.ts:287` against
  `docs/REMOTE-ACCESS.md:77`).
* an abstract specification for `EventSync` (a log copied prefix by prefix).
* in `Timeline`: streamed deltas, optimistic messages, several conversations.

Recursion is written as recursive functions or folds, so that every module can be proved about; the
folds of Timeline are functions of how many elements have been taken (`Folded`), which the prover
can unfold step by step.

## 3. Modules

### TurnBridge: from POST to turn

`TurnBridge.tla` models `SessionService.message` and `cancel` (`service.ts:270-292`), the
idempotency table (`db.ts:37-44`), `CodexManager.ready`, `resume`, `startTurn`, `interrupt`,
`restartConnection`, `serial`, `notification` and the `unavailable` listener
(`manager.ts:31-70`), the JSON-RPC client and the child process.

* A message key stands for a pair (session, `client_id`), a call for one HTTP request that
  carries it; a retry is another call of the same key.
* `pc[k]` is what call `k` awaits, `res[k]` the promise it awaits there: the RPC client's
  entry in `pending` when it is `"pending"`, else settled but not yet looked at. That
  separation is what lets a notification be handled between a response and the code after
  the `await`.
* `try[k]` is the attempt of `startTurn` (1 or 2), 0 for a call that did not insert the
  row. The turn a start request may create is named by its call and attempt, so no request
  runs twice and `AtMostOnce` speaks of real turns.
* `queue[t]` is the promise chain of a thread. `active`, `completed`, `resumed`,
  `initialized` are the manager's fields.
* `inbox` and `out` are the child's stdin and stdout; `proc = "ending"` while `stop()` waits
  for it. A write to the ended stdin is lost (or ends the bridge: nobody listens to the
  stream's error; `BridgeRestart` covers it).
* `ProcessExit` is the `exit` event: `fail` rejects all pending requests, the listener marks
  all pending rows uncertain, stores `turn_failed` for the active turns and clears the maps,
  and only then do the rejected calls go on. Lines already written stay in `out`: Node may
  emit them after `exit`. The event loop takes the exit only when no continuation is left
  (`Quiet`).
* `BridgeRestart` is a crash: memory is gone, the table stays, `migrate` marks pending rows
  uncertain. Start requests left in the old child's stdin are `orphaned` and may still run.
* The app-server is external, taken as the bridge uses it: it handles requests in any order
  or never, answers with an error only if it did not start the turn, announces turns before
  or after the response to `turn/start`, and `thread/read` shows the turns whose user
  message it has recorded. A running turn of an orphaned child is not shown to the next
  child as one that can be interrupted.

Left out: messages without `client_id` (the web client always sends one), input items beyond
"refused or not", `runtime` options, 200-row limit of `findAcceptedTurn`.

`MessageOnce.tla` is the promise without the machinery: a key is open while a turn may be
started for it, at most one turn is started for it, and a caller is told the turn, that there
is and will be none, or nothing certain. `KeepsMessageOnce` maps it: a key is open when it
has a row; `accepted` is what Codex started; `AnswerOf` reads the answer from `pc` and `val`.
A refusal in `MessageOnce` closes the key for good as far as past requests go: no start
request may still be under way, which is the point that is easy to get wrong.

### Approvals: who answers, and whom

`Approvals.tla` models `serverRequest` and `decide` (`manager.ts:72-88`), the approvals table
(`db.ts:28-34`), `SessionService.decide`, and of the connection what they depend on: `started`,
the child, the epoch. Children are numbered, each counts its JSON-RPC ids from 0; a row is
keyed by the epoch in which its line was *read* and that id. Every loss of the connection and
every start of a bridge begins a new epoch (`Date.now()` at start, taken to be ahead of every
epoch used before). `decide` is one synchronous stretch after an awaited access check, split
by its exits: `Conflict`, `Invalid`, `Revert`, `Resolve`. `late` (requests read after their
child's exit), and `answers` (responses that reached a child) are history variables.
A response written to an ended stdin counts as resolved and never arrives: the error comes
too late for `revertApproval`.

### EventSync: how a client copies the event log

`EventSync.tla` models `addEvent`, the publish queue and `SessionService.sync` on the server
(`db.ts:49-52`, `index.ts:17-18`, `service.ts:310`) and, for one client, `openWs`, `syncAll`,
`drainSync`, `enqueueProject`, `project` as far as it concerns events and cursor, and
`resetSyncState` (`App.vue:91-133, 183-283`, `sync.ts`).

* An event is its database (`stream`) and its `seq`. `Hidden` are the events the client has
  no access to: they take up numbers and are left out of pages and publications.
* `phase` is how far the current socket is; it is also `wsReconnecting` (connecting to
  draining). `wire` holds what was sent to it. Older sockets do nothing any more; what is
  left of them is their run of `syncAll`, `sync[g]`, and their tasks in `projectQueue`.
* `sync[g].pc`: `wait` for an older run, `join` (return the promise of the run that another
  waiter has started), then `fetch`, `page`, `apply` per page, `stream` before `setStreamId`.
* A task of `projectQueue` is split at its awaits: store the event, read the cursor, write it.
* `RestartBridge` comes with the old database or a new one; the sockets of the dead process
  are seen to close before the new one serves. `Reload` keeps IndexedDB only.

Left out: `manualClose` (false while paired), capability messages, IndexedDB failures, and the events
of details, which `cacheEvents` puts into the same table when a conversation is opened
(`App.vue:158, 375`): they come in no order, and no cursor depends on them. The exception "sync cursor did not advance" cannot be thrown: a page that says there is more has a
last event.

### Outbox: two copies of a queue

`Outbox.tla` models `queueMessage`, `replayOutbox` with `mark`, `replayInSessionOrder`,
`acknowledgeClientIds`, `cancelQueued`, the editor, and what `resetSyncState`, `syncAll` and
`boot` do to the rows (`App.vue:91-108, 163-208, 294-349`, `outbox.ts:48-74`).

* A row is a number, in the order of creation. `db` is its status in IndexedDB, `pending` the
  array on screen, whose entries are replaced by index: an assignment past the end makes a
  `Hole`.
* IndexedDB runs its operations in the order they are issued. An operation takes effect when
  it is issued; its continuation waits in `io`, first in, first out. Between the two lie the
  races: `mark` looks up `Index(r)` when it issues its put and assigns when it continues.
* `replay` is what `replayOutbox` awaits; it is idle exactly when `sending` is false. While it
  is `"next"` the code runs without an await, so nothing else happens (`Ready`).
* The bridge is reduced to what `TurnBridge` guarantees: a `client_id` becomes one turn, a
  thread with a turn in progress refuses with 409. Turns of others may be in progress at first.
* `online` stands for the network and for `serverOffline`; a lost socket may leave it TRUE.
* `Reset` stands for the restart of the bridge with a new stream and the sync that finds it.
* `dropped` remembers what the user has cancelled, `late` which of it while a request for the row was
  under way, `excused` which rows have failed, been quarantined or edited.

Left out: message texts, failures of IndexedDB, creation of a draft conversation, 401s. What the
page does once `pending` has a hole, where it throws, is not modelled.

### Timeline: from what Codex writes to what the user sees

`Timeline.tla` models one conversation: the reading of its rollout (`codex-sessions.ts:85-331,
387-406`), `SessionService.detail` with `threadHistoryMessages`, `mergeHistoryMessages`,
`mergeEvents` and `reconcileTurnLifecycle` (`service.ts:221-252, 338-452`), and in the client
`select`, `settleActiveTurnAfterSync`, `project`, `mergeBridgeEvent`, `deriveActiveTurn`,
`externallyOccupied`, `dedupeMessages` and the hidden turns of the timeline.

* Codex is external. A turn is started by the bridge or by the desktop app; it writes its
  `lines`, of which the first `written` are on disk, and for the bridge's turns sends `notes`.
  Prompts and replies are written twice, as event and as item. A rollback line names no turn.
  `thread/read` shows every turn Codex knows of.
* `stored` is what `notification` and the `unavailable` listener put in the store; the number
  of an event follows `StoreBase`, the events of other conversations, and bears no relation to the numbers
  of lines. `active` is set by
  `turn/started`; the answer of `turn/start`, which sets it too, is taken to come with it.
* `request` is the request for details under way, with the thread and the number of lines it has
  read so far; the stored events are read by `Detail`, when both are there. Messages and events
  of the rollout are read by two scans of the same file; they are taken to see the same lines.
* `scanned` is how many lines the catalog's last scan (`Scan`) has read: none, and the session is not
  known to the catalog, so that a request has no rollout, or fewer than are on disk. A request notes it in
  `seen`: it is the `updated_at` of the answer. The messages of the thread get their times
  from it (`Times`): the last item has it, those before it lie ten milliseconds apart and earlier, on
  whatever side of the lines that may be. With neither a thread nor a rollout the answer is 404
  (`Unknown`), and the view stays.
* `view` is what the client shows: the last answer, and the events of `wire` projected since.
  `Poll` is the five-second timer. One request is under way at a time.
* The times of messages are line numbers; `time` in `wire` is the line Codex had come to.
* `Conversation` is the reference: what the state of Codex itself says a reader should see.

Left out: deltas, references, optimistic (`local:`) messages, cached copies, the choice between
conversations, the tools in a thread whose rollout is not known. The items of one turn of a thread are
given one time.

### DesktopViews and DesktopState: the files of Codex Desktop

`DesktopViews.tla` holds the state file as far as the bridge reads it: projects with their
order, the list of threads outside projects, the assignment, hint and order of each thread; and
as pure operators what `desktop-state.ts` and `db.ts` derive from it (`projects`, `projectRoots`,
`projectOf`, the ghosts of the sidebar) and what `registerThread` makes of it (`Placed`).
`RootsOf` and `Path` stand for directories: a path is a sequence of names, a root contains what
it is a prefix of.

`DesktopState.tla` models `registerThread` (`desktop-state.ts:125-173`) and the three cached
readers (`getState`, `getDeletedThreadIds`, `getLockedThreadIds`) against Codex Desktop, which
writes the same files whenever it likes.

* A `call` is a request of the web client: it registers the threads of `todo` one by one, as the
  list does that repairs the sessions opened remotely, and reads the sources it needs.
* What was read carries an `Age`, not a content: `"now"` as long as nobody has written since. A read
  that fails (`LoadFails`) gives `"empty"` for the state file, which `getState` remembers like any
  other content; a backup that cannot be read is skipped (`"partial"`), a directory that cannot be
  read is not remembered.
  `cache`, and the content and mtime a call has in hand, age together at each write. `partial`
  is a directory of backups read while one was being written.
* The state file is read twice, content and mtime in parallel: `raced` is set if a write comes
  between the two, or after the last `stat` and before the `rename`. Neither can be noticed.
* The cache of the index of Codex Desktop is filled in one synchronous stretch and left out.
* `Retry` is the second attempt after the mtime was found changed; `RenameFails`, `ReadFails`,
  `StatFails` and `LoadFails` are bounded by `MaxFail`.

### SessionCatalog and SessionList: what is listed, and who may see it

`SessionCatalog.tla` models `refresh` of `codex-sessions.ts` with its five seconds of reuse, the
scan callers share, the walk of the directory and the reading of the files found one at a time.
A rollout has a form (`zst` cannot be read), a directory and the time of its last entry; Codex
appends to it, packs it or removes it at any moment. `ask[r].since` is what was on disk when a
reader asked, a history for `ForcedSees`.

`SessionList.tla` extends it with the service: `list` and its five sources, read one after
the other (`service.ts:134-209`), the check of the access to one session, shared while it is
under way (`canAccessSession`, `service.ts:115-123`), the verdict that `detail` gives on its way,
and `sessionAccess`, which all of them write. `req[r]` holds what a request has read so far, `gone` the
tombstones there were when a list began, `torn` whether the sidebar changed between the two reads
of it.

* Each read of a file of Codex Desktop is one step, and may fail; `CacheFresh` says that a cached
  answer is the present content or that of a failed or half-done read. `unread` are the files
  that cannot be read: the state file then counts as empty (`StateRead`) until it changes, the index as
  without rows. `unseen` are the tombstones the bridge does not see: all of them after a failed look
  at the backups, those of half-written backups until they are read again. Tombstones a list has missed leave `gone`.
* `canAccessEvent` gives a verdict of its own on an event that says where its session is: a live one, or one
  that `sync` reads again from the store, with the directory of that time (`EventVerdict`;
  `Announced` are the directories such events name).
* `catalog.detail` refreshes once more, unforced, when it does not know the session (`RefreshAgain`).

Left out: overlays (archive, rename) and the occupied mark; `service.create`, which grants access to a new
session no other request knows yet (`service.ts:215`); reads of a rollout that fail although the file
is there (`codex-sessions.ts:43`); the path of a sidebar entry is the
root of its project. `Codex`, the app-server, the index and the files are external and
change at any moment, `MaxChange` times.

### ClientSession: pairing, tokens and the WebSocket

`ClientSession.tla` models a page of the web client with the bridge it is paired with:
`issue`, `refresh`, `verify` and `revoke` of `auth.ts`, in the client `api.ts` (`refresh`,
`refreshInFlight`, the call repeated after a 401, `clearAuth`), `secureStorage.ts`, and of
`App.vue` `openWs`, `onclose`, the timers, boot, pairing, unpairing and the offline cache.

* A token is its device, whether its refresh token is the last given to that device, and whether
  its access token is still good. `held` are the tokens in IndexedDB (`store`), left in
  localStorage by an older version (`legacy`), in memory (`auth`) and of the socket.
* `ServerRefresh` makes every other token of the device old. The answer comes in steps: on the way
  (`answer`), in memory and being written (`storing`), stored. `lost` are devices given a token
  that never reached IndexedDB; `ended` those the bridge no longer accepts (revoked, forgotten
  after `refreshDays`, or volatile and the bridge restarted).
* `proc` is what waits for a refresh: requests, of which `poll` stands for all that are repeated,
  and the checks of the pairing when the page opens, at a retry and on leaving the cache. What goes
  on after a refresh is a step of its own, later than the code's, so the model allows more.
* `conn` is the socket with `wsReconnecting`, `manualClose`, the retry timer and its counter
  modulo 3. `Close` is seen by the page in a later `OnClose`.
* A token kept in storage is refreshed before it is used, so its access token counts as expired.
  `Expire` comes at any moment, except that a token lasts longer than it takes to store it, to
  connect or to call with it (`JustGiven`).

Left out: two pages that share one IndexedDB, the password of the cache, the configured address.
A pairing request whose answer is lost counts as failed without a device. The first branch of the
keepalive timer cannot be reached.

### Model-checking and proof modules

The `MC` modules name the constants for TLC. `TurnBridgeProofs`, `ApprovalsProofs`,
`EventSyncProofs`, `OutboxProofs`, `DesktopStateProofs`, `SessionListProofs` (which also holds what
is proved about SessionCatalog), `ClientSessionProofs` and `TimelineProofs` hold the theorems; the lemmas
about the state file in `DesktopStateProofs` are used by `SessionListProofs` too. Operators introduced by a comment
"Mutant:" are changed versions of the definition after them; no specification uses them, they
show that the properties can fail.

## 4. What TLC checks

| run | instance | properties |
|---|---|---|
| `retry` | one key posted twice, all requests may time out, one exit, one crash | `AtMostOnce`, `ReleasedNeverRuns`, `RecordedAnswersTrue`, `DoneIsFinal`, `KeepsMessageOnce` |
| `serial` | two keys and a cancel on one thread, no timeouts, no exits | `OneTurnPerThread`, `QueueServes`, `ActiveNotEnded` |
| `cancel` | a key and a cancel, all requests may time out, a turn of another process open | `EveryCallAnswered` |
| `decide` | two decisions, two children with two requests each, three epoch changes | `AnsweredOnce`, `OneWinner`, `AnswerReachesAsker`, `PendingIsCurrent`, `ResolvedIsFinal` |
| `replaced` | four events, the second hidden, pages of one, two failures, up to two databases | `CursorCovers`, `OneRunAtATime`, `StoredInOrder`, `CatchesUp`, `Reconnects` |
| `kept` | two messages of one conversation; a loss, a detail, an edit, a reset, a reload, cancellations | `NothingLost`, `PostedInOrder`, `CancelledNotPosted` |
| `refused` | two messages of one conversation, turns of it, no failure | `EveryRowPosted`: **violated**, see below |
| `history` | two turns of any kind and end, two prompts, a tool call in the first, one exit, every `updated_at`; no client | `HistoryExact`, `ActiveTrue` |
| `view` | one turn, a client, scans of the catalog, one failed read of the thread, a rollback | `ErasedHidden`, `Settles` |
| `desktop` | two threads, two projects; a list that repairs both again and again, a creation; one change, one failing read or write | `UpdatesKept`, `CacheFresh`, `PlacedOnce`, `RepairedAtLast` |
| `lists` | two sessions, one rollout, one project; a list and a visitor, announcing events; one change of anything, or one failing read | `DeletedHidden`, `OneRow`, `ChecksEnd`, `ForcedSees`, `AccessSettles`, `CatalogForward` |
| `client` | two pairings, the first by password; two requests or checks at a time; one fault | `KeepsPairing`, `ReloadKeepsPairing`, `StaysConnected` |

The largest instances are `kept` (8.1 million states), `view` (2.4), `desktop` (1.4), `lists` (1.3),
`client` (1.0) and `replaced` (1.0); each takes from one to three and a half minutes.

Why the bounds suffice for the question asked: duplicates of one key need two calls, one of which
still owns the row while the other reconciles, and each of the failures (timeout, exit, crash,
writer conflict) once at any point; `retry` has all of them together. Two attempts are all
`startTurn` makes. Two messages make a queue. What a writer conflict on one thread does to the calls
of others is left to the theorems, which hold for any number of threads. For approvals, two children
with two ids each in one epoch are what a collision needs, three epochs leave room for a restart of
the connection, an exit and a crash. For the log, events of which the second is hidden and pages of
one event give a gap, several pages, and live events during each; a run that waits and one that
joins need three sockets, two failures. For the outbox, two rows of one conversation show a row that
passes another, or is refused while it waits; `MaxWait` bounds how many continuations of IndexedDB may
wait when the user acts or an event comes, and `MaxClick`, one more, how many when a row is cancelled, where the
moment is the question (between `mark` and the continuation that posts). For the timeline, two turns
have every pair of neighbours, with the same or different prompts, and a rollback between a turn and
its retry; one turn is enough for an answer that is older than the view it replaces. `StoreBase` is
0, so that the numbers of the store and of the lines mix. For the state file, two registrations of which one may be of the same
thread, and a change of Codex Desktop between any two of their steps, are what a lost update needs;
a failure makes the second attempt. For the lists, a list and a check overlap in every order, and a
second session makes the rows of two sources meet; at first the index has a row of both or of none
(`Indexes`), and the first session is deleted or not. For the client, two devices let answers of a former pairing meet the next one, and two
things that ask for a refresh at a time let one join the other. What the bounds cut off, the
theorems below cover for every size, except where section 5 says otherwise.

**What is violated.** `EveryRowPosted` says that a queued message becomes a turn unless it is cancelled or
shown as failed, as `README.md:96`, the test `outbox.test.ts:5` and the text of a waiting row in the
outbox (`OutboxSheet.vue:14`) promise. In the run `refused` nothing fails. Two messages are queued and one replay posts both; the
second is refused, because the turn of the first is in progress. Before the replay has marked it as
waiting, that turn ends, and `turn_completed` calls `replayOutbox`, which returns at once: the first replay
is still sending (`App.vue:299`). It ends without looking again. Nothing posts the row until another turn ends, a
message is queued or the socket reconnects.

What the hypotheses of the properties, and the bounds, exclude because it does not hold:

* `OneTurnPerThread`: after a timeout the bridge no longer tracks a turn it started, and may
  start a second one beside it.
* `ActiveNotEnded`: a cancel may make a turn active whose end is already on its way; a
  `turn/started` line that readline emits after the exit, or after the restart of the connection that
  a writer conflict on another thread asks for, does the same. And `interrupt` makes a
  turn of another Codex process active (`manager.ts:54`, against the comment at `manager.ts:92`),
  whose end is not notified; later messages get a 409 until the connection restarts.
* `CursorCovers` after a change of database: `project` writes the cursor without asking again
  whether its socket is current (`App.vue:206`), over one that a reset has cleared. The window is
  narrow: the old task must outlive a reconnect.
* `CursorCovers`, `StoredInOrder` and `CatchesUp` after a second failure: when the sockets of two
  newer generations wait for the run of an older one, the first starts a run and the second
  returns that run's promise (`App.vue:114-115`). The run belongs to a socket that has been
  replaced, so what it fetches is skipped; the second socket counts as synchronized, projects
  live events over those it missed, and the cursor passes them, against `README.md:62`.
* `PostedInOrder` past a row that has failed, was quarantined or edited: `blocked` lives for one replay
  (`outbox.ts:70`), and the next one sends the later messages although the comment at
  `outbox.ts:69` says that they are blocked.
* `AnswerReachesAsker` for a request read after its child's exit (`late`): it gets the new epoch
  (`manager.ts:72`) and can be decided to the next child, against `docs/ARCHITECTURE.md:24`. The
  next child's request of the same id then makes `addEvent` throw in a stream callback (`thrown`).
* `HistoryExact` for a reply the catalog has not scanned, or that is timed before its line (`Timely`):
  `updated_at` is that of the last scan (`service.ts:237`), the thread's copy of a new reply sorts before
  its prompt, and `dedupeMessages` keeps that copy until the next scan.
* `ActiveTrue` when the end of a turn is in the store only, as after an exit, and has a number below that of
  the `task_started` line (`Misplaced`): `deriveActiveTurn` sorts both kinds of numbers together
  (`eventProjection.ts:8`), so such a turn counts as active for ever.
* `ErasedHidden` for a turn stored as failed: `mergeEvents` puts the stored status over
  `rolled_back` (`service.ts:402`).
* `Settles` with the view `Suspended`: `settleActiveTurnAfterSync` judges before its await only
  (`App.vue:143`). An answer from the middle of a turn of this client that is applied after the
  end shows the turn as active, and no poll corrects it.
* Of several rollbacks in a row only the first hides its turn (`codex-sessions.ts:270`); the
  model has none.
* `CancelledNotPosted` for a row that is cancelled while the request for it is under way (`late`): the editor
  judges by the entry as it was when it was opened, and a row that `mark` has not yet shown as being sent can be
  cancelled in the sheet. A refusal puts the row back (`outbox.ts:65`) and the next replay posts it,
  against `outbox.test.ts:11`.
* A row acknowledged by its event returns as failed when the answer of its request is lost
  (`outbox.ts:67`), and a running replay posts rows that a reset has quarantined
  (`App.vue:100`): the model shows both, no property excludes them.
* `mark` writes to an index it looked up before an await (`App.vue:299`); the entry it overwrites
  may be another's, or past the end. `NothingLost` does not depend on it.
* `UpdatesKept` for a registration that is `raced`: a write between its `readFile` and its `stat`
  (`desktop-state.ts:131`), or between the second `stat` and the `rename`, is overwritten. Lists
  repair what they look after (`RepairedAtLast`), the rest stays lost.
* `CacheFresh`, two contents that are not the present one: a read of the state file that fails counts as `{}` and is remembered
  under the present mtime (`desktop-state.ts:98-118`), so that projects, hints and assignments are
  gone until Codex Desktop writes the file again; and a backup read while it is being written, or that cannot be read
  (`partial`), stays unseen until another is created.
* `DeletedHidden` for tombstones that the list's look at the backups has missed, for the same reasons, or because the
  directory could not be read, which counts as no tombstones (`desktop-state.ts:61-63`): the list shows
  sessions that were deleted.
* `ForcedSees` for a reader that joins the scan of another (`codex-sessions.ts:34`): it is answered
  with what that scan read before the change it asked for. A file whose reading fails once is missing
  until the next scan, which the model leaves out.
* `AccessSettles` for a session that only the index of Codex Desktop knows: the list gives access,
  a forced check refuses it, and they take turns. So they do on a deleted session that the
  app-server still knows. And each time a client syncs from before an event that says where the session was,
  the verdict on that directory is put back (`service.ts:116, 310`) until the next list or check: the
  property speaks of sessions of which such verdicts cease.
* `OneRow` for a session that is moved between the two reads of the sidebar (`torn`).
* `KeepsPairing` and `ReloadKeepsPairing` for the devices in `lost`: if the answer of a refresh is
  lost, or the page closes or IndexedDB fails before it is stored, the next refresh is refused and
  the user must pair again, where `README.md:33-34` promises an automatic reconnection.
* `StaysConnected` says nothing of the time between: `manualClose` stays set after a session was
  lost and paired again, a socket that drops then is reopened only when the access token expires,
  the network comes back or the page is reloaded. Nor does it speak of a page that shows the pairing
  screen after three attempts in vain, although the tokens are kept, or whose new tokens were
  cleared by the late refusal of the old device (`held.auth` is none while `paired` is TRUE).
* Unpairing: a refresh under way stores its tokens back after the tokens were forgotten; and if
  unpairing itself has to refresh, a socket opens meanwhile and stays open when the revocation fails.

**Types.** The type invariants are proved (section 5) and checked by no run. The invariants the
proofs rest on were checked on the instances above while they were written.

**Fairness** (`cancel`). Continuations of the event loop run and timers fire: weak
fairness of every call's own steps, of its timer, and of the timer of `initialize`. Nothing is
assumed of the app-server, the pipes or the network: an app-server that never answers is
covered by the timers. So `EveryCallAnswered` shows that the 30-second timer of every request
really bounds every wait. Two messages waiting for each other on one thread would make the liveness
check too large; there the safety property `QueueServes` says what is needed: whoever heads
the queue is under way, and nobody waits behind a finished call.

In EventSync and Outbox (run `refused`) one weak fairness condition covers all steps of
the page, the bridge and the network that are not failures (`Progress`): continuations and
timers run, requests that are not lost are answered, turns end, the network comes back. It is
enough since no such step can be repeated for ever. The number of failures is bounded, as in
any instance: `CatchesUp` and `Reconnects` speak of the time after the last.

In Timeline the file is written and scanned (clients ask for the list every fifteen seconds), notifications and events are handled, requests are read and
answered, and the timer of the poll fires: `Fairness` says it action by action, and of steps that leave
nothing of their kind to do by that (`[]<>(written = Len(lines))`; no request stays read or answered for ever). Codex owes nothing, so `Settles` also
covers a turn that never ends.

In DesktopState and SessionList requests go on, and a client asks for the list again and again (it
does so every fifteen seconds); Codex and Codex Desktop owe nothing. In ClientSession requests end,
timers fire, stores end and access tokens expire; users, the network and the bridge owe nothing, and
`StaysConnected` speaks of a page from the moment it stays in reach of the bridge, paired and with tokens.

**Deadlock** is not checked: requests are finite in number, and when all are answered the
system rests.

## 5. What TLAPS proves

For all values of the constants (any finite or infinite sets of clients, calls, threads; any
bounds), from the named assumptions `ConstantsAssumption`, `BoundsAssumption`, `SyncAssumption`,
`OutboxAssumption`, `TimelineAssumption`, `ViewsAssumption`, `DesktopAssumption`, `CatalogAssumption`,
`ListAssumption` and `SessionAssumption`. They give the constants their types: a page is not empty, at least one
device may be paired, conversations, sessions, threads, projects and files are numbers (the code
orders them by a string or a time; any fixed order will do), a path is a sequence of names. One
says more: the state files that Codex Desktop may leave behind in SessionList (`States`) are `Tidy`,
no thread has two places in one. `ThreadsArePlacedOnce` proves it of whatever `registerThread` and
the changes of Codex Desktop that DesktopState models make of a file.

| theorem | says |
|---|---|
| `TypeCorrect` | `TypeOK` of TurnBridge |
| `MessageAtMostOnce` | at most one turn per `client_id` |
| `ReleaseIsSafe` | no row means: not started, and no start request under way |
| `AnswersAreTrue` | recorded and given answers name a turn of that very key |
| `RecordedIsFinal` | a recorded response never changes |
| `ImplementsMessageOnce` | TurnBridge implements MessageOnce |
| `QueuesServe` | who is on the way to a turn heads the queue of the thread; nobody waits behind a finished call |
| `TurnsAreSerial` | if no request of a message times out: one turn of the bridge at a time on a thread |
| `ActiveIsCurrent` | if moreover the connection is not lost: the active turn has not ended, until a cancel comes in |
| `ApprovalTypes` | `TypeOK` of Approvals |
| `OneResponsePerId` | one response per child and id |
| `AtMostOneWinner` | one decision on a request wins |
| `ResponsesReachAsker` | responses reach the child that asked, late requests aside |
| `NothingPendingIsOld` | pending rows are of the current epoch |
| `ResolvedStaysResolved` | resolved rows never change |
| `TypeCorrect` (EventSync) | `TypeOK` of EventSync |
| `RunsDoNotOverlap` | one run of `syncAll` at a time |
| `CursorIsSafe` | up to a first failure nothing up to the cursor is missing |
| `EventsStoredInOrder` | up to a first failure events are stored in the order of the log |
| `OutboxTypes` | `TypeOK` of Outbox |
| `NoMessageLost` | a row that leaves the outbox has become a turn or was cancelled |
| `RowsKeepTheirOrder` | no replay lets a row pass an earlier one of its conversation, failed, quarantined and edited ones aside |
| `TimelineTypes` | `TypeOK` of Timeline |
| `DetailsShowConversation` | once the file is written, the details show each prompt and reply once, in order, whatever scan `updated_at` is of, if no reply of the thread is timed before its line |
| `ActiveTurnIsShown` | once the file is written, the details show a turn under way exactly when there is one, or one whose only end is stored with a number below the line it began with; for any `StoreBase` |
| `ErasedIsNotShown` | a turn whose rollback was read leaves no message and no tool call in the view, turns stored as failed aside |
| `StateIsTyped` | `TypeOK` of DesktopState |
| `RegistrationsKeepUpdates` | a registration that was not raced replaces the content it was computed from |
| `CachesAreFresh` | a cache entry in use is the present content, `{}` after a failed read of the state file, or lacks a backup that was half written or unreadable |
| `ThreadsArePlacedOnce` | a thread has one place in the sidebar at most |
| `CatalogInvariant` | the invariant of the catalog below |
| `ForcedRefreshSees` | a forced refresh is answered with what was on disk when it was asked for |
| `CatalogGoesForward` | the catalog does not go back to an older entry of a file |
| `ListUsesCatalog` | SessionList implements SessionCatalog |
| `DeletedAreHidden` | a session deleted before a list was asked for is not in its answer, unless the list's look at the backups missed the tombstone |
| `RowsAreSingle` | a session has one row, unless it was moved during the list |
| `ChecksAreUnderWay` | who shares a check of access shares one that is under way |
| `SessionTypes` | `TypeOK` of ClientSession |
| `RefreshesKeepPairing` | a refresh is refused only for a pairing that was ended, or a token that was lost |
| `StoredTokenIsGood` | between refreshes IndexedDB holds a token the bridge takes |
| `ReconnectingEnds` | `wsReconnecting` is set only while a socket is there that will reset it |

**TurnBridge.** `AtMostOnce` is not inductive: nothing in it keeps two start requests of one key
from being under way. `IInv` adds what does. A call *owns* the row of its key from the insert
until it can no longer delete it; owners are unique (`OneOwner`) and their row exists
(`RowsOwned`), since only owners delete rows and a second call inserts only where there is none.
While a key has an owner, the only turn that is started or may be is that of the owner's own
request in its present attempt (`OwnersTurn`); attempts not yet sent are unseen anywhere
(`FreshUnseen`); an error response means its request has created nothing and will not
(`RefusedNeverRuns`), so both the delete and the second attempt are safe. `LinesTrue`,
`ResultsTrue` and `StoredTrue` carry the turn from Codex through stdout, promise and event table
to the answer. The proof first gives types (`TypeStep`), then lemmas saying under which changes
each conjunct stays (`FrameStep`), then one lemma per action. The refinement reuses `IInv`: each
action maps to one step of MessageOnce or to none (`OnceStep`).

*Queues.* `Queues` says that only the head of a queue is under way, that the others wait, that no
call is in it twice, and that whoever waits or is under way is in the queue of its thread. It is
inductive by itself, whatever times out or dies.

*One turn at a time.* `OneTurnPerThread` needs to know where a turn is from the start request to its
end. `Tracked`: of one thread at most one start request or running turn is there (`OnePresent`); while
the child is up, it is awaited by the call that sent the start, or shown by the active map, or its
end is in the pipe (`InSight`); ends are reported after they happened and in their order
(`EndsAreTrue`, `EndsInOrder`). So a call that finds no active turn at the head of the queue starts
the only one. With a timeout the call stops waiting for a turn that may yet run: the theorem
assumes `Slow \cap Call = {}`, while requests of cancels may time out.

*The active turn.* `Reported` adds what has been announced. The start of a turn precedes its end
(`StartsInOrder`). While a call waits for the response to its start request, only its own turn can run
on the thread (`OnlyOwn`), and if that has ended, `completed` still says so when the call goes on
(`OwnEnd`). When the connection is lost, lines of the old child are still read after the map has
been cleared, and a late `turn/started` puts an ended turn back: the theorem is about behaviours
without `ConnectionLost`, restarts of the bridge included.

**Approvals.** An epoch ends together with the child it was current for. So while a child is up,
pending rows of the epoch are its own or read late (`PendingAsker`), and the ids answered to it
are the resolved ones (`AnsweredRows`).

**EventSync.** `OneRunAtATime` follows from `InFlightIsActive`: a run that is past its wait is the
one `syncInFlight` names. `Settle` is where it could break: it hands the name to the first that
waited and makes the others join.

`CursorCovers` and `StoredInOrder` speak of the time up to a first failure, of whatever kind; there
are then two sockets at most, and two databases, and none has to join a run of another (`Sockets`,
`Runs`). The invariant `Copy` follows an event from the log to IndexedDB. `Log`: the publish queue,
the wire and the buffer hold the end of the log in its order. `Flow`: a client that has read its pages
has every published event, or it is on its way or queued. `Fetching`, `Paged`, `Applying` and `Storing`
say what the run of the current socket has in hand; the last page joins the first live event
(`Final`). `Leads`: what precedes the event of a task is stored or queued before it. Three write
the cursor: a task, the run at its end, and the run of a socket that has been replaced
(`CursorTask`, `SecondStart`, `StreamStored`); `FirstReset` says that none of them is under
way when a reset clears the first database. Page size, log and set of hidden events are arbitrary.

**Outbox.** `NothingLost` needs to know why rows are deleted: events on the wire speak of rows
that have become turns (`EventsAreKnown`), so do the status `sent`, which a reset deletes
(`SentIsKnown`), and an accepted request, which sets it (`AcceptedIsKnown`). Four lemmas say
which changes keep `IInv` (a status put, rows deleted, neither), one per action applies them.
Neither `pending` nor `io` occurs in the argument: whatever stale indexes do to the screen, the
rows of IndexedDB survive.

`PostedInOrder` does need both, since a replay reads IndexedDB and `pending`. A row that is not yet
*settled* (become a turn, cancelled, or excused) is retryable in the database (`Open`). `Complete`: rows that
were read contain every such row, except one whose push to `pending` is issued after the
reading. `Ordered` and `Shown`: then no later row is in `pending`, in a batch or in a continuation before
that push, as pushes are in the order of the rows. So if a replay has read a row, it has read or may pass
the earlier ones, and it keeps this as it goes (`Sorted`): it takes the least row, and
leaves a row behind settled, being posted, or with its conversation blocked. `Marks` says it of the row whose `mark` is
under way, and `Calls` that no other continuation of a replay waits with it. Every other step only
adds to the line of continuations or takes its head (`LineOk`, `OrderFrame`). `Typed` is `TypeOK` with
the contents of the continuations. `Filtered`, `filter` as a recursive function, is treated with
the least length at which the claim would fail.

**Timeline.** `HistoryInv` is about the file and the store. `TurnsInv`: turns begin one after the
other. `Book`: of every part of the file that may be read (`Rollout`) it is known which turn a line is
of, and the whole file has the beginning of every turn and the rollback of those taken back. `Script`:
a prompt follows the beginning of its turn, and every message is written as an item and an event side by
side. `EventsInv`: the store has events of the bridge's own turns, and their ends only when they are over.
The readers are described under `Rollout` alone: which turn a rollback takes back (`NamedIs`,
`TakesBackAt`), what is hidden (`RolledBackIs`), what events there are (`RolloutEventsFrom`,
`RolloutTells`), what `mergeEvents` and `reconcileTurnLifecycle` make of them (`MergedFields`,
`ReconciledIs`). `ActiveTrue` follows from these: a turn that is over shows as active only if its sole end is the
stored one, and that is numbered below its beginning (`RestShows`, `MisplacedShows`). `ErasedHidden` is about answers and events on their way:
`ClientInv` says that the rollbacks in what was read stay in the view, whatever is projected onto
it (`Withdrawn`), and that its messages have their types.

`HistoryExact` compares what two chains of folds make of one file. The prompt and the reply of turn
`t` are given the numbers `2t` and `2t + 1` (`Voice`). By induction on the lines, each message that is
not taken back is recorded once, numbers rising (`Gathered`): its second form finds the first as the
last record of its role. The turns Codex knows of, taken one by one, say the same messages with rising
numbers (`Uttered`), and two rising lists of the same numbers are equal (`SameRuns`). What the thread
adds are client ids and replies that are there already, at the end, with times of their own that are not
before those of the records they repeat (`Merged`, `Follows`, from `Timely`). `dedupeMessages` sorts by time
first: the records stay in their order (`Sorts`, `Passed`), and an added reply lies somewhere after its record
(`NextInOrder`). Then `dedupeMessages` and the reference go side by side (`Kept`): both drop a prompt equal to the message
right before it, nothing else among the records, and every added reply; a reply never follows its equal, since
its own prompt is between (`ReplyFollows`). No turn Codex knows of is hidden (`KnownNotHidden`).

**DesktopState.** What a registration has in hand is characterized by age (`Registers`): unless it was
raced, its content is of the present as long as its mtime may be, and a content of the present is the
state file with the thread placed. `Fills` says the same of a reader about to fill a cache. A step
changes one call (`OneCall`) or a file, which ages whatever is known of it (`FileChanges`).
`PlacedOnce` follows from `Placing`: the state file, and whatever a call has in hand to replace it with, is of
its type and `Tidy`. That `Placed` keeps a file tidy is a lemma of `DesktopStateProofs`, which the proofs about the list use as well: it takes
the thread out of every list (`Without`, again by a least counterexample) before it puts it into one.

**SessionCatalog and SessionList.** Files go forward only: they grow, are packed, are removed. One
scan runs at a time (`OneScan`), so what a scan holds, and what the catalog keeps of the last one, is
no newer than the files (`SeenOld`), which gives `CatalogForward`. What was on disk when a reader asked is
older than what is there now (`SinceLater`), and the scan begun for that reader has yet to read it or has
read something as new (`WaitSees`), which gives `ForcedSees`.
Each step of SessionList is one of the catalog or leaves it alone (`CatalogSteps`), which makes
`ListUsesCatalog` a refinement and carries the catalog's theorems over. For the list itself,
`Sound` says what a request has in hand at each stage: what was deleted when it began, less what its look at
the backups has missed, is still deleted, known to it as deleted, or filtered out, and its rows are of different sessions as long as the sidebar
did not change between its two reads.

**ClientSession.** `KeepsPairing` needs to know which tokens are good. A token is `Fine` if it is the
last given to its device, or that device has lost one or was ended. There is one refresh at most
(`Alone`: `refreshInFlight` does its work), it was begun with a token that is `Fine`, and while the
answer is under way it is the answer that is good and not what memory (`AuthFine`) and IndexedDB (`StoreFine`)
hold. `StoreHas` says that tokens in memory are in IndexedDB too, or are being written. Frames for
steps that leave the tokens alone (`TokensFrame`), begin a refresh (`BeginKeeps`), forget
(`Forgotten`) or lose an answer (`LostKeeps`) leave six actions to be treated one by one.

Only model-checked are

* the liveness properties `EveryCallAnswered`, `CatchesUp`, `Reconnects`, `Settles`,
  `RepairedAtLast`, `AccessSettles` and `StaysConnected`: fairness is beyond the prover;
* `CancelledNotPosted`, which is an action property of the two copies of the rows and of the continuation
  of `mark`, as `PostedInOrder` is; it is not proved yet.

## 6. Not modelled

Planned: streamed deltas, optimistic messages and cached copies of conversations, the end-to-end
composition of outbox and bridge. Of modelled components the overlays (archive, rename) and the creation
of sessions, capability reads, the pairing limiter and pair codes, the password of the offline
cache, and two pages that share one IndexedDB are left out; each is named at its module.

Left out for good: HTTP validation, local capability discovery, rendering, the Android shell and the
maintenance scripts, which keep no state the system's properties depend on. So is the composer:
two overlapping pastes exceed the limits `addFiles` checks before its awaits (`ComposerBox.vue:206`), and a
late answer of `searchFiles` replaces a newer one, but no other component depends on what it holds.
