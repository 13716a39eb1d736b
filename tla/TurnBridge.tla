----------------------------- MODULE TurnBridge -----------------------------
(***************************************************************************)
(* How one POST /api/sessions/:id/messages becomes a turn of Codex, and    *)
(* what its caller is told, while the app-server process and the bridge    *)
(* itself may die: SessionService.message over the idempotency table of    *)
(* Store, CodexManager.startTurn and interrupt over JsonRpcClient, and the *)
(* app-server at the other end of the pipes.                               *)
(*                                                                         *)
(* The bridge is one JavaScript thread.  An action is the code that runs   *)
(* from one await to the next; what other code runs between two awaits of  *)
(* a handler is left open, which allows more interleavings than the event  *)
(* loop has.  A call k is in pc[k], named for what it awaits, and res[k]   *)
(* is the state of the promise it awaits there.                            *)
(***************************************************************************)
EXTENDS Naturals, Sequences, FiniteSets

CONSTANTS
  Thread,            \* Codex threads
  Client,            \* message keys: the pairs (session_id, client_id)
  Call,              \* POST .../messages requests, the retries included
  Cancel,            \* POST .../cancel requests
  ThreadOf,          \* the thread of a message key
  ClientOf,          \* the message key a call carries
  CancelThread,      \* the thread a cancel request names
  Slow,              \* calls whose app-server requests may time out
  ForeignThreads,    \* threads on which another Codex process has an open turn
  NoTurn,            \* undefined
  MaxExits,          \* bound: spontaneous exits of the app-server
  MaxBridgeRestarts  \* bound: crashes of the bridge

(* A start request names the turn it may create: no request is run twice.  *)
OwnTurn == Call \X {1, 2}
ForeignTurn == Thread \X {0}
Turn == OwnTurn \cup ForeignTurn
Worker == Call \cup Cancel

ASSUME ConstantsAssumption ==
  /\ ThreadOf \in [Client -> Thread]
  /\ ClientOf \in [Call -> Client]
  /\ CancelThread \in [Cancel -> Thread]
  /\ Call \cap Cancel = {}
  /\ Slow \subseteq Worker
  /\ ForeignThreads \subseteq Thread
  /\ NoTurn \notin Turn
  /\ MaxExits \in Nat
  /\ MaxBridgeRestarts \in Nat

VARIABLES
  pc,           \* where each call is
  res,          \* the promise it awaits there
  val,          \* the turn a settled promise, or an answer, carries
  try,          \* attempt of startTurn; 0: the call did not insert its row
  idem,         \* status column of the idempotency table
  resp,         \* its response column
  userEvents,   \* turns with a stored user_message event
  endEvents,    \* turns with a stored turn_completed or turn_failed event
  initialized,  \* CodexManager.initialized
  resumed,      \* CodexManager.resumed
  active,       \* CodexManager.active
  completed,    \* CodexManager.completed
  queue,        \* CodexManager.queues
  proc,         \* the app-server child: "ending" once its stdin is closed
  inbox,        \* requests written to its stdin and not handled
  out,          \* lines it wrote and readline has not emitted
  accepted,     \* turns Codex has started for this bridge
  recorded,     \* turns whose user message thread/read shows
  running,      \* turns in progress in the child
  foreign,      \* turns in progress in other Codex processes
  orphaned,     \* start requests left to children of dead bridges
  exits,
  restarts

callVars == <<pc, res, val, try>>
storeVars == <<idem, resp, userEvents, endEvents>>
managerVars == <<initialized, resumed, active, completed, queue>>
codexVars == <<accepted, recorded, running, foreign, orphaned>>
pipeVars == <<proc, inbox, out>>
budgetVars == <<exits, restarts>>
vars == <<callVars, storeVars, managerVars, pipeVars, codexVars, budgetVars>>

-----------------------------------------------------------------------------
Kinds == {"resume", "start", "read", "interrupt"}
Answers == {"ok", "denied", "refused", "busy", "uncertain", "failed", "lost"}
Waits == {"access", "input", "queued", "connect", "restart", "lookup"} \cup Kinds
Errors == {"timeout", "unavailable", "conflict", "refused"}
Outcomes == {"ok", "conflict", "refused"}

StartRequests == [kind : {"start"}, call : Call, n : {1, 2}]
Request == StartRequests \cup [kind : Kinds \ {"start"}, call : Worker, n : 0..2]
Response == [type : {"response"}, req : Request, outcome : Outcomes,
             turn : Turn \cup {NoTurn}]
Notice == [type : {"turn_started", "user_message", "turn_completed"},
           turn : OwnTurn]
Line == Response \cup Notice

TurnClient(u) == ClientOf[u[1]]
TurnThread(u) == ThreadOf[TurnClient(u)]
CallThread(k) == IF k \in Call THEN ThreadOf[ClientOf[k]] ELSE CancelThread[k]

TypeOK ==
  /\ pc \in [Worker -> {"idle"} \cup Waits \cup Answers]
  /\ res \in [Worker -> {"none", "pending", "ok"} \cup Errors]
  /\ val \in [Worker -> Turn \cup {NoTurn}]
  /\ try \in [Worker -> 0..2]
  /\ idem \in [Client -> {"none", "pending", "uncertain", "done"}]
  /\ resp \in [Client -> Turn \cup {NoTurn}]
  /\ userEvents \subseteq OwnTurn
  /\ endEvents \subseteq Turn
  /\ initialized \in {"none", "pending", "done"}
  /\ resumed \subseteq Thread
  /\ active \in [Thread -> Turn \cup {NoTurn}]
  /\ completed \in [Thread -> Turn \cup {NoTurn}]
  /\ queue \in [Thread -> Seq(Call)]
  /\ proc \in {"down", "up", "ending"}
  /\ inbox \subseteq Request
  /\ out \in Seq(Line)
  /\ accepted \subseteq OwnTurn
  /\ recorded \subseteq accepted
  /\ running \subseteq accepted
  /\ foreign \subseteq ForeignTurn
  /\ orphaned \subseteq StartRequests
  /\ exits \in 0..MaxExits
  /\ restarts \in 0..MaxBridgeRestarts

Init ==
  /\ pc = [k \in Worker |-> "idle"]
  /\ res = [k \in Worker |-> "none"]
  /\ val = [k \in Worker |-> NoTurn]
  /\ try = [k \in Worker |-> 0]
  /\ idem = [c \in Client |-> "none"]
  /\ resp = [c \in Client |-> NoTurn]
  /\ userEvents = {}
  /\ endEvents = {}
  /\ initialized = "none"
  /\ resumed = {}
  /\ active = [t \in Thread |-> NoTurn]
  /\ completed = [t \in Thread |-> NoTurn]
  /\ queue = [t \in Thread |-> <<>>]
  /\ proc = "down"
  /\ inbox = {}
  /\ out = <<>>
  /\ accepted = {}
  /\ recorded = {}
  /\ running = {}
  /\ foreign = ForeignThreads \X {0}
  /\ orphaned = {}
  /\ exits = 0
  /\ restarts = 0

-----------------------------------------------------------------------------
(* The idempotency table.  Every operation is one synchronous statement.   *)
BeginIdempotent(c) ==
  /\ idem' = [idem EXCEPT ![c] = "pending"]
  /\ resp' = [resp EXCEPT ![c] = NoTurn]

(* An UPDATE: a row that is gone stays gone.                               *)
FinishIdempotent(c, u) ==
  /\ idem' = [idem EXCEPT ![c] = IF @ = "none" THEN @ ELSE "done"]
  /\ resp' = [resp EXCEPT ![c] = IF idem[c] = "none" THEN @ ELSE u]

FailIdempotent(c) ==
  /\ idem' = [idem EXCEPT ![c] = "none"]
  /\ resp' = [resp EXCEPT ![c] = NoTurn]

\* Mutant: pending rows are dropped, not kept for reconciliation.
DropPending ==
  idem' = [c \in Client |-> IF idem[c] = "pending" THEN "none" ELSE idem[c]]

MarkPendingUncertain ==
  idem' = [c \in Client |-> IF idem[c] = "pending" THEN "uncertain" ELSE idem[c]]

StoredTurn(c) == {u \in userEvents : TurnClient(u) = c}

-----------------------------------------------------------------------------
(* JSON-RPC.  A write to a stdin that stop() has ended is lost, unless the *)
(* bridge dies of the stream's error, for which nobody listens.            *)
Send(k, kind) ==
  /\ pc' = [pc EXCEPT ![k] = kind]
  /\ res' = [res EXCEPT ![k] = "pending"]
  /\ proc' = IF proc = "down" THEN "up" ELSE proc
  /\ inbox' = IF proc = "ending" THEN inbox
              ELSE inbox \cup {[kind |-> kind, call |-> k, n |-> try[k]]}

(* JsonRpcClient.fail rejects all that is pending, and the manager's       *)
(* 'unavailable' listener runs before any of the rejected calls goes on.   *)
AllRejected == [k \in Worker |-> IF res[k] = "pending" THEN "unavailable" ELSE res[k]]

Unavailable ==
  /\ initialized' = "none"
  /\ resumed' = {}
  /\ completed' = [t \in Thread |-> NoTurn]
  /\ MarkPendingUncertain
  /\ endEvents' = endEvents \cup ({active[t] : t \in Thread} \ {NoTurn})
  /\ active' = [t \in Thread |-> NoTurn]

(* ready(): the callers share one initialize request.                      *)
Ready(k) ==
  /\ pc[k] \in {"connect", "lookup"}
  /\ res[k] = "none"
  /\ res' = [res EXCEPT ![k] = IF initialized = "done" THEN "ok" ELSE "pending"]
  /\ initialized' = IF initialized = "none" THEN "pending" ELSE initialized
  /\ proc' = IF initialized = "none" /\ proc = "down" THEN "up" ELSE proc
  /\ UNCHANGED <<pc, val, try, storeVars, resumed, active, completed, queue,
                 inbox, out, codexVars, budgetVars>>

SettleReady(o) ==
  res' = [k \in Worker |->
            IF pc[k] \in {"connect", "lookup"} /\ res[k] = "pending" THEN o ELSE res[k]]

(* The app-server answers initialize.                                      *)
Initialized ==
  /\ initialized = "pending"
  /\ proc = "up"
  /\ initialized' = "done"
  /\ SettleReady("ok")
  /\ UNCHANGED <<pc, val, try, storeVars, resumed, active, completed, queue,
                 pipeVars, codexVars, budgetVars>>

InitializeFails(o) ==
  /\ initialized = "pending"
  /\ \/ o = "refused" /\ proc = "up"
     \/ o = "timeout" /\ Slow # {}
  /\ initialized' = "none"
  /\ SettleReady(o)
  /\ UNCHANGED <<pc, val, try, storeVars, resumed, active, completed, queue,
                 pipeVars, codexVars, budgetVars>>

\* Mutant: turn/interrupt is sent without a timer.
TimeoutButInterrupt(k) ==
  /\ k \in Slow
  /\ pc[k] \in Kinds \ {"interrupt"}
  /\ res[k] = "pending"
  /\ res' = [res EXCEPT ![k] = "timeout"]
  /\ UNCHANGED <<pc, val, try, storeVars, managerVars, pipeVars, codexVars, budgetVars>>

(* The timer of a request: its entry in pending is gone, a late response   *)
(* finds none.                                                             *)
Timeout(k) ==
  /\ k \in Slow
  /\ pc[k] \in Kinds
  /\ res[k] = "pending"
  /\ res' = [res EXCEPT ![k] = "timeout"]
  /\ UNCHANGED <<pc, val, try, storeVars, managerVars, pipeVars, codexVars, budgetVars>>

-----------------------------------------------------------------------------
(* SessionService.message, up to the hand-over to the manager.             *)
Arrive(k) ==
  /\ pc[k] = "idle"
  /\ pc' = [pc EXCEPT ![k] = "access"]
  /\ UNCHANGED <<res, val, try, storeVars, managerVars, pipeVars, codexVars, budgetVars>>

(* requireAllowedSession throws: the session is not found or not allowed.  *)
Deny(k) ==
  /\ pc[k] = "access"
  /\ pc' = [pc EXCEPT ![k] = "denied"]
  /\ UNCHANGED <<res, val, try, storeVars, managerVars, pipeVars, codexVars, budgetVars>>

Answer(k, u) ==
  /\ pc' = [pc EXCEPT ![k] = "ok"]
  /\ res' = [res EXCEPT ![k] = "none"]
  /\ val' = [val EXCEPT ![k] = u]

(* The start of acceptedTurn: the stored events, else a thread/read.       *)
AcceptedTurn(k) ==
  LET c == ClientOf[k] IN
  \/ \E u \in StoredTurn(c) : FinishIdempotent(c, u) /\ Answer(k, u)
  \/ /\ StoredTurn(c) = {}
     /\ pc' = [pc EXCEPT ![k] = "lookup"]
     /\ res' = [res EXCEPT ![k] = "none"]
     /\ UNCHANGED <<val, idem, resp>>

(* The row is read, and a missing one inserted, in one synchronous stretch.*)
Admit(k) ==
  LET c == ClientOf[k] IN
  /\ pc[k] = "access"
  /\ \/ /\ idem[c] = "done"
        /\ Answer(k, resp[c])
        /\ UNCHANGED <<try, idem, resp>>
     \/ /\ idem[c] \in {"pending", "uncertain"}
        /\ AcceptedTurn(k)
        /\ UNCHANGED try
     \/ /\ idem[c] = "none"
        /\ BeginIdempotent(c)
        /\ try' = [try EXCEPT ![k] = 1]
        /\ pc' = [pc EXCEPT ![k] = "input"]
        /\ UNCHANGED <<res, val>>
  /\ UNCHANGED <<userEvents, endEvents, managerVars, pipeVars, codexVars, budgetVars>>

(* requireAllowedPath of a mention, skill or image: refused, or all pass.  *)
RefuseInput(k) ==
  /\ pc[k] = "input"
  /\ pc' = [pc EXCEPT ![k] = "refused"]
  /\ FailIdempotent(ClientOf[k])
  /\ UNCHANGED <<res, val, try, userEvents, endEvents, managerVars, pipeVars,
                 codexVars, budgetVars>>

Enqueue(k) ==
  /\ pc[k] = "input"
  /\ pc' = [pc EXCEPT ![k] = "queued"]
  /\ queue' = [queue EXCEPT ![CallThread(k)] = Append(@, k)]
  /\ UNCHANGED <<res, val, try, storeVars, initialized, resumed, active, completed,
                 pipeVars, codexVars, budgetVars>>

-----------------------------------------------------------------------------
\* Mutant: a call does not wait for the prior one of its thread.
BeginAtOnce(k) ==
  /\ pc[k] = "queued"
  /\ pc' = [pc EXCEPT ![k] = "connect"]
  /\ res' = [res EXCEPT ![k] = "none"]
  /\ UNCHANGED <<val, try, storeVars, managerVars, pipeVars, codexVars, budgetVars>>

(* CodexManager.startTurn, serial per thread.                              *)
Begin(k) ==
  /\ pc[k] = "queued"
  /\ Head(queue[CallThread(k)]) = k
  /\ pc' = [pc EXCEPT ![k] = "connect"]
  /\ res' = [res EXCEPT ![k] = "none"]
  /\ UNCHANGED <<val, try, storeVars, managerVars, pipeVars, codexVars, budgetVars>>

(* The queue entry of a call that is over; the next one may begin.         *)
Served(k) ==
  [queue EXCEPT ![CallThread(k)] = IF @ = <<>> THEN @ ELSE Tail(@)]

(* startTurn throws a deterministic error and message releases the row.    *)
Reject(k, answer) ==
  /\ pc' = [pc EXCEPT ![k] = answer]
  /\ res' = [res EXCEPT ![k] = "none"]
  /\ queue' = Served(k)
  /\ FailIdempotent(ClientOf[k])

\* Mutant: the check for an active turn is missing.
StartAnyway(k) ==
  /\ Send(k, "start")
  /\ UNCHANGED <<idem, resp, queue>>

StartTurn(k) ==
  \/ /\ active[CallThread(k)] # NoTurn
     /\ Reject(k, "busy")
     /\ UNCHANGED <<proc, inbox>>
  \/ /\ active[CallThread(k)] = NoTurn
     /\ Send(k, "start")
     /\ UNCHANGED <<idem, resp, queue>>

Connected(k) ==
  /\ pc[k] = "connect"
  /\ res[k] = "ok"
  /\ \/ /\ CallThread(k) \in resumed
        /\ StartTurn(k)
     \/ /\ CallThread(k) \notin resumed
        /\ Send(k, "resume")
        /\ UNCHANGED <<idem, resp, queue>>
  /\ UNCHANGED <<val, try, userEvents, endEvents, initialized, resumed, active,
                 completed, out, codexVars, budgetVars>>

Resumed(k) ==
  /\ pc[k] = "resume"
  /\ res[k] = "ok"
  /\ resumed' = resumed \cup {CallThread(k)}
  /\ StartTurn(k)
  /\ UNCHANGED <<val, try, userEvents, endEvents, initialized, active, completed,
                 out, codexVars, budgetVars>>

\* Mutant: a turn that has already ended becomes the active one.
StartedLate(k) ==
  LET t == CallThread(k) IN
  /\ pc[k] = "start"
  /\ res[k] = "ok"
  /\ active' = [active EXCEPT ![t] = val[k]]
  /\ queue' = Served(k)
  /\ FinishIdempotent(ClientOf[k], val[k])
  /\ Answer(k, val[k])
  /\ UNCHANGED <<try, userEvents, endEvents, initialized, resumed, completed,
                 pipeVars, codexVars, budgetVars>>

(* The turn may have ended before its response is looked at.               *)
Started(k) ==
  LET t == CallThread(k) IN
  /\ pc[k] = "start"
  /\ res[k] = "ok"
  /\ active' = IF completed[t] = val[k] THEN active ELSE [active EXCEPT ![t] = val[k]]
  /\ queue' = Served(k)
  /\ FinishIdempotent(ClientOf[k], val[k])
  /\ Answer(k, val[k])
  /\ UNCHANGED <<try, userEvents, endEvents, initialized, resumed, completed,
                 pipeVars, codexVars, budgetVars>>

(* A writer conflict on the first attempt: restartConnection, which closes *)
(* the connection of every thread.                                         *)
Restart(k) ==
  /\ pc[k] \in {"resume", "start"}
  /\ res[k] = "conflict"
  /\ try[k] = 1
  /\ pc' = [pc EXCEPT ![k] = "restart"]
  /\ res' = [AllRejected EXCEPT ![k] = "none"]
  /\ try' = [try EXCEPT ![k] = 2]
  /\ Unavailable
  /\ proc' = IF proc = "up" THEN "ending" ELSE proc
  /\ UNCHANGED <<val, resp, userEvents, queue, inbox, out, codexVars, budgetVars>>

(* stop() returns when the child has exited, or gives up waiting for it.   *)
Restarted(k) ==
  /\ pc[k] = "restart"
  /\ pc' = [pc EXCEPT ![k] = "connect"]
  /\ UNCHANGED <<res, val, try, storeVars, managerVars, pipeVars, codexVars, budgetVars>>

\* Mutant: a request cut off by an exit counts as refused.
RejectedOrCutOff(k) ==
  /\ pc[k] \in {"connect", "resume", "start"}
  /\ res[k] \in {"refused", "unavailable"}
  /\ Reject(k, "refused")
  /\ UNCHANGED <<val, try, userEvents, endEvents, initialized, resumed, active,
                 completed, pipeVars, codexVars, budgetVars>>

Rejected(k) ==
  /\ pc[k] \in {"connect", "resume", "start"}
  /\ \/ res[k] = "refused"
     \/ res[k] = "conflict" /\ try[k] = 2
  /\ Reject(k, "refused")
  /\ UNCHANGED <<val, try, userEvents, endEvents, initialized, resumed, active,
                 completed, pipeVars, codexVars, budgetVars>>

\* Mutant: a timeout releases the row.
UnknownReleased(k) ==
  /\ pc[k] \in {"connect", "resume", "start"}
  /\ res[k] \in {"timeout", "unavailable"}
  /\ Reject(k, "failed")
  /\ UNCHANGED <<val, try, userEvents, endEvents, initialized, resumed, active, completed,
                 pipeVars, codexVars, budgetVars>>

(* The outcome is unknown: message looks for the turn before it answers.   *)
Unknown(k) ==
  /\ pc[k] \in {"connect", "resume", "start"}
  /\ res[k] \in {"timeout", "unavailable"}
  /\ queue' = Served(k)
  /\ AcceptedTurn(k)
  /\ UNCHANGED <<try, userEvents, endEvents, initialized, resumed, active, completed,
                 pipeVars, codexVars, budgetVars>>

-----------------------------------------------------------------------------
(* The thread/read of acceptedTurn, and of interrupt.                      *)
LookUp(k) ==
  /\ pc[k] = "lookup"
  /\ res[k] = "ok"
  /\ Send(k, "read")
  /\ UNCHANGED <<val, try, storeVars, managerVars, out, codexVars, budgetVars>>

\* Mutant: a thread/read without the turn is taken for an answer.
FoundAny(k) ==
  /\ pc[k] = "read"
  /\ res[k] = "ok"
  /\ FinishIdempotent(ClientOf[k], val[k])
  /\ Answer(k, val[k])
  /\ UNCHANGED <<try, userEvents, endEvents, managerVars, pipeVars, codexVars, budgetVars>>

Found(k) ==
  /\ pc[k] = "read"
  /\ res[k] = "ok"
  /\ val[k] # NoTurn
  /\ FinishIdempotent(ClientOf[k], val[k])
  /\ Answer(k, val[k])
  /\ UNCHANGED <<try, userEvents, endEvents, managerVars, pipeVars, codexVars, budgetVars>>

ReadFailed(k) ==
  \/ pc[k] \in {"lookup", "read"} /\ res[k] \in Errors
  \/ pc[k] = "read" /\ res[k] = "ok" /\ val[k] = NoTurn

\* Mutant: the owner's failure marks its row whatever its status.
UnresolvedOverwrites(k) ==
  /\ ReadFailed(k)
  /\ pc' = [pc EXCEPT ![k] = IF try[k] > 0 THEN "failed" ELSE "uncertain"]
  /\ res' = [res EXCEPT ![k] = "none"]
  /\ idem' = IF try[k] > 0 THEN [idem EXCEPT ![ClientOf[k]] = "uncertain"] ELSE idem
  /\ UNCHANGED <<val, try, resp, userEvents, endEvents, managerVars, pipeVars,
                 codexVars, budgetVars>>

(* The owner of a row leaves it (and every pending row) uncertain and      *)
(* rethrows; a retry answers 409.                                          *)
Unresolved(k) ==
  /\ ReadFailed(k)
  /\ pc' = [pc EXCEPT ![k] = IF try[k] > 0 THEN "failed" ELSE "uncertain"]
  /\ res' = [res EXCEPT ![k] = "none"]
  /\ IF try[k] > 0 THEN MarkPendingUncertain ELSE UNCHANGED idem
  /\ UNCHANGED <<val, try, resp, userEvents, endEvents, managerVars, pipeVars,
                 codexVars, budgetVars>>

-----------------------------------------------------------------------------
(* CodexManager.interrupt: a turn it knows, or one that thread/read shows. *)
AdmitCancel(i) ==
  /\ pc[i] = "access"
  /\ pc' = [pc EXCEPT ![i] = "connect"]
  /\ UNCHANGED <<res, val, try, storeVars, managerVars, pipeVars, codexVars, budgetVars>>

Interrupt(i) ==
  /\ pc[i] = "connect"
  /\ res[i] = "ok"
  /\ \/ /\ active[CallThread(i)] # NoTurn
        /\ val' = [val EXCEPT ![i] = active[CallThread(i)]]
        /\ Send(i, "interrupt")
     \/ /\ active[CallThread(i)] = NoTurn
        /\ pc' = [pc EXCEPT ![i] = "lookup"]
        /\ res' = [res EXCEPT ![i] = "none"]
        /\ UNCHANGED <<val, proc, inbox>>
  /\ UNCHANGED <<try, storeVars, managerVars, out, codexVars, budgetVars>>

InterruptFound(i) ==
  /\ pc[i] = "read"
  /\ res[i] = "ok"
  /\ val[i] # NoTurn
  /\ active' = [active EXCEPT ![CallThread(i)] = val[i]]
  /\ Send(i, "interrupt")
  /\ UNCHANGED <<val, try, storeVars, initialized, resumed, completed, queue, out,
                 codexVars, budgetVars>>

CancelAnswer(i) ==
  CASE pc[i] = "interrupt" /\ res[i] = "ok" -> "ok"
    [] ReadFailed(i) -> "refused"
    [] OTHER -> "failed"

Interrupted(i) ==
  /\ \/ ReadFailed(i)
     \/ pc[i] = "connect" /\ res[i] \in Errors
     \/ pc[i] = "interrupt" /\ res[i] \in {"ok"} \cup Errors
  /\ pc' = [pc EXCEPT ![i] = CancelAnswer(i)]
  /\ res' = [res EXCEPT ![i] = "none"]
  /\ UNCHANGED <<val, try, storeVars, managerVars, pipeVars, codexVars, budgetVars>>

-----------------------------------------------------------------------------
(* A line of the child's stdout.  A response settles the promise that      *)
(* waits for it; the call goes on later, when more lines may have come.    *)
Awaited(q) == pc[q.call] = q.kind /\ res[q.call] = "pending" /\ try[q.call] = q.n

DeliverResponse ==
  /\ out # <<>>
  /\ Head(out).type = "response"
  /\ LET l == Head(out) IN
     IF Awaited(l.req)
     THEN /\ res' = [res EXCEPT ![l.req.call] = l.outcome]
          /\ val' = [val EXCEPT ![l.req.call] = l.turn]
     ELSE UNCHANGED <<res, val>>
  /\ out' = Tail(out)
  /\ UNCHANGED <<pc, try, storeVars, managerVars, proc, inbox, codexVars, budgetVars>>

(* CodexManager.notification: the event is stored, then active follows it. *)
DeliverNotice ==
  /\ out # <<>>
  /\ Head(out).type # "response"
  /\ LET u == Head(out).turn
         t == TurnThread(u)
         type == Head(out).type
     IN \/ /\ type = "turn_started"
           /\ active' = [active EXCEPT ![t] = u]
           /\ UNCHANGED <<userEvents, endEvents, completed>>
        \/ /\ type = "user_message"
           /\ userEvents' = userEvents \cup {u}
           /\ UNCHANGED <<endEvents, active, completed>>
        \/ /\ type = "turn_completed"
           /\ endEvents' = endEvents \cup {u}
           /\ completed' = [completed EXCEPT ![t] = u]
           /\ active' = IF active[t] = u THEN [active EXCEPT ![t] = NoTurn] ELSE active
           /\ UNCHANGED userEvents
  /\ out' = Tail(out)
  /\ UNCHANGED <<callVars, idem, resp, initialized, resumed, queue, proc, inbox,
                 codexVars, budgetVars>>

(* The event loop takes up an exit when no continuation is left to run.    *)
Quiet == \A k \in Worker : res[k] \in {"none", "pending"}

(* The child has exited.  Lines it wrote may still be read afterwards.     *)
ProcessExit ==
  /\ Quiet
  /\ proc = "ending" \/ (proc = "up" /\ exits < MaxExits)
  /\ exits' = IF proc = "up" THEN exits + 1 ELSE exits
  /\ proc' = "down"
  /\ inbox' = {}
  /\ running' = {}
  /\ res' = AllRejected
  /\ Unavailable
  /\ UNCHANGED <<pc, val, try, resp, userEvents, queue, out, accepted, recorded,
                 foreign, orphaned, restarts>>

(* The bridge dies and a new one opens the same database.  The child it    *)
(* leaves behind may still run what is in its stdin.                       *)
BridgeRestart ==
  /\ restarts < MaxBridgeRestarts
  /\ restarts' = restarts + 1
  /\ pc' = [k \in Worker |-> IF pc[k] \in Waits THEN "lost" ELSE pc[k]]
  /\ res' = [k \in Worker |-> "none"]
  /\ MarkPendingUncertain
  /\ initialized' = "none"
  /\ resumed' = {}
  /\ active' = [t \in Thread |-> NoTurn]
  /\ completed' = [t \in Thread |-> NoTurn]
  /\ queue' = [t \in Thread |-> <<>>]
  /\ proc' = "down"
  /\ orphaned' = orphaned \cup {q \in inbox : q.kind = "start"}
  /\ inbox' = {}
  /\ out' = <<>>
  /\ running' = {}
  /\ recorded' \in {recorded, recorded \cup running}
  /\ UNCHANGED <<val, try, resp, userEvents, endEvents, accepted, foreign, exits>>

-----------------------------------------------------------------------------
(* The app-server (external), as the bridge uses it.  It handles requests  *)
(* in any order, and refuses a turn by an error only if it did not start   *)
(* it.                                                                     *)
Reply(q, o, u) == [type |-> "response", req |-> q, outcome |-> o, turn |-> u]
Note(type, u) == [type |-> type, turn |-> u]

CodexRefuses(q, o) ==
  /\ q \in inbox
  /\ o = "conflict" => q.kind \in {"resume", "start"}
  /\ inbox' = inbox \ {q}
  /\ out' = Append(out, Reply(q, o, NoTurn))
  /\ UNCHANGED <<callVars, storeVars, managerVars, proc, codexVars, budgetVars>>

CodexResumes(q) ==
  /\ q \in inbox
  /\ q.kind = "resume"
  /\ inbox' = inbox \ {q}
  /\ out' = Append(out, Reply(q, "ok", NoTurn))
  /\ UNCHANGED <<callVars, storeVars, managerVars, proc, codexVars, budgetVars>>

CodexStarts(q) ==
  LET u == <<q.call, q.n>> IN
  /\ q \in inbox
  /\ q.kind = "start"
  /\ inbox' = inbox \ {q}
  /\ accepted' = accepted \cup {u}
  /\ running' = running \cup {u}
  /\ \/ out' = out \o <<Reply(q, "ok", u), Note("turn_started", u)>>
     \/ out' = out \o <<Note("turn_started", u), Reply(q, "ok", u)>>
  /\ UNCHANGED <<callVars, storeVars, managerVars, proc, recorded, foreign, orphaned,
                 budgetVars>>

(* The turns of the thread a reader looks for: acceptedTurn its client_id, *)
(* interrupt one in progress, wherever it runs.                            *)
Shown(k) ==
  IF k \in Call THEN {u \in recorded : TurnClient(u) = ClientOf[k]}
  ELSE {u \in running : TurnThread(u) = CallThread(k)}
       \cup (foreign \cap ({CallThread(k)} \X {0}))

CodexReads(q) ==
  /\ q \in inbox
  /\ q.kind = "read"
  /\ inbox' = inbox \ {q}
  /\ \E u \in IF Shown(q.call) = {} THEN {NoTurn} ELSE Shown(q.call) :
       out' = Append(out, Reply(q, "ok", u))
  /\ UNCHANGED <<callVars, storeVars, managerVars, proc, codexVars, budgetVars>>

CodexInterrupts(q) ==
  LET u == val[q.call] IN
  /\ q \in inbox
  /\ q.kind = "interrupt"
  /\ u \in running
  /\ inbox' = inbox \ {q}
  /\ running' = running \ {u}
  /\ out' = out \o <<Reply(q, "ok", u), Note("turn_completed", u)>>
  /\ UNCHANGED <<callVars, storeVars, managerVars, proc, accepted, recorded, foreign,
                 orphaned, budgetVars>>

CodexRecords(u) ==
  /\ u \in running \ recorded
  /\ recorded' = recorded \cup {u}
  /\ out' = Append(out, Note("user_message", u))
  /\ UNCHANGED <<callVars, storeVars, managerVars, proc, inbox, accepted, running,
                 foreign, orphaned, budgetVars>>

CodexCompletes(u) ==
  /\ u \in running
  /\ running' = running \ {u}
  /\ out' = Append(out, Note("turn_completed", u))
  /\ UNCHANGED <<callVars, storeVars, managerVars, proc, inbox, accepted, recorded,
                 foreign, orphaned, budgetVars>>

(* A child whose bridge is dead reaches a start request left in its stdin. *)
OrphanStarts(q) ==
  LET u == <<q.call, q.n>> IN
  /\ q \in orphaned
  /\ orphaned' = orphaned \ {q}
  /\ accepted' = accepted \cup {u}
  /\ recorded' \in {recorded, recorded \cup {u}}
  /\ UNCHANGED <<callVars, storeVars, managerVars, pipeVars, running, foreign, budgetVars>>

(* The other process ends its turn; nothing of it reaches this bridge.     *)
ForeignEnds(u) ==
  /\ u \in foreign
  /\ foreign' = foreign \ {u}
  /\ UNCHANGED <<callVars, storeVars, managerVars, pipeVars, accepted, recorded,
                 running, orphaned, budgetVars>>

-----------------------------------------------------------------------------
MessageStep(k) ==
  \/ Admit(k) \/ RefuseInput(k) \/ Enqueue(k) \/ Begin(k) \/ Connected(k)
  \/ Resumed(k) \/ Started(k) \/ Restart(k) \/ Restarted(k) \/ Rejected(k)
  \/ Unknown(k) \/ LookUp(k) \/ Found(k) \/ Unresolved(k)

CancelStep(i) ==
  AdmitCancel(i) \/ Interrupt(i) \/ LookUp(i) \/ InterruptFound(i) \/ Interrupted(i)

Step(k) == Ready(k) \/ (k \in Call /\ MessageStep(k)) \/ (k \in Cancel /\ CancelStep(k))

Codex ==
  \/ \E q \in inbox : CodexResumes(q) \/ CodexStarts(q) \/ CodexReads(q)
                      \/ CodexInterrupts(q) \/ \E o \in Errors : o \in Outcomes /\ CodexRefuses(q, o)
  \/ \E u \in running : CodexRecords(u) \/ CodexCompletes(u)
  \/ \E q \in orphaned : OrphanStarts(q)
  \/ \E u \in foreign : ForeignEnds(u)

Next ==
  \/ \E k \in Worker : Arrive(k) \/ Deny(k) \/ Step(k) \/ Timeout(k)
  \/ Initialized
  \/ \E o \in {"timeout", "refused"} : InitializeFails(o)
  \/ DeliverResponse
  \/ DeliverNotice
  \/ ProcessExit
  \/ BridgeRestart
  \/ Codex

(* Continuations run and timers fire; the app-server owes nothing.         *)
Fairness ==
  /\ \A k \in Worker : WF_vars(Step(k)) /\ WF_vars(Timeout(k))
  /\ WF_vars(InitializeFails("timeout"))

Spec == Init /\ [][Next]_vars
FairSpec == Spec /\ Fairness

-----------------------------------------------------------------------------
(* What Codex may still do for a message key: turns it started, and start  *)
(* requests it has not handled.                                            *)
StartRequest(u) == [kind |-> "start", call |-> u[1], n |-> u[2]]
Possible(u) == u \in accepted \/ StartRequest(u) \in inbox \cup orphaned

(* A client_id becomes at most one turn, however often it is posted and    *)
(* whatever times out, exits, restarts or is answered late: the promise of *)
(* "original client_id stays the same" in docs/ARCHITECTURE.md, kept by    *)
(* SessionService.message and Store.                                       *)
AtMostOnce ==
  \A u, w \in accepted : TurnClient(u) = TurnClient(w) => u = w

(* A row that is absent, because none was begun or failIdempotent deleted  *)
(* it, is a message that Codex has not started and cannot start any more:  *)
(* posting it again is safe.                                               *)
ReleasedNeverRuns ==
  \A u \in OwnTurn : idem[TurnClient(u)] = "none" => ~Possible(u)

(* A recorded response names a turn that Codex started for this very       *)
(* client_id, and so does every answer given to a caller.                  *)
RecordedAnswersTrue ==
  /\ \A c \in Client : idem[c] = "done" => resp[c] \in accepted /\ TurnClient(resp[c]) = c
  /\ \A k \in Call : pc[k] = "ok" => val[k] \in accepted /\ TurnClient(val[k]) = ClientOf[k]

(* A response once recorded is never lost or changed: not by a slower      *)
(* owner of the row, not by a restart.                                     *)
DoneIsFinal ==
  [][\A c \in Client :
       idem[c] = "done" => idem'[c] = "done" /\ resp'[c] = resp[c]]_<<idem, resp>>

(* The bridge keeps what MessageOnce promises.  A key is open while it has *)
(* a row; a caller that times out, loses its connection or gets the 409    *)
(* "outcome is uncertain" is told nothing certain.                         *)
AnswerOf(k) ==
  CASE pc[k] = "ok" -> [told |-> "turn", turn |-> val[k]]
    [] pc[k] \in {"refused", "busy"} -> [told |-> "refused"]
    [] pc[k] \in {"denied", "uncertain", "failed", "lost"} -> [told |-> "unsure"]
    [] OTHER -> [told |-> "nothing"]

OpenKeys == {c \in Client : idem[c] # "none"}
AnswersGiven == [k \in Call |-> AnswerOf(k)]

Once == INSTANCE MessageOnce WITH
  Turn <- OwnTurn,
  TurnOf <- [u \in OwnTurn |-> TurnClient(u)],
  open <- OpenKeys,
  answer <- AnswersGiven

KeepsMessageOnce == Once!Spec

(* Every request that came in is answered, unless the bridge dies first:   *)
(* neither the queue of its thread nor a restart can hold it for ever.     *)
EveryCallAnswered ==
  \A k \in Worker : pc[k] = "access" ~> pc[k] \in Answers

(* The calls on their way to a turn are the heads of the queues, one per   *)
(* thread: nobody waits behind a call that is over, nobody overtakes.      *)
QueueServes ==
  LET Serving == {"connect", "resume", "start", "restart"} IN
  /\ \A k \in Call : pc[k] \in Serving =>
       queue[CallThread(k)] # <<>> /\ Head(queue[CallThread(k)]) = k
  /\ \A t \in Thread : queue[t] # <<>> => pc[Head(queue[t])] \in Serving \cup {"queued"}

(* Two turns of this bridge never run at the same time on one thread: the  *)
(* queue of the thread and the active map keep a second turn/start back,   *)
(* as long as no request times out and leaves its turn behind.             *)
OneTurnPerThread ==
  \A u, w \in running : TurnThread(u) = TurnThread(w) => u = w

(* The turn that is active has not ended, though turn/completed may be     *)
(* handled before the response to turn/start is looked at (startTurn,      *)
(* notification) - until a cancel has come in, which may make a turn       *)
(* active again whose end is on its way, or the app-server has exited,     *)
(* whose last lines may do so.                                             *)
ActiveNotEnded ==
  (\A i \in Cancel : pc[i] = "idle") => \A t \in Thread : active[t] \notin endEvents

-----------------------------------------------------------------------------
(* Why AtMostOnce holds: the strengthening that a step preserves.  A call  *)
(* owns the row of its key while it may still release it.                  *)
Owning == {"input", "queued", "connect", "resume", "start", "restart"}
Unsent == {"idle", "access"} \cup (Owning \ {"start"})
Lines == {out[i] : i \in 1..Len(out)}
Responses == {l \in Lines : l.type = "response"}

(* Attempts that have not been sent.                                       *)
Fresh(u) ==
  \/ u[2] > try[u[1]]
  \/ u[2] = try[u[1]] /\ pc[u[1]] \in Unsent

RowsOwned ==
  \A k \in Call :
    /\ pc[k] \in {"idle", "access"} => try[k] = 0
    /\ pc[k] \in Owning => try[k] > 0 /\ idem[ClientOf[k]] # "none"

OneOwner ==
  \A j, k \in Call :
    pc[j] \in Owning /\ pc[k] \in Owning /\ ClientOf[j] = ClientOf[k] => j = k

FreshUnseen ==
  \A u \in OwnTurn :
    Fresh(u) => ~Possible(u) /\ \A l \in Responses : l.req # StartRequest(u)

(* A start request is in one place, and not where its turn is.             *)
SentOnce ==
  \A u \in OwnTurn :
    /\ u \in accepted => StartRequest(u) \notin inbox \cup orphaned
    /\ StartRequest(u) \notin inbox \cap orphaned

(* While a call owns the row, only its own start request can succeed.      *)
OwnersTurn ==
  \A u \in OwnTurn, k \in Call :
    Possible(u) /\ TurnClient(u) = ClientOf[k] /\ pc[k] \in Owning
      => pc[k] = "start" /\ u[1] = k /\ u[2] = try[k]

OneTurnPossible ==
  \A u, w \in OwnTurn : Possible(u) /\ Possible(w) /\ TurnClient(u) = TurnClient(w) => u = w

RefusedNeverRuns ==
  /\ \A u \in OwnTurn, l \in Responses :
       l.req = StartRequest(u) /\ l.outcome # "ok" => ~Possible(u)
  /\ \A u \in OwnTurn :
       /\ pc[u[1]] = "start"
       /\ u[2] = try[u[1]]
       /\ res[u[1]] \in {"conflict", "refused"}
       => ~Possible(u)

AcceptedFor(c) == {u \in accepted : TurnClient(u) = c}

LinesTrue ==
  /\ \A l \in Responses :
       l.outcome = "ok" /\ l.req.call \in Call =>
         /\ l.req.kind = "start" => l.turn = <<l.req.call, l.req.n>> /\ l.turn \in accepted
         /\ l.req.kind = "read" => l.turn \in AcceptedFor(ClientOf[l.req.call]) \cup {NoTurn}
  /\ \A l \in Lines : l.type = "user_message" => l.turn \in accepted

ResultsTrue ==
  \A k \in Call :
    /\ pc[k] = "start" /\ res[k] = "ok" => val[k] = <<k, try[k]>> /\ val[k] \in accepted
    /\ pc[k] = "read" /\ res[k] = "ok" => val[k] \in AcceptedFor(ClientOf[k]) \cup {NoTurn}

StoredTrue == userEvents \subseteq accepted

IInv ==
  /\ TypeOK /\ RowsOwned /\ OneOwner /\ FreshUnseen /\ SentOnce /\ OwnersTurn
  /\ OneTurnPossible /\ ReleasedNeverRuns /\ RefusedNeverRuns
  /\ LinesTrue /\ ResultsTrue /\ StoredTrue /\ RecordedAnswersTrue

=============================================================================
