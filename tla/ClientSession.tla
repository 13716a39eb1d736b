--------------------------- MODULE ClientSession ---------------------------
(***************************************************************************)
(* The session of a page with the bridge: the tokens AuthService gives to  *)
(* devices, what api.ts and IndexedDB hold of them, the requests that      *)
(* refresh them, and when App.vue opens its WebSocket with them.           *)
(*                                                                         *)
(* A device has one refresh token that is good, the last it was given.     *)
(* What awaits a refresh goes on in a step of its own, as late as it may.  *)
(***************************************************************************)
EXTENDS Naturals, FiniteSets

CONSTANTS
  MaxDevice,   \* bound: pairings
  ByPassword,  \* the devices that are paired by password
  MaxBusy,     \* bound: requests and checks at a time
  MaxFault     \* bound: reloads, visits to the cache, tokens too old to refresh,
               \* losses of the bridge, of the network, of the socket, of a write

ASSUME SessionAssumption ==
  MaxDevice \in Nat \ {0} /\ ByPassword \subseteq 1..MaxDevice /\ MaxFault \in Nat
  /\ MaxBusy \in Nat \ {0}

VARIABLES
  up,          \* the bridge runs and can be reached
  devices,     \* devices paired so far
  ended,       \* those the bridge does not accept any more
  lost,        \* history: those given a token that was not kept
  held,        \* tokens: stored, left by an older version, in memory, of the socket
  page,        \* the page is open, is paired, shows the cache, has to boot
  proc,        \* what asks for a refresh: requests, and checks of the pairing
  refresh,     \* the refreshes under way
  inFlight,    \* refreshInFlight is set
  conn,        \* the WebSocket, its retry timer and flags
  online,      \* navigator.onLine
  faults       \* faults so far

serverVars == <<up, devices, ended>>
worldVars == <<online, faults>>
vars == <<serverVars, lost, held, page, proc, refresh, inFlight, conn, worldVars>>

Device == 1..MaxDevice
Request == {"poll", "pair", "unpair"}
Proc == Request \cup {"start", "retry", "back"}

NoToken == [device |-> 0, refresh |-> "old", access |-> "expired"]
Token == [device : Device, refresh : {"good", "old"}, access : {"good", "expired"}]
           \cup {NoToken}
NewToken(d) == [device |-> d, refresh |-> "good", access |-> "good"]

Idle == [pc |-> "idle", token |-> NoToken, tries |-> 0]
NoHeld == [store |-> NoToken, legacy |-> NoToken, auth |-> NoToken, socket |-> NoToken]
Closed == [open |-> FALSE, paired |-> FALSE, offline |-> FALSE, booting |-> FALSE]
NoConn == [ws |-> "none", reconnecting |-> FALSE, manual |-> FALSE, retry |-> FALSE,
           count |-> 0]

----------------------------------------------------------------------------
(* Tokens                                                                  *)

AccessOk(tok) == tok.device \notin ended \cup {0} /\ tok.access = "good"
RefreshOk(tok) == tok.device \notin ended \cup {0} /\ tok.refresh = "good"

\* The refresh tokens of a device that has been given a new one are old.
Rotated(tok, d) == IF tok.device = d THEN [tok EXCEPT !.refresh = "old"] ELSE tok

Expired(tok) == [tok EXCEPT !.access = "expired"]

\* What is kept in storage is refreshed before it is used: its access token is as good
\* as expired.  So is that of a socket once it is open, and of a token being refreshed.
Kept(tok) == Expired(tok)

\* Requests and sockets carry the access token alone.
AccessOf(tok) == [tok EXCEPT !.refresh = "old"]

Init ==
  /\ up = TRUE /\ online = TRUE /\ faults = 0
  /\ devices \in 0..1
  /\ ended = {} /\ lost = {}
  /\ IF devices = 0 THEN held = NoHeld
     ELSE held \in {[NoHeld EXCEPT !.store = Kept(NewToken(1))],
                    [NoHeld EXCEPT !.legacy = Kept(NewToken(1))]}
  /\ page = Closed
  /\ proc = [p \in Proc |-> Idle]
  /\ refresh = {} /\ inFlight = FALSE
  /\ conn = NoConn

Reachable == up /\ online

MayStart == Cardinality({p \in Proc : proc[p].pc # "idle"}) < MaxBusy
Fault == faults < MaxFault /\ faults' = faults + 1

----------------------------------------------------------------------------
(* The WebSocket                                                           *)

\* openWs: c is the state of the connection it finds.
MayOpen(c, isPaired, isOnline) == isPaired /\ isOnline /\ ~c.reconnecting

OpenWs(c, auth) ==
  IF auth = NoToken THEN [c EXCEPT !.ws = "none", !.retry = FALSE]
  ELSE [c EXCEPT !.ws = "connecting", !.retry = FALSE, !.reconnecting = TRUE]

Opens(c, isPaired, isOnline, h) ==
  IF MayOpen(c, isPaired, isOnline)
  THEN conn' = OpenWs(c, h.auth) /\ held' = [h EXCEPT !.socket = AccessOf(h.auth)]
  ELSE conn' = c /\ held' = h

\* ws?.close(): the close event comes later.
Close(c) == [c EXCEPT !.ws = IF @ \in {"connecting", "open"} THEN "gone" ELSE @]

\* What a lost session and unpairing do first.
Shut(c) == [Close(c) EXCEPT !.manual = TRUE, !.retry = FALSE]

Accept ==
  /\ conn.ws = "connecting" /\ Reachable /\ AccessOk(held.socket)
  /\ conn' = [conn EXCEPT !.ws = "open"] /\ held' = [held EXCEPT !.socket = Kept(@)]
  /\ UNCHANGED <<serverVars, lost, page, proc, refresh, inFlight, worldVars>>

\* The upgrade is refused, or fails, or takes more than 15 seconds.
Reject ==
  /\ conn.ws = "connecting" /\ ~(Reachable /\ AccessOk(held.socket))
  /\ conn' = Close(conn)
  /\ UNCHANGED <<serverVars, lost, held, page, proc, refresh, inFlight, worldVars>>

\* syncAll and the events buffered meanwhile are done.
Synced ==
  /\ conn.ws = "open" /\ conn.reconnecting /\ Reachable
  /\ conn' = [conn EXCEPT !.reconnecting = FALSE, !.count = 0]
  /\ UNCHANGED <<serverVars, lost, held, page, proc, refresh, inFlight, worldVars>>

\* The socket breaks, or syncAll fails.
Drop ==
  /\ conn.ws = "open" /\ conn' = Close(conn) /\ Fault
  /\ UNCHANGED <<serverVars, lost, held, page, proc, refresh, inFlight, online>>

\* Mutant: a socket that is lost before it is synchronized keeps the next out.
OnCloseReconnecting ==
  LET c == [conn EXCEPT !.ws = "none"] IN
  /\ conn.ws = "gone"
  /\ conn' = IF conn.manual \/ ~online THEN c
             ELSE [c EXCEPT !.retry = TRUE, !.count = (@ + 1) % 3]
  /\ held' = [held EXCEPT !.socket = NoToken]
  /\ UNCHANGED <<serverVars, lost, page, proc, refresh, inFlight, worldVars>>

\* Retries are counted modulo 3: every third refreshes the tokens first.
OnClose ==
  LET c == [conn EXCEPT !.ws = "none", !.reconnecting = FALSE] IN
  /\ conn.ws = "gone"
  /\ conn' = IF conn.manual \/ ~online THEN c
             ELSE [c EXCEPT !.retry = TRUE, !.count = (@ + 1) % 3]
  /\ held' = [held EXCEPT !.socket = NoToken]
  /\ UNCHANGED <<serverVars, lost, page, proc, refresh, inFlight, worldVars>>

----------------------------------------------------------------------------
(* Refreshing                                                              *)

\* Mutant: every request that needs one starts a refresh of its own.
BeginAnother(p, procs) ==
  LET starts == held.auth # NoToken IN
  /\ proc' = [procs EXCEPT ![p].pc = IF starts THEN "waiting" ELSE "failed",
                           ![p].token = NoToken]
  /\ refresh' = IF starts THEN refresh \cup {[pc |-> "sent", token |-> Kept(held.auth)]} ELSE refresh
  /\ inFlight' = (inFlight \/ starts)

\* refresh(): join the one under way, or start one.
Begin(p, procs) ==
  LET starts == ~inFlight /\ held.auth # NoToken IN
  /\ proc' = [procs EXCEPT ![p].pc = IF inFlight \/ starts THEN "waiting" ELSE "failed",
                           ![p].token = NoToken]
  /\ refresh' = IF starts THEN refresh \cup {[pc |-> "sent", token |-> Kept(held.auth)]} ELSE refresh
  /\ inFlight' = (inFlight \/ starts)

\* The refresh goes on, with the token it was given.
Onto(r, pc, tok) == refresh' = (refresh \ {r}) \cup {[pc |-> pc, token |-> tok]}

\* The refresh is over: whoever awaits it goes on.
Settle(r, result) ==
  /\ proc' = [p \in Proc |-> IF proc[p].pc = "waiting" THEN [proc[p] EXCEPT !.pc = result]
                             ELSE proc[p]]
  /\ refresh' = refresh \ {r}
  /\ inFlight' = FALSE

ServerRefresh(r) ==
  LET d == r.token.device IN
  /\ r.pc = "sent" /\ Reachable
  /\ IF RefreshOk(r.token)
     THEN /\ held' = [h \in DOMAIN held |-> Rotated(held[h], d)]
          /\ Onto(r, "answer", NewToken(d))
     ELSE Onto(r, "refused", r.token) /\ UNCHANGED held
  /\ UNCHANGED <<serverVars, lost, page, proc, inFlight, conn, worldVars>>

\* The request, or its answer, is lost.
Unavailable(r) ==
  /\ r.pc \in {"sent", "answer", "refused"} /\ ~Reachable
  /\ lost' = IF r.pc = "answer" THEN lost \cup {r.token.device} ELSE lost
  /\ Settle(r, "failed")
  /\ UNCHANGED <<serverVars, held, page, conn, worldVars>>

GotAnswer(r) ==
  /\ r.pc = "answer" /\ Reachable
  /\ held' = [held EXCEPT !.auth = r.token]
  /\ Onto(r, "storing", Kept(r.token))
  /\ UNCHANGED <<serverVars, lost, page, proc, inFlight, conn, worldVars>>

\* clearAuth, and the pairing screen.
Refused(r) ==
  /\ r.pc = "refused" /\ Reachable
  /\ held' = [NoHeld EXCEPT !.socket = held.socket]
  /\ page' = [page EXCEPT !.paired = FALSE, !.booting = FALSE]
  /\ conn' = Shut(conn)
  /\ Settle(r, "failed")
  /\ UNCHANGED <<serverVars, lost, worldVars>>

\* secureStore is done: notifyTokenRefreshed.
AfterStore(r, h) ==
  /\ IF MayOpen(conn, page.paired, online)
     THEN /\ conn' = OpenWs([conn EXCEPT !.manual = FALSE], h.auth)
          /\ held' = [h EXCEPT !.socket = AccessOf(h.auth)]
     ELSE held' = h /\ conn' = conn
  /\ Settle(r, "ok")
  /\ UNCHANGED <<serverVars, lost, page, worldVars>>

\* Mutant: the new tokens are kept in memory only.
StoredNot(r) ==
  /\ r.pc = "storing"
  /\ AfterStore(r, held)

Stored(r) ==
  /\ r.pc = "storing"
  /\ AfterStore(r, [held EXCEPT !.store = Kept(r.token)])

\* IndexedDB refuses the write.
StoreFails(r) ==
  /\ r.pc = "storing" /\ Fault
  /\ lost' = lost \cup {r.token.device}
  /\ Settle(r, "failed")
  /\ UNCHANGED <<serverVars, held, page, conn, online>>

----------------------------------------------------------------------------
(* Requests                                                                *)

Send(p, auth) == [proc EXCEPT ![p] = [pc |-> "sent", token |-> AccessOf(auth), tries |-> 0]]

\* The sessions are listed every 15 seconds.
Poll ==
  /\ page.paired /\ online /\ proc["poll"].pc = "idle" /\ MayStart
  /\ proc' = Send("poll", held.auth)
  /\ UNCHANGED <<serverVars, lost, held, page, refresh, inFlight, conn, worldVars>>

Pair ==
  /\ page.open /\ ~page.paired /\ ~page.offline
  /\ proc["pair"].pc = "idle" /\ devices < MaxDevice /\ MayStart
  /\ proc' = Send("pair", held.auth)
  /\ UNCHANGED <<serverVars, lost, held, page, refresh, inFlight, conn, worldVars>>

Unpair ==
  /\ page.paired /\ proc["unpair"].pc = "idle" /\ MayStart
  /\ conn' = Shut(conn)
  /\ proc' = Send("unpair", held.auth)
  /\ UNCHANGED <<serverVars, lost, held, page, refresh, inFlight, worldVars>>

\* The call of p is over; unpairing forgets the tokens whatever the answer.
EndCall(p, c) ==
  /\ proc' = [proc EXCEPT ![p] = Idle]
  /\ conn' = c
  /\ IF p = "unpair"
     THEN /\ held' = [NoHeld EXCEPT !.socket = held.socket]
          /\ page' = [page EXCEPT !.paired = FALSE, !.offline = FALSE, !.booting = FALSE]
     ELSE UNCHANGED <<held, page>>

Asked(p) == proc[p].pc \in {"sent", "resent"}

\* The guard lets it through.  revoke also terminates the sockets of the device.
Answered(p) ==
  LET d == proc[p].token.device IN
  /\ Asked(p) /\ p \in {"poll", "unpair"} /\ Reachable /\ AccessOk(proc[p].token)
  /\ ended' = IF p = "unpair" THEN ended \cup {d} ELSE ended
  /\ EndCall(p, IF p = "unpair" /\ held.socket.device = d /\ conn.ws = "open"
                THEN Close(conn) ELSE conn)
  /\ UNCHANGED <<up, devices, lost, refresh, inFlight, worldVars>>

\* A new device, whose tokens may fail to be stored: then pairing fails.
PairAccepted(isStored) ==
  LET d == devices + 1 IN
  /\ Asked("pair") /\ Reachable /\ devices < MaxDevice
  /\ devices' = d
  /\ held' = [held EXCEPT !.auth = NewToken(d), !.store = IF isStored THEN Kept(NewToken(d)) ELSE @]
  /\ lost' = IF isStored THEN lost ELSE lost \cup {d}
  /\ page' = IF isStored THEN [page EXCEPT !.paired = TRUE, !.booting = TRUE] ELSE page
  /\ proc' = [proc EXCEPT !["pair"] = Idle]
  /\ IF isStored THEN UNCHANGED faults ELSE Fault
  /\ UNCHANGED <<up, ended, refresh, inFlight, conn, online>>

\* 401: the first time, with tokens, they are refreshed and the call repeated.
Unauthorized(p) ==
  /\ Asked(p) /\ Reachable /\ (p = "pair" \/ ~AccessOk(proc[p].token))
  /\ IF proc[p].pc = "sent" /\ held.auth # NoToken
     THEN Begin(p, proc) /\ UNCHANGED <<held, page, conn>>
     ELSE EndCall(p, conn) /\ UNCHANGED <<refresh, inFlight>>
  /\ UNCHANGED <<serverVars, lost, worldVars>>

CallFails(p) ==
  /\ Asked(p) /\ ~Reachable
  /\ EndCall(p, conn)
  /\ UNCHANGED <<serverVars, lost, refresh, inFlight, worldVars>>

----------------------------------------------------------------------------
(* What checks the pairing: the page opens, a retry, leaving the cache     *)

\* initAuth, which moves the tokens of an older version, and the first attempt.
Mount ==
  LET auth == IF held.store # NoToken THEN held.store ELSE held.legacy IN
  /\ ~page.open
  /\ page' = [page EXCEPT !.open = TRUE]
  /\ held' = [held EXCEPT !.auth = auth, !.store = auth,
                          !.legacy = IF held.store = NoToken THEN NoToken ELSE @]
  /\ proc' = IF auth = NoToken THEN proc ELSE [proc EXCEPT !["start"].pc = "ready"]
  /\ UNCHANGED <<serverVars, lost, refresh, inFlight, conn, worldVars>>

Attempt ==
  /\ proc["start"].pc = "ready"
  /\ Begin("start", proc)
  /\ UNCHANGED <<serverVars, lost, held, page, conn, worldVars>>

\* The timer set by onclose.  Bound: one such timer awaits a refresh at a time.
Retry ==
  /\ conn.retry /\ proc["retry"].pc = "idle" /\ MayStart
  /\ IF held.auth # NoToken /\ conn.count = 0
     THEN /\ Begin("retry", proc) /\ conn' = [conn EXCEPT !.retry = FALSE]
          /\ UNCHANGED held
     ELSE /\ IF held.auth = NoToken THEN conn' = [conn EXCEPT !.retry = FALSE] /\ held' = held
             ELSE Opens([conn EXCEPT !.retry = FALSE], page.paired, online, held)
          /\ UNCHANGED <<proc, refresh, inFlight>>
  /\ UNCHANGED <<serverVars, lost, page, worldVars>>

EnterOffline ==
  /\ page.open /\ ~page.paired /\ ~page.offline /\ Fault
  /\ page' = [page EXCEPT !.offline = TRUE]
  /\ UNCHANGED <<serverVars, lost, held, proc, refresh, inFlight, conn, online>>

ExitOffline ==
  /\ page.offline
  /\ page' = [page EXCEPT !.offline = FALSE]
  /\ UNCHANGED <<serverVars, lost, held, proc, refresh, inFlight, conn, worldVars>>

\* reconnectFromOffline, once a probe of the bridge has succeeded.
Back ==
  /\ page.offline /\ Reachable /\ proc["back"].pc = "idle" /\ MayStart
  /\ IF held.auth = NoToken
     THEN /\ page' = [page EXCEPT !.offline = FALSE, !.paired = FALSE]
          /\ UNCHANGED <<proc, refresh, inFlight>>
     ELSE page' = [page EXCEPT !.offline = FALSE] /\ Begin("back", proc)
  /\ UNCHANGED <<serverVars, lost, held, conn, worldVars>>

Resend(p) ==
  /\ p \in Request /\ proc[p].pc = "ok"
  /\ proc' = [proc EXCEPT ![p] = [pc |-> "resent", token |-> AccessOf(held.auth), tries |-> 0]]
  /\ UNCHANGED <<serverVars, lost, held, page, refresh, inFlight, conn, worldVars>>

GiveUp(p) ==
  /\ p \in Request /\ proc[p].pc = "failed"
  /\ EndCall(p, conn)
  /\ UNCHANGED <<serverVars, lost, refresh, inFlight, worldVars>>

RetryOpens ==
  /\ proc["retry"].pc \in {"ok", "failed"}
  /\ proc' = [proc EXCEPT !["retry"] = Idle]
  /\ Opens(conn, page.paired, online, held)
  /\ UNCHANGED <<serverVars, lost, page, refresh, inFlight, worldVars>>

AttemptAgain ==
  /\ proc["start"].pc = "failed" /\ proc["start"].tries < 2 /\ held.auth # NoToken
  /\ proc' = [proc EXCEPT !["start"].pc = "ready", !["start"].tries = @ + 1]
  /\ UNCHANGED <<serverVars, lost, held, page, refresh, inFlight, conn, worldVars>>

\* paired is set to what the check has found, and the page boots.
Verified(p) ==
  /\ p \in {"start", "back"} /\ proc[p].pc \in {"ok", "failed"}
  /\ p = "start" /\ proc[p].pc = "failed" => proc[p].tries = 2 \/ held.auth = NoToken
  /\ page' = [page EXCEPT !.paired = (proc[p].pc = "ok"),
                          !.booting = @ \/ proc[p].pc = "ok"]
  /\ proc' = [proc EXCEPT ![p] = Idle]
  /\ UNCHANGED <<serverVars, lost, held, refresh, inFlight, conn, worldVars>>

Boot ==
  /\ page.booting
  /\ page' = [page EXCEPT !.booting = FALSE]
  /\ Opens(conn, page.paired, online, held)
  /\ UNCHANGED <<serverVars, lost, proc, refresh, inFlight, worldVars>>

----------------------------------------------------------------------------
(* The world around                                                        *)

\* The tab is closed or reloaded: what was not stored is lost.
ClosePage ==
  /\ page.open /\ Fault
  /\ page' = Closed /\ conn' = NoConn
  /\ held' = [held EXCEPT !.auth = NoToken, !.socket = NoToken]
  /\ proc' = [p \in Proc |-> Idle]
  /\ refresh' = {} /\ inFlight' = FALSE
  /\ lost' = lost \cup {r.token.device : r \in {x \in refresh : x.pc \in {"answer", "storing"}}}
  /\ UNCHANGED <<serverVars, online>>

GoOffline ==
  /\ page.open /\ online /\ Fault
  /\ online' = FALSE /\ conn' = Close(conn)
  /\ UNCHANGED <<serverVars, lost, held, page, proc, refresh, inFlight>>

GoOnline ==
  /\ ~online
  /\ online' = TRUE
  /\ Opens(conn, page.paired, TRUE, held)
  /\ UNCHANGED <<serverVars, lost, page, proc, refresh, inFlight, faults>>

Unreachable ==
  /\ up /\ up' = FALSE /\ Fault
  /\ UNCHANGED <<devices, ended, lost, held, page, proc, refresh, inFlight, conn, online>>

Recover ==
  /\ ~up /\ up' = TRUE
  /\ UNCHANGED <<devices, ended, lost, held, page, proc, refresh, inFlight, conn, worldVars>>

\* The bridge starts again: devices paired with a code are revoked.
Restart ==
  /\ ~up /\ up' = TRUE
  /\ ended' = ended \cup ((1..devices) \ ByPassword)
  /\ conn' = IF conn.ws = "open" THEN Close(conn) ELSE conn
  /\ UNCHANGED <<devices, lost, held, page, proc, refresh, inFlight, worldVars>>

\* A token lasts longer than it takes to store it, to connect or to call with it.
JustGiven ==
  \/ conn.ws = "connecting" /\ AccessOk(held.socket)
  \/ \E r \in refresh : r.pc = "storing"
  \/ \E p \in Proc : proc[p].pc = "resent" /\ AccessOk(proc[p].token)

Expire ==
  /\ ~JustGiven
  /\ held' = [h \in DOMAIN held |-> Expired(held[h])]
  /\ proc' = [p \in Proc |-> [proc[p] EXCEPT !.token = Expired(@)]]
  /\ <<held, proc>>' # <<held, proc>>
  /\ UNCHANGED <<serverVars, lost, page, refresh, inFlight, conn, worldVars>>

\* refreshDays have passed since the last refresh: its access tokens expired long ago.
Forget(d) ==
  /\ d \in (1..devices) \ ended /\ Fault
  /\ \A h \in DOMAIN held : held[h].device = d => held[h].access = "expired"
  /\ \A r \in refresh : r.token.device # d
  /\ ended' = ended \cup {d}
  /\ UNCHANGED <<up, devices, lost, held, page, proc, refresh, inFlight, conn, online>>

----------------------------------------------------------------------------

Refreshing == \E r \in refresh : ServerRefresh(r) \/ Unavailable(r) \/ GotAnswer(r) \/ Refused(r)
Storing == \E r \in refresh : Stored(r)
Answering(p) ==
  \/ Answered(p) \/ Unauthorized(p) \/ CallFails(p)
  \/ p = "pair" /\ \E isStored \in BOOLEAN : PairAccepted(isStored)
Continuing(p) ==
  \/ Resend(p) \/ GiveUp(p) \/ Verified(p)
  \/ p = "retry" /\ RetryOpens
  \/ p = "start" /\ AttemptAgain
Connecting == Accept \/ Reject \/ OnClose \/ Boot \/ Retry

User == Mount \/ Pair \/ Unpair \/ EnterOffline \/ ExitOffline \/ Back \/ ClosePage
World ==
  \/ Drop \/ (\E r \in refresh : StoreFails(r)) \/ GoOffline \/ GoOnline \/ Unreachable \/ Recover \/ Restart
  \/ Expire
  \/ \E d \in Device : Forget(d)

Next ==
  \/ Refreshing \/ Storing
  \/ \E p \in Proc : Answering(p) \/ Continuing(p)
  \/ Poll \/ Attempt \/ Synced \/ Connecting
  \/ User \/ World

Spec == Init /\ [][Next]_vars

\* Requests end, timers fire and tokens expire; users and faults come as they like.
Fairness ==
  /\ WF_vars(Refreshing) /\ WF_vars(Storing)
  /\ \A p \in Proc : WF_vars(Answering(p) \/ Continuing(p))
  /\ WF_vars(Poll) /\ WF_vars(Attempt) /\ WF_vars(Synced)
  /\ WF_vars(Accept \/ Reject) /\ WF_vars(OnClose)
  /\ WF_vars(Boot) /\ WF_vars(Retry) /\ WF_vars(Expire)

FairSpec == Spec /\ Fairness

----------------------------------------------------------------------------
(* Properties                                                              *)

\* What every variable holds: api.ts and App.vue keep one value of each.
TypeOK ==
  /\ up \in BOOLEAN /\ online \in BOOLEAN
  /\ devices \in 0..MaxDevice /\ faults \in 0..MaxFault
  /\ ended \subseteq Device /\ lost \subseteq Device
  /\ held \in [store : Token, legacy : Token, auth : Token, socket : Token]
  /\ page \in [open : BOOLEAN, paired : BOOLEAN, offline : BOOLEAN, booting : BOOLEAN]
  /\ proc \in [Proc -> [pc : {"idle", "ready", "sent", "waiting", "resent", "ok", "failed"},
                        token : Token, tries : 0..2]]
  /\ refresh \subseteq [pc : {"sent", "answer", "refused", "storing"}, token : Token]
  /\ inFlight \in BOOLEAN
  /\ conn \in [ws : {"none", "connecting", "open", "gone"}, reconnecting : BOOLEAN,
               manual : BOOLEAN, retry : BOOLEAN, count : 0..2]

\* A refresh is refused only when the bridge has ended the pairing, or when a
\* token it gave before never reached IndexedDB: however requests, retries and
\* checks overlap, api.ts never loses a pairing by refreshing with a token
\* that another of its refreshes has replaced.
KeepsPairing ==
  \A r \in refresh : r.pc = "refused" => r.token.device \in ended \cup lost

\* Between refreshes the page may be closed at any time: what IndexedDB holds
\* then is a token the bridge takes, as long as every token was stored and the
\* device is not revoked (App.vue and api.ts: a reload keeps the pairing).
ReloadKeepsPairing ==
  page.open /\ ~inFlight /\ held.auth # NoToken /\ held.auth.device \notin lost
    => /\ held.store # NoToken
       /\ held.store.device \notin ended \cup lost => RefreshOk(held.store)

\* wsReconnecting, which keeps every other attempt out, is set only while there is a
\* socket whose close or synchronization will reset it (App.vue openWs and onclose).
ReconnectingHasSocket == conn.reconnecting => conn.ws # "none"

\* A paired page that has tokens, in reach of the bridge from some time on, has
\* its WebSocket open again and again: neither a manualClose left by the
\* session before, nor an attempt that failed, nor expired tokens end it.
StaysConnected ==
  <>[](Reachable /\ page.paired /\ held.auth # NoToken) => []<>(conn.ws = "open")
=============================================================================
