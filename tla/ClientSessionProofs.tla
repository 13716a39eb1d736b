------------------------ MODULE ClientSessionProofs -------------------------
(***************************************************************************)
(* Theorems about ClientSession, for any number of devices, of requests at *)
(* a time and of faults.  IInv is inductive.  A step that neither gives,   *)
(* stores nor forgets tokens needs only keep the types and the connection  *)
(* (TokensFrame); the others are treated one by one.                       *)
(***************************************************************************)
EXTENDS ClientSession, TLAPS

Held == [store : Token, legacy : Token, auth : Token, socket : Token]
Page == [open : BOOLEAN, paired : BOOLEAN, offline : BOOLEAN, booting : BOOLEAN]
Conn == [ws : {"none", "connecting", "open", "gone"}, reconnecting : BOOLEAN,
         manual : BOOLEAN, retry : BOOLEAN, count : 0..2]
Call == [pc : {"idle", "ready", "sent", "waiting", "resent", "ok", "failed"},
         token : Token, tries : 0..2]

\* A token that the bridge takes, unless it has ended the pairing or a later one was lost.
Fine(tok) == tok = NoToken \/ tok.refresh = "good" \/ tok.device \in ended \cup lost
Underway(pcs, d) == \E r \in refresh : r.pc \in pcs /\ r.token.device = d

Alone == (\A r, s \in refresh : r = s) /\ (inFlight <=> refresh # {})

WhenClosed ==
  ~page.open =>
    /\ page = Closed /\ conn = NoConn /\ refresh = {}
    /\ held.auth = NoToken
    /\ \A p \in Proc : proc[p].pc = "idle"

LegacyAlone ==
  held.legacy # NoToken => ~page.open /\ held.store = NoToken /\ Fine(held.legacy)

RefreshesTrue ==
  \A r \in refresh :
    /\ r.token # NoToken
    /\ r.pc = "sent" => Fine(r.token)
    /\ r.pc \in {"answer", "storing"} => r.token.refresh = "good"
    /\ r.pc = "refused" => r.token.device \in ended \cup lost

AuthFine == Fine(held.auth) \/ Underway({"answer"}, held.auth.device)
StoreFine == Fine(held.store) \/ Underway({"answer", "storing"}, held.store.device)

StoreHas ==
  held.auth # NoToken /\ held.auth.device \notin lost
    => held.store # NoToken \/ Underway({"storing"}, held.auth.device)

Tokens == Alone /\ LegacyAlone /\ RefreshesTrue /\ AuthFine /\ StoreFine /\ StoreHas

IInv == TypeOK /\ WhenClosed /\ Tokens /\ ReconnectingHasSocket

----------------------------------------------------------------------------
(* Tokens, and what holds them                                             *)

(* What becomes of a token changes neither its device nor whether it is    *)
(* one at all; only a rotation makes a refresh token old.                  *)
LEMMA TokenOps ==
  ASSUME NEW tok \in Token
  PROVE  /\ tok # NoToken <=> tok.device \in Device
         /\ tok.device = 0 <=> tok = NoToken
         /\ Kept(tok) \in Token /\ Kept(tok).device = tok.device /\ Kept(tok).refresh = tok.refresh
         /\ Expired(tok) = Kept(tok)
         /\ AccessOf(tok) \in Token /\ AccessOf(tok).device = tok.device
<1>1. CASE tok = NoToken
  BY <1>1, SessionAssumption DEF Token, NoToken, Device, Kept, Expired, AccessOf
<1>2. CASE tok # NoToken
  BY <1>2, SessionAssumption DEF Token, NoToken, Device, Kept, Expired, AccessOf
<1> QED
  BY <1>1, <1>2

LEMMA Rotating ==
  ASSUME NEW tok \in Token, NEW d \in Device
  PROVE  /\ Rotated(tok, d) \in Token /\ Rotated(tok, d).device = tok.device
         /\ tok.device # d => Rotated(tok, d) = tok
<1>1. CASE tok.device = d
  BY <1>1, SessionAssumption DEF Token, NoToken, Device, Rotated
<1>2. CASE tok.device # d
  BY <1>2 DEF Rotated
<1> QED
  BY <1>1, <1>2

LEMMA NewTokens ==
  ASSUME NEW d \in Device
  PROVE  NewToken(d) \in Token /\ NewToken(d).device = d /\ NewToken(d).refresh = "good"
         /\ NewToken(d) # NoToken
BY SessionAssumption DEF NewToken, Token, NoToken, Device

LEMMA NothingHeld ==
  /\ NoToken \in Token /\ NoHeld \in Held /\ Closed \in Page /\ NoConn \in Conn /\ Idle \in Call
  /\ Fine(NoToken)
  /\ NoHeld.store = NoToken /\ NoHeld.legacy = NoToken /\ NoHeld.auth = NoToken
  /\ ~Closed.open /\ ~Closed.paired /\ ~Closed.offline /\ ~Closed.booting
<1>1. NoToken \in Token /\ Fine(NoToken)
  BY DEF Token, Fine
<1>2. NoHeld \in Held /\ NoHeld.store = NoToken /\ NoHeld.legacy = NoToken /\ NoHeld.auth = NoToken
  BY <1>1 DEF NoHeld, Held
<1>3. Closed \in Page /\ ~Closed.open /\ ~Closed.paired /\ ~Closed.offline /\ ~Closed.booting
  <2>1. ~Closed.open /\ ~Closed.paired /\ ~Closed.offline /\ ~Closed.booting
    BY Zenon DEF Closed
  <2>2. Closed \in Page
    BY DEF Closed, Page
  <2> QED
    BY <2>1, <2>2
<1>4. NoConn \in Conn /\ Idle \in Call
  BY <1>1 DEF NoConn, Conn, Idle, Call
<1> QED
  BY <1>1, <1>2, <1>3, <1>4

(* Updates of two fields of the connection.                                *)
LEMMA TwoFields ==
  ASSUME NEW c \in Conn, NEW x, NEW y
  PROVE  [c EXCEPT !.ws = x, !.reconnecting = y]
           = [ws |-> x, reconnecting |-> y, manual |-> c.manual, retry |-> c.retry,
              count |-> c.count]
<1> DEFINE d == [c EXCEPT !.ws = x]
<1>1. d = [ws |-> x, reconnecting |-> c.reconnecting, manual |-> c.manual,
           retry |-> c.retry, count |-> c.count]
  BY DEF Conn
<1> HIDE DEF d
<1>2. [d EXCEPT !.reconnecting = y]
        = [ws |-> x, reconnecting |-> y, manual |-> c.manual, retry |-> c.retry,
           count |-> c.count]
  BY <1>1
<1> QED
  BY <1>2 DEF d

LEMMA ManualRetry ==
  ASSUME NEW c \in Conn, NEW x, NEW y
  PROVE  [c EXCEPT !.manual = x, !.retry = y]
           = [ws |-> c.ws, reconnecting |-> c.reconnecting, manual |-> x, retry |-> y,
              count |-> c.count]
<1> DEFINE d == [c EXCEPT !.manual = x]
<1>1. d = [ws |-> c.ws, reconnecting |-> c.reconnecting, manual |-> x,
           retry |-> c.retry, count |-> c.count]
  BY DEF Conn
<1> HIDE DEF d
<1>2. [d EXCEPT !.retry = y]
        = [ws |-> c.ws, reconnecting |-> c.reconnecting, manual |-> x, retry |-> y,
           count |-> c.count]
  BY <1>1
<1> QED
  BY <1>2 DEF d

LEMMA PageFields ==
  ASSUME NEW q \in Page
  PROVE  [q EXCEPT !.paired = FALSE, !.offline = FALSE, !.booting = FALSE]
           = [open |-> q.open, paired |-> FALSE, offline |-> FALSE, booting |-> FALSE]
<1>1. ASSUME NEW x, NEW y, NEW z
      PROVE  [q EXCEPT !.paired = x, !.offline = y, !.booting = z]
               = [open |-> q.open, paired |-> x, offline |-> y, booting |-> z]
  <2> DEFINE d == [q EXCEPT !.paired = x]
             e == [d EXCEPT !.offline = y]
  <2>1. d = [open |-> q.open, paired |-> x, offline |-> q.offline, booting |-> q.booting]
    BY DEF Page
  <2> HIDE DEF d
  <2>2. e = [open |-> q.open, paired |-> x, offline |-> y, booting |-> q.booting]
    BY <2>1
  <2> HIDE DEF e
  <2>3. [e EXCEPT !.booting = z] = [open |-> q.open, paired |-> x, offline |-> y, booting |-> z]
    BY <2>2
  <2> QED
    BY <2>3 DEF d, e
<1> QED
  BY <1>1

(* openWs changes the connection and the socket's token, and nothing if    *)
(* the page is not paired.                                                 *)
LEMMA Opening ==
  ASSUME NEW c \in Conn, NEW h \in Held, NEW b \in BOOLEAN, NEW o \in BOOLEAN,
         c.reconnecting => c.ws # "none", Opens(c, b, o, h)
  PROVE  /\ conn' \in Conn /\ ReconnectingHasSocket'
         /\ held' \in Held /\ held'.store = h.store /\ held'.legacy = h.legacy
         /\ held'.auth = h.auth
         /\ ~b => conn' = c /\ held' = h
<1>1. CASE MayOpen(c, b, o)
  <2>1. OpenWs(c, h.auth) \in Conn /\ (OpenWs(c, h.auth).reconnecting => OpenWs(c, h.auth).ws # "none")
    BY <1>1 DEF MayOpen, OpenWs, Conn
  <2>2. AccessOf(h.auth) \in Token
    BY TokenOps DEF Held
  <2> QED
    BY <1>1, <2>1, <2>2 DEF Opens, MayOpen, Held, ReconnectingHasSocket
<1>2. CASE ~MayOpen(c, b, o)
  BY <1>2 DEF Opens, ReconnectingHasSocket
<1> QED
  BY <1>1, <1>2

(* A step that leaves the tokens kept, and the refreshes, as they are.     *)
LEMMA TokensFrame ==
  ASSUME IInv, TypeOK', WhenClosed', ReconnectingHasSocket',
         refresh' = refresh, inFlight' = inFlight, page.open' = page.open,
         held'.store = held.store, held'.legacy = held.legacy, held'.auth = held.auth,
         ended \subseteq ended', lost \subseteq lost'
  PROVE  IInv'
BY DEF IInv, Tokens, Alone, LegacyAlone, RefreshesTrue, AuthFine, StoreFine, StoreHas, Fine, Underway

----------------------------------------------------------------------------
(* The connection                                                          *)

LEMMA SocketSteps ==
  ASSUME IInv, Accept \/ Reject \/ Synced \/ Drop \/ OnClose
  PROVE  IInv'
<1>1. /\ refresh' = refresh /\ inFlight' = inFlight /\ page' = page /\ proc' = proc
      /\ up' = up /\ devices' = devices /\ ended' = ended /\ lost' = lost /\ online' = online
  BY DEF Accept, Reject, Synced, Drop, OnClose, serverVars, worldVars
<1>2. held' \in Held /\ held'.store = held.store /\ held'.legacy = held.legacy
      /\ held'.auth = held.auth
  BY TokenOps, NothingHeld DEF Accept, Reject, Synced, Drop, OnClose, IInv, TypeOK, Held
<1>3. faults' \in 0..MaxFault
  BY SessionAssumption DEF Accept, Reject, Synced, Drop, OnClose, worldVars, Fault, IInv, TypeOK
<1>4. conn' \in Conn /\ ReconnectingHasSocket' /\ conn # NoConn
  <2>1. CASE Accept
    BY <2>1 DEF Accept, IInv, TypeOK, Conn, NoConn, ReconnectingHasSocket
  <2>2. CASE Reject \/ Drop
    BY <2>2 DEF Reject, Drop, Close, IInv, TypeOK, Conn, NoConn, ReconnectingHasSocket
  <2>3. CASE Synced
    <3>1. conn \in Conn /\ conn.ws = "open"
      BY <2>3 DEF Synced, IInv, TypeOK, Conn
    <3>2. conn' = [ws |-> conn.ws, reconnecting |-> FALSE, manual |-> conn.manual,
                   retry |-> conn.retry, count |-> 0]
      BY <2>3, <3>1 DEF Synced, Conn
    <3> QED
      BY <3>1, <3>2 DEF Conn, NoConn, ReconnectingHasSocket
  <2>4. CASE OnClose
    <3> DEFINE c == [ws |-> "none", reconnecting |-> FALSE, manual |-> conn.manual,
                     retry |-> conn.retry, count |-> conn.count]
    <3>1. conn \in Conn /\ conn.ws = "gone"
      BY <2>4 DEF OnClose, IInv, TypeOK, Conn
    <3>2. c = [conn EXCEPT !.ws = "none", !.reconnecting = FALSE] /\ c \in Conn
      BY <3>1, TwoFields DEF Conn
    <3>3. (conn.count + 1) % 3 \in 0..2
      BY <3>1 DEF Conn
    <3>4. CASE conn' = c
      BY <3>1, <3>2, <3>4 DEF NoConn, ReconnectingHasSocket
    <3>5. CASE conn' = [c EXCEPT !.retry = TRUE, !.count = (conn.count + 1) % 3]
      <4>1. conn' = [ws |-> "none", reconnecting |-> FALSE, manual |-> conn.manual,
                     retry |-> TRUE, count |-> (conn.count + 1) % 3]
        BY <3>5
      <4> QED
        BY <3>1, <3>3, <4>1 DEF Conn, NoConn, ReconnectingHasSocket
    <3> QED
      BY <2>4, <3>2, <3>4, <3>5 DEF OnClose
  <2> QED
    BY <2>1, <2>2, <2>3, <2>4
<1>5. page.open
  BY <1>4 DEF IInv, WhenClosed
<1>6. TypeOK' /\ WhenClosed'
  BY <1>1, <1>2, <1>3, <1>4, <1>5 DEF IInv, TypeOK, WhenClosed, Held, Conn
<1> QED
  BY <1>1, <1>2, <1>4, <1>6, TokensFrame

----------------------------------------------------------------------------
(* Requests that leave the tokens alone                                    *)

(* A closed page does nothing.                                             *)
LEMMA OpenPage ==
  ASSUME IInv,
         \/ page.paired \/ page.offline \/ page.booting
         \/ conn # NoConn \/ refresh # {} \/ held.auth # NoToken
         \/ \E p \in Proc : proc[p].pc # "idle"
  PROVE  page.open
BY NothingHeld DEF IInv, WhenClosed

(* The types and the connection of a page that stays open.                 *)
LEMMA StaysOpen ==
  ASSUME IInv, page' \in Page, page'.open, page.open, up' \in BOOLEAN, devices' = devices,
         ended \subseteq ended', ended' \subseteq Device, lost \subseteq lost',
         lost' \subseteq Device, held' \in Held, proc' \in [Proc -> Call],
         refresh' = refresh, inFlight' = inFlight, conn' \in Conn, ReconnectingHasSocket',
         online' \in BOOLEAN, faults' \in 0..MaxFault,
         held'.store = held.store, held'.legacy = held.legacy, held'.auth = held.auth
  PROVE  IInv'
<1>1. TypeOK'
  BY DEF IInv, TypeOK, Page, Held, Call, Conn
<1>2. WhenClosed'
  BY DEF WhenClosed
<1>3. page.open' = page.open
  BY DEF IInv, TypeOK
<1> QED
  BY <1>1, <1>2, <1>3, TokensFrame

(* What TypeOK says of each variable.                                      *)
LEMMA Types ==
  ASSUME IInv
  PROVE  /\ up \in BOOLEAN /\ online \in BOOLEAN /\ devices \in 0..MaxDevice
         /\ faults \in 0..MaxFault /\ ended \subseteq Device /\ lost \subseteq Device
         /\ held \in Held /\ page \in Page /\ proc \in [Proc -> Call] /\ conn \in Conn
         /\ inFlight \in BOOLEAN /\ ReconnectingHasSocket
         /\ refresh \subseteq [pc : {"sent", "answer", "refused", "storing"}, token : Token]
         /\ MaxDevice \in Nat /\ MaxFault \in Nat
BY SessionAssumption DEF IInv, TypeOK, Held, Page, Call, Conn

(* Calls, field by field.                                                  *)
CallPc == {"idle", "ready", "sent", "waiting", "resent", "ok", "failed"}

LEMMA CallFields ==
  ASSUME NEW procs \in [Proc -> Call], NEW p \in Proc
  PROVE  /\ \A pc \in CallPc : [procs EXCEPT ![p].pc = pc] \in [Proc -> Call]
         /\ \A tok \in Token : [procs EXCEPT ![p].token = tok] \in [Proc -> Call]
         /\ \A n \in 0..2 : [procs EXCEPT ![p].tries = n] \in [Proc -> Call]
         /\ \A pc \in CallPc, tok \in Token :
              [procs EXCEPT ![p] = [pc |-> pc, token |-> tok, tries |-> 0]] \in [Proc -> Call]
BY DEF Call, CallPc

LEMMA BeginTypes ==
  ASSUME NEW procs \in [Proc -> Call], NEW p \in Proc, NEW pc \in CallPc
  PROVE  [procs EXCEPT ![p].pc = pc, ![p].token = NoToken] \in [Proc -> Call]
<1> DEFINE q == [procs EXCEPT ![p].pc = pc]
<1>1. q \in [Proc -> Call]
  BY CallFields
<1> HIDE DEF q
<1>2. [q EXCEPT ![p].token = NoToken] \in [Proc -> Call]
  BY <1>1, CallFields, NothingHeld
<1> QED
  BY <1>2 DEF q

(* The call of p goes out with the access token that is held.              *)
LEMMA Sending ==
  ASSUME IInv, NEW p \in Proc
  PROVE  Send(p, held.auth) \in [Proc -> Call]
<1>1. AccessOf(held.auth) \in Token /\ "sent" \in CallPc
  BY Types, TokenOps DEF Held, CallPc
<1> QED
  BY <1>1, Types, CallFields DEF Send

LEMMA PollKeeps ==
  ASSUME IInv, Poll \/ Pair
  PROVE  IInv'
<1>1. page.open
  BY OpenPage DEF Poll, Pair
<1>2. "poll" \in Proc /\ "pair" \in Proc
  BY DEF Proc, Request
<1>3. proc' \in [Proc -> Call]
  BY <1>2, Sending DEF Poll, Pair
<1>4. /\ up' = up /\ devices' = devices /\ ended' = ended /\ lost' = lost /\ held' = held
      /\ page' = page /\ refresh' = refresh /\ inFlight' = inFlight /\ conn' = conn
      /\ online' = online /\ faults' = faults
  BY DEF Poll, Pair, serverVars, worldVars
<1> QED
  BY <1>1, <1>3, <1>4, Types, StaysOpen DEF ReconnectingHasSocket

LEMMA ShutTypes ==
  ASSUME NEW c \in Conn, c.reconnecting => c.ws # "none"
  PROVE  /\ Close(c) \in Conn /\ (Close(c).reconnecting => Close(c).ws # "none")
         /\ Shut(c) \in Conn /\ (Shut(c).reconnecting => Shut(c).ws # "none")
<1>1. Close(c) \in Conn /\ (Close(c).reconnecting => Close(c).ws # "none")
  BY DEF Close, Conn
<1> DEFINE d == Close(c)
<1> HIDE DEF d
<1>2. [d EXCEPT !.manual = TRUE, !.retry = FALSE]
        = [ws |-> d.ws, reconnecting |-> d.reconnecting, manual |-> TRUE, retry |-> FALSE,
           count |-> d.count]
  BY <1>1, ManualRetry DEF d
<1> QED
  BY <1>1, <1>2 DEF Shut, d, Conn

LEMMA UnpairKeeps ==
  ASSUME IInv, Unpair
  PROVE  IInv'
<1>1. page.open
  BY OpenPage DEF Unpair
<1>2. proc' \in [Proc -> Call]
  BY Sending DEF Unpair, Proc, Request
<1>3. conn' \in Conn /\ ReconnectingHasSocket'
  BY Types, ShutTypes DEF Unpair, ReconnectingHasSocket
<1>4. /\ up' = up /\ devices' = devices /\ ended' = ended /\ lost' = lost /\ held' = held
      /\ page' = page /\ refresh' = refresh /\ inFlight' = inFlight
      /\ online' = online /\ faults' = faults
  BY DEF Unpair, serverVars, worldVars
<1> QED
  BY <1>1, <1>2, <1>3, <1>4, Types, StaysOpen

----------------------------------------------------------------------------
(* Requests that refresh the tokens                                        *)

(* p waits for a refresh, the one under way or a new one.  Whatever has    *)
(* tokens to refresh when none is under way has tokens that are Fine.      *)
LEMMA BeginKeeps ==
  ASSUME IInv, page.open, NEW p \in Proc, Begin(p, proc),
         page' \in Page, page'.open, conn' \in Conn, ReconnectingHasSocket',
         UNCHANGED <<serverVars, lost, held, worldVars>>
  PROVE  IInv'
<1>1. proc' \in [Proc -> Call]
  BY Types, BeginTypes DEF Begin, CallPc
<1>2. /\ up' = up /\ devices' = devices /\ ended' = ended /\ lost' = lost /\ held' = held
      /\ online' = online /\ faults' = faults
  BY DEF serverVars, worldVars
<1>3. WhenClosed'
  BY DEF WhenClosed
<1>4. CASE refresh' = refresh /\ inFlight' = inFlight
  BY <1>1, <1>2, <1>4, Types, StaysOpen
<1>5. CASE ~(refresh' = refresh /\ inFlight' = inFlight)
  <2> DEFINE r == [pc |-> "sent", token |-> Kept(held.auth)]
  <2>1. ~inFlight /\ held.auth # NoToken /\ refresh' = refresh \cup {r} /\ inFlight'
    BY <1>5, Types DEF Begin
  <2>2. refresh = {} /\ Fine(held.auth)
    BY <2>1 DEF IInv, Tokens, Alone, AuthFine, Underway
  <2>3. Kept(held.auth) \in Token /\ Kept(held.auth) # NoToken /\ Fine(Kept(held.auth))
    BY <2>1, <2>2, Types, TokenOps DEF Held, Fine
  <2>4. refresh' = {r}
    BY <2>1, <2>2
  <2>5. TypeOK'
    BY <1>1, <1>2, <2>1, <2>3, <2>4, Types DEF TypeOK, Held, Page, Call, Conn
  <2>6. Alone' /\ RefreshesTrue'
    <3>1. r.pc = "sent" /\ r.token # NoToken
          /\ (r.token.refresh = "good" \/ r.token.device \in ended' \cup lost')
      BY <1>2, <2>3 DEF Fine
    <3>2. \A x \in refresh' : x = r
      BY <2>4
    <3>3. r \in refresh'
      BY <2>4
    <3> HIDE DEF r
    <3>4. Alone'
      BY <2>1, <3>2, <3>3, Zenon DEF Alone
    <3>5. RefreshesTrue'
      BY <3>1, <3>2 DEF RefreshesTrue, Fine
    <3> QED
      BY <3>4, <3>5
  <2>7. LegacyAlone'
    BY <1>2 DEF IInv, Tokens, LegacyAlone, Fine
  <2>8. AuthFine' /\ StoreFine' /\ StoreHas'
    BY <1>2, <2>2 DEF IInv, Tokens, AuthFine, StoreFine, StoreHas, Fine, Underway
  <2> QED
    BY <1>3, <2>5, <2>6, <2>7, <2>8 DEF IInv, Tokens
<1> QED
  BY <1>4, <1>5

(* The tokens are forgotten; refreshes may be over.                        *)
LEMMA Forgotten ==
  ASSUME IInv, TypeOK', WhenClosed', ReconnectingHasSocket', page'.open,
         refresh' \subseteq refresh, inFlight' <=> refresh' # {},
         held'.store = NoToken, held'.legacy = NoToken, held'.auth = NoToken,
         ended \subseteq ended', lost \subseteq lost'
  PROVE  IInv'
<1>1. Alone' /\ RefreshesTrue'
  BY DEF IInv, Tokens, Alone, RefreshesTrue, Fine
<1>2. LegacyAlone' /\ AuthFine' /\ StoreFine' /\ StoreHas'
  BY DEF LegacyAlone, AuthFine, StoreFine, StoreHas, Fine
<1> QED
  BY <1>1, <1>2 DEF IInv, Tokens

(* A call is over.                                                         *)
LEMMA EndKeeps ==
  ASSUME IInv, page.open, NEW p \in Proc, NEW c \in Conn, c.reconnecting => c.ws # "none",
         EndCall(p, c), ended \subseteq ended', ended' \subseteq Device,
         UNCHANGED <<up, devices, lost, refresh, inFlight, worldVars>>
  PROVE  IInv'
<1>1. proc' \in [Proc -> Call] /\ conn' \in Conn /\ ReconnectingHasSocket'
  BY Types, NothingHeld DEF EndCall, ReconnectingHasSocket
<1>2. online' = online /\ faults' = faults
  BY DEF worldVars
<1>3. CASE p # "unpair"
  BY <1>1, <1>2, <1>3, Types, StaysOpen DEF EndCall
<1>4. CASE p = "unpair"
  <2>1. held' = [store |-> NoToken, legacy |-> NoToken, auth |-> NoToken, socket |-> held.socket]
    BY <1>4 DEF EndCall, NoHeld
  <2>2. page' = [open |-> page.open, paired |-> FALSE, offline |-> FALSE, booting |-> FALSE]
    BY <1>4, Types, PageFields DEF EndCall
  <2>3. held' \in Held /\ page' \in Page /\ page'.open
    BY <2>1, <2>2, Types, NothingHeld DEF Held, Page
  <2>4. TypeOK'
    BY <1>1, <1>2, <2>3, Types DEF TypeOK, Held, Page, Call, Conn
  <2>5. WhenClosed'
    BY <2>3 DEF WhenClosed
  <2>6. inFlight' <=> refresh' # {}
    BY DEF IInv, Tokens, Alone
  <2> QED
    BY <1>1, <2>1, <2>3, <2>4, <2>5, <2>6, Forgotten
<1> QED
  BY <1>3, <1>4

LEMMA AnsweredKeeps ==
  ASSUME IInv, NEW p \in Proc, Answered(p)
  PROVE  IInv'
<1>1. page.open
  BY OpenPage DEF Answered, Asked
<1>2. proc[p].token \in Token
  BY Types DEF Call
<1>3. proc[p].token.device \in Device
  BY <1>2, TokenOps DEF Answered, AccessOk
<1>4. ended \subseteq ended' /\ ended' \subseteq Device
  BY <1>3, Types DEF Answered
<1>5. PICK c \in Conn : EndCall(p, c) /\ (c.reconnecting => c.ws # "none")
  BY Types, ShutTypes DEF Answered, ReconnectingHasSocket
<1> QED
  BY <1>1, <1>4, <1>5, EndKeeps DEF Answered

LEMMA UnauthorizedKeeps ==
  ASSUME IInv, NEW p \in Proc, Unauthorized(p)
  PROVE  IInv'
<1>1. page.open /\ page \in Page /\ conn \in Conn /\ ReconnectingHasSocket /\ ended \subseteq Device
  BY OpenPage, Types DEF Unauthorized, Asked
<1>2. CASE Begin(p, proc) /\ UNCHANGED <<held, page, conn>>
  <2>1. page' \in Page /\ page'.open /\ conn' \in Conn /\ ReconnectingHasSocket'
    BY <1>1, <1>2 DEF ReconnectingHasSocket
  <2> QED
    BY <1>1, <1>2, <2>1, BeginKeeps DEF Unauthorized
<1>3. CASE EndCall(p, conn) /\ UNCHANGED <<refresh, inFlight>>
  <2>1. UNCHANGED <<up, devices, lost, refresh, inFlight, worldVars>> /\ ended' = ended
    BY <1>3 DEF Unauthorized, serverVars
  <2> QED
    BY <1>1, <1>3, <2>1, EndKeeps DEF ReconnectingHasSocket
<1> QED
  BY <1>2, <1>3 DEF Unauthorized

LEMMA FailKeeps ==
  ASSUME IInv, NEW p \in Proc, CallFails(p) \/ GiveUp(p)
  PROVE  IInv'
<1>1. page.open /\ conn \in Conn /\ ReconnectingHasSocket /\ ended \subseteq Device
  BY OpenPage, Types DEF CallFails, GiveUp, Asked
<1>2. EndCall(p, conn) /\ UNCHANGED <<up, devices, lost, refresh, inFlight, worldVars>>
      /\ ended' = ended
  BY DEF CallFails, GiveUp, serverVars
<1> QED
  BY <1>1, <1>2, EndKeeps DEF ReconnectingHasSocket

LEMMA AttemptKeeps ==
  ASSUME IInv, Attempt
  PROVE  IInv'
<1>1. page.open /\ page \in Page /\ conn \in Conn /\ ReconnectingHasSocket
  BY OpenPage, Types DEF Attempt, Proc
<1>2. page' \in Page /\ page'.open /\ conn' \in Conn /\ ReconnectingHasSocket'
  BY <1>1 DEF Attempt, ReconnectingHasSocket
<1> QED
  BY <1>1, <1>2, BeginKeeps DEF Attempt, Proc

----------------------------------------------------------------------------
(* What checks the pairing                                                 *)

(* A step that may only open the WebSocket.                                *)
LEMMA OpensKeeps ==
  ASSUME IInv, page.open, page' \in Page, page'.open, proc' \in [Proc -> Call],
         NEW c \in Conn, c.reconnecting => c.ws # "none",
         NEW b \in BOOLEAN, NEW o \in BOOLEAN, Opens(c, b, o, held),
         online' \in BOOLEAN, faults' \in 0..MaxFault,
         UNCHANGED <<serverVars, lost, refresh, inFlight>>
  PROVE  IInv'
<1>1. /\ conn' \in Conn /\ ReconnectingHasSocket' /\ held' \in Held
      /\ held'.store = held.store /\ held'.legacy = held.legacy /\ held'.auth = held.auth
  BY Types, Opening
<1>2. /\ up' = up /\ devices' = devices /\ ended' = ended /\ lost' = lost
      /\ refresh' = refresh /\ inFlight' = inFlight
  BY DEF serverVars
<1> QED
  BY <1>1, <1>2, Types, StaysOpen

LEMMA RetryFalse ==
  ASSUME NEW c \in Conn, c.reconnecting => c.ws # "none"
  PROVE  /\ [c EXCEPT !.retry = FALSE] \in Conn
         /\ [c EXCEPT !.retry = FALSE].reconnecting => [c EXCEPT !.retry = FALSE].ws # "none"
BY DEF Conn

LEMMA RetryKeeps ==
  ASSUME IInv, Retry
  PROVE  IInv'
<1> DEFINE c == [conn EXCEPT !.retry = FALSE]
<1>1. c \in Conn /\ (c.reconnecting => c.ws # "none")
  BY Types, RetryFalse DEF ReconnectingHasSocket
<1>2. page.open /\ page.paired \in BOOLEAN /\ "retry" \in Proc
  <2>1. conn # NoConn
    BY DEF Retry, NoConn
  <2> QED
    BY <2>1, OpenPage, Types DEF Page, Proc
<1> HIDE DEF c
<1>3. CASE Begin("retry", proc) /\ conn' = c /\ UNCHANGED held
  <2>1. page' \in Page /\ page'.open /\ conn' \in Conn /\ ReconnectingHasSocket'
    BY <1>1, <1>2, <1>3, Types DEF Retry, ReconnectingHasSocket
  <2> QED
    BY <1>2, <1>3, <2>1, BeginKeeps DEF Retry
<1>4. CASE conn' = c /\ UNCHANGED <<held, proc, refresh, inFlight>>
  <2>1. /\ up' = up /\ devices' = devices /\ ended' = ended /\ lost' = lost /\ held' = held
        /\ page' = page /\ proc' = proc /\ refresh' = refresh /\ inFlight' = inFlight
        /\ online' = online /\ faults' = faults
    BY <1>4 DEF Retry, serverVars, worldVars
  <2>2. conn' \in Conn /\ ReconnectingHasSocket'
    BY <1>1, <1>4 DEF ReconnectingHasSocket
  <2> QED
    BY <1>2, <2>1, <2>2, Types, StaysOpen
<1>5. CASE Opens(c, page.paired, online, held) /\ UNCHANGED <<proc, refresh, inFlight>>
  <2>1. /\ page' = page /\ proc' = proc /\ online' = online /\ faults' = faults
        /\ UNCHANGED <<serverVars, lost, refresh, inFlight>>
    BY <1>5 DEF Retry, serverVars, worldVars
  <2> QED
    BY <1>1, <1>2, <1>5, <2>1, Types, OpensKeeps
<1> QED
  BY <1>3, <1>4, <1>5 DEF Retry, c

LEMMA RetryOpensKeeps ==
  ASSUME IInv, RetryOpens
  PROVE  IInv'
<1>1. page.open
  BY OpenPage DEF RetryOpens, Proc
<1>2. proc' \in [Proc -> Call]
  BY Types, NothingHeld DEF RetryOpens
<1>3. page' = page /\ online' = online /\ faults' = faults
      /\ UNCHANGED <<serverVars, lost, refresh, inFlight>>
  BY DEF RetryOpens, serverVars, worldVars
<1>4. Opens(conn, page.paired, online, held) /\ page.paired \in BOOLEAN
  BY Types DEF RetryOpens, Page
<1> QED
  BY <1>1, <1>2, <1>3, <1>4, Types, OpensKeeps DEF ReconnectingHasSocket

(* A page, field by field.                                                 *)
LEMMA PageTypes ==
  ASSUME NEW q \in Page, NEW x \in BOOLEAN
  PROVE  /\ [q EXCEPT !.paired = x] \in Page /\ [q EXCEPT !.paired = x].open = q.open
         /\ [q EXCEPT !.offline = x] \in Page /\ [q EXCEPT !.offline = x].open = q.open
         /\ [q EXCEPT !.booting = x] \in Page /\ [q EXCEPT !.booting = x].open = q.open
BY DEF Page

LEMMA BootKeeps ==
  ASSUME IInv, Boot
  PROVE  IInv'
<1>1. page.open
  BY OpenPage DEF Boot
<1>2. page' \in Page /\ page'.open = page.open /\ page.paired \in BOOLEAN
  <2>1. page \in Page
    BY Types
  <2>2. page' = [page EXCEPT !.booting = FALSE]
    BY DEF Boot
  <2> QED
    BY <2>1, <2>2, PageTypes DEF Page
<1>3. proc' = proc /\ online' = online /\ faults' = faults
      /\ UNCHANGED <<serverVars, lost, refresh, inFlight>>
  BY DEF Boot, serverVars, worldVars
<1> QED
  BY <1>1, <1>2, <1>3, Types, OpensKeeps DEF Boot, ReconnectingHasSocket

(* A step of the page, of the calls or of the connection alone.            *)
LEMMA QuietKeeps ==
  ASSUME IInv, page.open, page' \in Page, page'.open, proc' \in [Proc -> Call],
         conn' \in Conn, ReconnectingHasSocket', online' \in BOOLEAN, faults' \in 0..MaxFault,
         UNCHANGED <<serverVars, lost, held, refresh, inFlight>>
  PROVE  IInv'
BY Types, StaysOpen DEF serverVars

LEMMA OfflineKeeps ==
  ASSUME IInv, EnterOffline \/ ExitOffline
  PROVE  IInv'
<1>1. page.open
  BY OpenPage DEF EnterOffline, ExitOffline
<1>2. page' \in Page /\ page'.open = page.open
  <2>1. page \in Page
    BY Types
  <2>2. page' = [page EXCEPT !.offline = TRUE] \/ page' = [page EXCEPT !.offline = FALSE]
    BY DEF EnterOffline, ExitOffline
  <2> QED
    BY <2>1, <2>2, PageTypes
<1>3. proc' = proc /\ conn' = conn /\ online' = online
      /\ UNCHANGED <<serverVars, lost, held, refresh, inFlight>>
  BY DEF EnterOffline, ExitOffline, worldVars
<1>4. faults' \in 0..MaxFault
  BY Types DEF EnterOffline, ExitOffline, Fault, worldVars
<1> QED
  BY <1>1, <1>2, <1>3, <1>4, Types, QuietKeeps DEF ReconnectingHasSocket

LEMMA BackKeeps ==
  ASSUME IInv, Back
  PROVE  IInv'
<1>1. page.open /\ page \in Page
  BY OpenPage, Types DEF Back
<1>2. conn' = conn /\ UNCHANGED <<serverVars, lost, held, worldVars>>
  BY DEF Back
<1>3. CASE page' = [page EXCEPT !.offline = FALSE] /\ Begin("back", proc)
  <2>1. page' \in Page /\ page'.open /\ conn' \in Conn /\ ReconnectingHasSocket'
    BY <1>1, <1>2, <1>3, PageTypes, Types DEF ReconnectingHasSocket
  <2> QED
    BY <1>1, <1>2, <1>3, <2>1, BeginKeeps DEF Proc
<1>4. CASE page' = [page EXCEPT !.offline = FALSE, !.paired = FALSE]
           /\ UNCHANGED <<proc, refresh, inFlight>>
  <2> DEFINE q == [page EXCEPT !.offline = FALSE]
  <2>1. q \in Page /\ q.open = page.open
    BY <1>1, PageTypes
  <2> HIDE DEF q
  <2>2. [q EXCEPT !.paired = FALSE] \in Page /\ [q EXCEPT !.paired = FALSE].open = q.open
    BY <2>1, PageTypes
  <2>3. page' \in Page /\ page'.open
    BY <1>1, <1>4, <2>1, <2>2 DEF q
  <2>4. proc' = proc /\ online' = online /\ faults' = faults
        /\ UNCHANGED <<serverVars, lost, held, refresh, inFlight>>
    BY <1>2, <1>4 DEF worldVars
  <2> QED
    BY <1>1, <1>2, <2>3, <2>4, Types, QuietKeeps DEF ReconnectingHasSocket
<1> QED
  BY <1>3, <1>4 DEF Back

LEMMA ResendKeeps ==
  ASSUME IInv, NEW p \in Proc, Resend(p)
  PROVE  IInv'
<1>1. page.open
  BY OpenPage DEF Resend
<1>2. AccessOf(held.auth) \in Token /\ "resent" \in CallPc
  BY Types, TokenOps DEF Held, CallPc
<1>3. proc' \in [Proc -> Call]
  BY <1>2, Types, CallFields DEF Resend
<1>4. page' = page /\ conn' = conn /\ online' = online /\ faults' = faults
      /\ UNCHANGED <<serverVars, lost, held, refresh, inFlight>>
  BY DEF Resend, worldVars
<1> QED
  BY <1>1, <1>3, <1>4, Types, QuietKeeps DEF ReconnectingHasSocket

LEMMA AttemptAgainKeeps ==
  ASSUME IInv, AttemptAgain
  PROVE  IInv'
<1>1. page.open /\ "start" \in Proc
  BY OpenPage DEF AttemptAgain, Proc
<1> DEFINE q == [proc EXCEPT !["start"].pc = "ready"]
<1>2. q \in [Proc -> Call] /\ q["start"].tries = proc["start"].tries
  <2>1. q \in [Proc -> Call]
    BY <1>1, Types, CallFields DEF CallPc
  <2> QED
    BY <1>1, <2>1, Types DEF Call
<1>3. proc["start"].tries + 1 \in 0..2
  BY <1>1, Types DEF AttemptAgain, Call
<1>4. proc' = [q EXCEPT !["start"].tries = proc["start"].tries + 1]
  BY <1>1, <1>2, Types DEF AttemptAgain, Call
<1> HIDE DEF q
<1>5. proc' \in [Proc -> Call]
  BY <1>1, <1>2, <1>3, <1>4, CallFields
<1>6. page' = page /\ conn' = conn /\ online' = online /\ faults' = faults
      /\ UNCHANGED <<serverVars, lost, held, refresh, inFlight>>
  BY DEF AttemptAgain, worldVars
<1> QED
  BY <1>1, <1>5, <1>6, Types, QuietKeeps DEF ReconnectingHasSocket

LEMMA VerifiedKeeps ==
  ASSUME IInv, NEW p \in Proc, Verified(p)
  PROVE  IInv'
<1>1. page.open
  BY OpenPage DEF Verified
<1>2. proc' \in [Proc -> Call]
  BY Types, NothingHeld DEF Verified
<1> DEFINE b == page.booting \/ proc[p].pc = "ok"
           q == [page EXCEPT !.paired = (proc[p].pc = "ok")]
<1>3. q \in Page /\ q.open = page.open /\ q.booting = page.booting
  BY Types DEF Page
<1>4. [q EXCEPT !.booting = b] \in Page /\ [q EXCEPT !.booting = b].open = q.open
  <2>1. b \in BOOLEAN
    OBVIOUS
  <2> QED
    BY <1>3, <2>1, PageTypes
<1>5. page' = [q EXCEPT !.booting = b]
  BY <1>3, Zenon DEF Verified
<1>6. page' \in Page /\ page'.open
  BY <1>1, <1>3, <1>4, <1>5
<1>7. conn' = conn /\ online' = online /\ faults' = faults
      /\ UNCHANGED <<serverVars, lost, held, refresh, inFlight>>
  BY DEF Verified, worldVars
<1> QED
  BY <1>1, <1>2, <1>6, <1>7, Types, QuietKeeps DEF ReconnectingHasSocket

----------------------------------------------------------------------------
(* The world around, where it leaves the tokens alone                      *)

LEMMA ReachKeeps ==
  ASSUME IInv, Unreachable \/ Recover
  PROVE  IInv'
<1>1. /\ page' = page /\ conn' = conn /\ online' = online /\ proc' = proc /\ held' = held
      /\ refresh' = refresh /\ inFlight' = inFlight /\ ended' = ended /\ lost' = lost
      /\ devices' = devices
  BY DEF Unreachable, Recover, worldVars
<1>2. faults' \in 0..MaxFault
  <2>1. (faults' = faults + 1 /\ faults < MaxFault) \/ faults' = faults
    BY DEF Unreachable, Recover, Fault, worldVars
  <2> QED
    BY <2>1, Types
<1>3. up' \in BOOLEAN
  BY Zenon DEF Unreachable, Recover
<1>4. TypeOK' /\ WhenClosed' /\ ReconnectingHasSocket'
  BY <1>1, <1>2, <1>3 DEF IInv, TypeOK, WhenClosed, ReconnectingHasSocket
<1> QED
  BY <1>1, <1>4, TokensFrame

(* Losing the network, or a restart of the bridge, may close the socket.   *)
LEMMA CutOffKeeps ==
  ASSUME IInv, GoOffline \/ Restart
  PROVE  IInv'
<1>1. /\ page' = page /\ proc' = proc /\ held' = held
      /\ refresh' = refresh /\ inFlight' = inFlight /\ lost' = lost /\ devices' = devices
  BY DEF GoOffline, Restart, serverVars
<1>2. up' \in BOOLEAN /\ online' \in BOOLEAN /\ faults' \in 0..MaxFault
  <2>1. (faults' = faults + 1 /\ faults < MaxFault) \/ faults' = faults
    BY DEF GoOffline, Restart, Fault, worldVars
  <2>2. up' \in BOOLEAN
    <3>1. up' = TRUE \/ up' = up
      BY DEF GoOffline, Restart, serverVars
    <3> QED
      BY <3>1, Types, Zenon
  <2>3. online' \in BOOLEAN
    <3>1. online' = FALSE \/ online' = online
      BY DEF GoOffline, Restart, worldVars
    <3> QED
      BY <3>1, Types, Zenon
  <2> QED
    BY <2>1, <2>2, <2>3, Types
<1>3. ended \subseteq ended' /\ ended' \subseteq Device
  BY Types DEF GoOffline, Restart, serverVars, Device
<1>4. conn' \in Conn /\ ReconnectingHasSocket' /\ (conn' = conn \/ page.open)
  <2>1. Close(conn) \in Conn /\ (Close(conn).reconnecting => Close(conn).ws # "none")
    BY Types, ShutTypes DEF ReconnectingHasSocket
  <2>2. conn.ws = "open" => page.open
    BY OpenPage DEF NoConn
  <2> QED
    BY <2>1, <2>2, Types DEF GoOffline, Restart, ReconnectingHasSocket
<1>5. TypeOK' /\ WhenClosed'
  BY <1>1, <1>2, <1>3, <1>4, Types DEF IInv, TypeOK, WhenClosed, Held, Page, Call, Conn
<1> QED
  BY <1>1, <1>3, <1>4, <1>5, TokensFrame

LEMMA GoOnlineKeeps ==
  ASSUME IInv, GoOnline
  PROVE  IInv'
<1>1. /\ page' = page /\ proc' = proc /\ faults' = faults /\ online' = TRUE /\ up' = up
      /\ refresh' = refresh /\ inFlight' = inFlight /\ lost' = lost /\ devices' = devices
      /\ ended' = ended
  BY DEF GoOnline, serverVars
<1>2. page.paired \in BOOLEAN /\ Opens(conn, page.paired, TRUE, held)
  BY Types DEF GoOnline, Page
<1>3. /\ conn' \in Conn /\ ReconnectingHasSocket' /\ held' \in Held
      /\ held'.store = held.store /\ held'.legacy = held.legacy /\ held'.auth = held.auth
      /\ ~page.paired => conn' = conn /\ held' = held
  BY <1>2, Types, Opening DEF ReconnectingHasSocket
<1>4. TypeOK'
  BY <1>1, <1>3, Types DEF TypeOK, Held, Page, Call, Conn
<1>5. WhenClosed'
  <2>1. ~page.open => ~page.paired
    BY NothingHeld DEF IInv, WhenClosed
  <2> QED
    BY <1>1, <1>3, <2>1 DEF IInv, WhenClosed
<1> QED
  BY <1>1, <1>3, <1>4, <1>5, TokensFrame

LEMMA ForgetKeeps ==
  ASSUME IInv, NEW d \in Device, Forget(d)
  PROVE  IInv'
<1>1. /\ page' = page /\ conn' = conn /\ online' = online /\ proc' = proc /\ held' = held
      /\ refresh' = refresh /\ inFlight' = inFlight /\ lost' = lost /\ up' = up
      /\ devices' = devices
  BY DEF Forget
<1>2. ended \subseteq ended' /\ ended' \subseteq Device /\ faults' \in 0..MaxFault
  BY Types DEF Forget, Fault
<1>3. TypeOK' /\ WhenClosed' /\ ReconnectingHasSocket'
  BY <1>1, <1>2 DEF IInv, TypeOK, WhenClosed, ReconnectingHasSocket
<1> QED
  BY <1>1, <1>2, <1>3, TokensFrame

----------------------------------------------------------------------------
(* Steps that give, replace, age or forget tokens                          *)

(* What is done to every token held.                                       *)
LEMMA FourFields ==
  ASSUME NEW g, NEW a \in Token, NEW b \in Token, NEW c \in Token, NEW d \in Token,
         g = [store |-> a, legacy |-> b, auth |-> c, socket |-> d]
  PROVE  g \in Held /\ g.store = a /\ g.legacy = b /\ g.auth = c
BY DEF Held

LEMMA Ageing ==
  ASSUME NEW h \in Held
  PROVE  [f \in DOMAIN h |-> Expired(h[f])]
           = [store |-> Expired(h.store), legacy |-> Expired(h.legacy),
              auth |-> Expired(h.auth), socket |-> Expired(h.socket)]
BY DEF Held, Expired

LEMMA RotatingAll ==
  ASSUME NEW h \in Held, NEW d \in Device
  PROVE  [f \in DOMAIN h |-> Rotated(h[f], d)]
           = [store |-> Rotated(h.store, d), legacy |-> Rotated(h.legacy, d),
              auth |-> Rotated(h.auth, d), socket |-> Rotated(h.socket, d)]
<1> HIDE DEF Rotated
<1> QED
  BY DEF Held

LEMMA ExpireKeeps ==
  ASSUME IInv, Expire
  PROVE  IInv'
<1>1. /\ page' = page /\ conn' = conn /\ online' = online /\ faults' = faults /\ up' = up
      /\ refresh' = refresh /\ inFlight' = inFlight /\ lost' = lost /\ devices' = devices
      /\ ended' = ended
  BY DEF Expire, serverVars, worldVars
<1>2. /\ held' \in Held /\ held'.store = Expired(held.store)
      /\ held'.legacy = Expired(held.legacy) /\ held'.auth = Expired(held.auth)
  <2>1. \A tok \in Token : Expired(tok) \in Token
    BY TokenOps
  <2>2. held.store \in Token /\ held.legacy \in Token /\ held.auth \in Token /\ held.socket \in Token
    BY Types DEF Held
  <2>3. held' = [store |-> Expired(held.store), legacy |-> Expired(held.legacy),
                 auth |-> Expired(held.auth), socket |-> Expired(held.socket)]
    BY Types, Ageing DEF Expire
  <2> QED
    BY <2>1, <2>2, <2>3, FourFields
<1>3. \A tok \in Token : /\ Expired(tok) = NoToken <=> tok = NoToken
                         /\ Expired(tok).device = tok.device /\ Expired(tok).refresh = tok.refresh
  BY TokenOps, NothingHeld
<1>4. proc' \in [Proc -> Call] /\ \A p \in Proc : proc'[p].pc = proc[p].pc
  <2>1. \A c \in Call, tok \in Token : [c EXCEPT !.token = tok] \in Call
                                      /\ [c EXCEPT !.token = tok].pc = c.pc
    BY DEF Call
  <2>2. \A p \in Proc : proc[p] \in Call /\ Expired(proc[p].token) \in Token
    BY Types, TokenOps DEF Call
  <2>3. proc' = [p \in Proc |-> [proc[p] EXCEPT !.token = Expired(proc[p].token)]]
    BY DEF Expire
  <2>4. \A p \in Proc : [proc[p] EXCEPT !.token = Expired(proc[p].token)] \in Call
          /\ [proc[p] EXCEPT !.token = Expired(proc[p].token)].pc = proc[p].pc
    BY <2>1, <2>2
  <2> QED
    BY <2>3, <2>4
<1>5. TypeOK'
  BY <1>1, <1>2, <1>4, Types DEF TypeOK, Held, Page, Call, Conn
<1>6. held.store \in Token /\ held.legacy \in Token /\ held.auth \in Token
  BY Types DEF Held
<1>7. WhenClosed'
  BY <1>1, <1>2, <1>3, <1>4, <1>6 DEF IInv, WhenClosed
<1>8. Tokens'
  <2>1. Alone' /\ RefreshesTrue'
    BY <1>1 DEF IInv, Tokens, Alone, RefreshesTrue, Fine
  <2>2. LegacyAlone'
    BY <1>1, <1>2, <1>3, <1>6 DEF IInv, Tokens, LegacyAlone, Fine
  <2>3. AuthFine' /\ StoreFine' /\ StoreHas'
    BY <1>1, <1>2, <1>3, <1>6 DEF IInv, Tokens, AuthFine, StoreFine, StoreHas, Fine, Underway
  <2> QED
    BY <2>1, <2>2, <2>3 DEF Tokens
<1> QED
  BY <1>1, <1>5, <1>7, <1>8 DEF IInv, ReconnectingHasSocket

LEMMA MountKeeps ==
  ASSUME IInv, Mount
  PROVE  IInv'
<1> DEFINE auth == IF held.store # NoToken THEN held.store ELSE held.legacy
           legacy == IF held.store = NoToken THEN NoToken ELSE held.legacy
<1>1. /\ ~page.open /\ page' = [page EXCEPT !.open = TRUE]
      /\ proc' = proc \/ proc' = [proc EXCEPT !["start"].pc = "ready"]
      /\ up' = up /\ devices' = devices /\ ended' = ended /\ lost' = lost
      /\ refresh' = refresh /\ inFlight' = inFlight /\ conn' = conn
      /\ online' = online /\ faults' = faults
  BY DEF Mount, serverVars, worldVars
<1>2. /\ held.store \in Token /\ held.legacy \in Token /\ held.socket \in Token
      /\ auth \in Token /\ legacy \in Token
  BY Types, NothingHeld DEF Held
<1>3. held' = [store |-> auth, legacy |-> legacy, auth |-> auth, socket |-> held.socket]
  <2>1. ASSUME NEW x, NEW y
        PROVE  [held EXCEPT !.auth = x, !.store = x, !.legacy = y]
                 = [store |-> x, legacy |-> y, auth |-> x, socket |-> held.socket]
    <3> DEFINE a == [held EXCEPT !.auth = x]
               b == [a EXCEPT !.store = x]
    <3>1. a = [store |-> held.store, legacy |-> held.legacy, auth |-> x, socket |-> held.socket]
      BY Types DEF Held
    <3> HIDE DEF a
    <3>2. b = [store |-> x, legacy |-> held.legacy, auth |-> x, socket |-> held.socket]
      BY <3>1
    <3> HIDE DEF b
    <3>3. [b EXCEPT !.legacy = y] = [store |-> x, legacy |-> y, auth |-> x, socket |-> held.socket]
      BY <3>2
    <3> QED
      BY <3>3 DEF a, b
  <2>2. held' = [held EXCEPT !.auth = auth, !.store = auth, !.legacy = legacy]
    BY DEF Mount
  <2> QED
    BY <2>1, <2>2
<1>4. Fine(auth) /\ legacy = NoToken /\ refresh = {}
  <2>1. refresh = {}
    BY <1>1 DEF IInv, WhenClosed
  <2>2. Fine(held.store)
    BY <2>1 DEF IInv, Tokens, StoreFine, Underway
  <2> QED
    BY <2>1, <2>2, NothingHeld DEF IInv, Tokens, LegacyAlone
<1> HIDE DEF auth, legacy
<1>5. held' \in Held /\ held'.store = auth /\ held'.legacy = legacy /\ held'.auth = auth
  BY <1>2, <1>3, FourFields
<1>6. page' \in Page /\ page'.open
  BY <1>1, Types DEF Page
<1>7. proc' \in [Proc -> Call]
  <2>1. proc \in [Proc -> Call] /\ "start" \in Proc /\ "ready" \in CallPc
    BY Types DEF CallPc, Proc
  <2>2. [proc EXCEPT !["start"].pc = "ready"] \in [Proc -> Call]
    BY <2>1, CallFields
  <2> QED
    BY <1>1, <2>1, <2>2
<1>8. TypeOK' /\ ReconnectingHasSocket' /\ WhenClosed'
  BY <1>1, <1>5, <1>6, <1>7, Types DEF TypeOK, Held, Page, Call, Conn, WhenClosed, ReconnectingHasSocket
<1>9. Tokens'
  BY <1>1, <1>4, <1>5 DEF IInv, Tokens, Alone, LegacyAlone, RefreshesTrue, AuthFine, StoreFine,
     StoreHas, Fine, Underway
<1> QED
  BY <1>8, <1>9 DEF IInv

LEMMA ClosePageKeeps ==
  ASSUME IInv, ClosePage
  PROVE  IInv'
<1>1. /\ page.open /\ page' = Closed /\ conn' = NoConn /\ refresh' = {} /\ inFlight' = FALSE
      /\ held' = [held EXCEPT !.auth = NoToken, !.socket = NoToken]
      /\ proc' = [p \in Proc |-> Idle]
      /\ lost' = lost \cup {r.token.device : r \in {x \in refresh : x.pc \in {"answer", "storing"}}}
      /\ up' = up /\ devices' = devices /\ ended' = ended /\ online' = online
  BY DEF ClosePage, serverVars
<1>2. faults' \in 0..MaxFault
  BY Types DEF ClosePage, Fault
<1>3. held' \in Held /\ held'.store = held.store /\ held'.legacy = held.legacy
      /\ held'.auth = NoToken
  BY <1>1, Types, NothingHeld DEF Held
<1>4. lost' \subseteq Device
  <2>1. \A r \in refresh : r.token.device \in Device
    BY Types, TokenOps DEF IInv, Tokens, RefreshesTrue
  <2> QED
    BY <1>1, <2>1, Types
<1>5. TypeOK'
  BY <1>1, <1>2, <1>3, <1>4, Types, NothingHeld DEF TypeOK, Held, Page, Call, Conn
<1>6. WhenClosed' /\ ReconnectingHasSocket'
  BY <1>1, <1>3 DEF WhenClosed, ReconnectingHasSocket, Idle, NoConn
<1>7. Fine(held.store)'
  BY <1>1, <1>3 DEF IInv, Tokens, StoreFine, Fine, Underway
<1>8. Tokens'
  BY <1>1, <1>3, <1>7, NothingHeld DEF IInv, Tokens, Alone, LegacyAlone, RefreshesTrue, AuthFine,
     StoreFine, StoreHas, Fine
<1> QED
  BY <1>5, <1>6, <1>8 DEF IInv

LEMMA PairAcceptedKeeps ==
  ASSUME IInv, NEW isStored \in BOOLEAN, PairAccepted(isStored)
  PROVE  IInv'
<1> DEFINE d == devices + 1
<1>1. d \in Device /\ d \in 0..MaxDevice
  BY Types DEF PairAccepted, Device
<1> HIDE DEF d
<1>2. /\ devices' = d /\ up' = up /\ ended' = ended /\ refresh' = refresh
      /\ inFlight' = inFlight /\ conn' = conn /\ online' = online
      /\ proc' = [proc EXCEPT !["pair"] = Idle]
      /\ lost' = (IF isStored THEN lost ELSE lost \cup {d})
  BY DEF PairAccepted, d
<1>3. page.open
  <2>1. proc["pair"].pc # "idle"
    BY DEF PairAccepted, Asked
  <2> QED
    BY <2>1, OpenPage DEF Proc, Request
<1>4. page' \in Page /\ page'.open
  <2>1. CASE isStored
    <3> DEFINE q == [page EXCEPT !.paired = TRUE]
    <3>1. q \in Page /\ q.open = page.open
      BY Types, PageTypes
    <3> HIDE DEF q
    <3>2. [q EXCEPT !.booting = TRUE] \in Page /\ [q EXCEPT !.booting = TRUE].open = q.open
      BY <3>1, PageTypes
    <3> QED
      BY <1>3, <2>1, <3>1, <3>2 DEF PairAccepted, q
  <2>2. CASE ~isStored
    BY <1>3, <2>2, Types DEF PairAccepted
  <2> QED
    BY <2>1, <2>2
<1>5. faults' \in 0..MaxFault
  BY Types DEF PairAccepted, Fault
<1> DEFINE new == NewToken(d)
<1>6. new \in Token /\ new # NoToken /\ new.device = d /\ new.refresh = "good"
      /\ Kept(new) \in Token /\ Kept(new) # NoToken /\ Kept(new).device = d
      /\ Kept(new).refresh = "good"
  BY <1>1, NewTokens, TokenOps
<1>7. held' = [held EXCEPT !.auth = new, !.store = IF isStored THEN Kept(new) ELSE held.store]
  BY Types DEF PairAccepted, d, Held
<1> HIDE DEF new
<1>8. /\ held' \in Held /\ held'.legacy = held.legacy /\ held'.auth = new
      /\ held'.store = IF isStored THEN Kept(new) ELSE held.store
  BY <1>6, <1>7, Types DEF Held
<1>9. proc' \in [Proc -> Call]
  BY <1>2, Types, NothingHeld
<1>10. lost \subseteq lost' /\ lost' \subseteq Device
  BY <1>1, <1>2, Types
<1>11. TypeOK' /\ WhenClosed' /\ ReconnectingHasSocket'
  BY <1>1, <1>2, <1>4, <1>5, <1>8, <1>9, <1>10, Types
     DEF TypeOK, Held, Page, Call, Conn, WhenClosed, ReconnectingHasSocket
<1>12. Alone' /\ RefreshesTrue' /\ LegacyAlone'
  BY <1>2, <1>3, <1>8, <1>10 DEF IInv, Tokens, Alone, RefreshesTrue, LegacyAlone, Fine
<1>13. AuthFine'
  BY <1>6, <1>8 DEF AuthFine, Fine
<1>14. StoreFine'
  BY <1>2, <1>6, <1>8, <1>10 DEF IInv, Tokens, StoreFine, Fine, Underway
<1>15. StoreHas'
  BY <1>2, <1>6, <1>8 DEF StoreHas
<1> QED
  BY <1>11, <1>12, <1>13, <1>14, <1>15 DEF IInv, Tokens

----------------------------------------------------------------------------
(* The steps of a refresh                                                  *)

(* There is one refresh at most, of an open page and with tokens.          *)
LEMMA OneRefresh ==
  ASSUME IInv, NEW r \in refresh
  PROVE  /\ refresh = {r} /\ inFlight /\ page.open /\ held.legacy = NoToken
         /\ r.token \in Token /\ r.token # NoToken /\ r.token.device \in Device
<1>1. refresh = {r} /\ inFlight
  BY DEF IInv, Tokens, Alone
<1>2. page.open
  BY OpenPage
<1>3. held.legacy = NoToken
  BY <1>2 DEF IInv, Tokens, LegacyAlone
<1>4. r.token \in Token /\ r.token # NoToken
  BY Types DEF IInv, Tokens, RefreshesTrue
<1> QED
  BY <1>1, <1>2, <1>3, <1>4, TokenOps

(* It goes on.                                                             *)
LEMMA Going ==
  ASSUME IInv, NEW r \in refresh, NEW pc, NEW tok \in Token, Onto(r, pc, tok)
  PROVE  refresh' = {[pc |-> pc, token |-> tok]}
BY OneRefresh DEF Onto

(* It is over.                                                             *)
LEMMA Settling ==
  ASSUME IInv, NEW r \in refresh, NEW result \in {"ok", "failed"}, Settle(r, result)
  PROVE  refresh' = {} /\ inFlight' = FALSE /\ proc' \in [Proc -> Call]
<1>1. refresh' = {} /\ inFlight' = FALSE
  BY OneRefresh DEF Settle
<1>2. \A c \in Call : [c EXCEPT !.pc = result] \in Call
  BY DEF Call
<1>3. proc' \in [Proc -> Call]
  BY <1>2, Types DEF Settle
<1> QED
  BY <1>1, <1>3

(* A refresh is over and its answer, if there was one, is not kept.        *)
LEMMA LostKeeps ==
  ASSUME IInv, NEW r \in refresh, NEW result \in {"ok", "failed"}, Settle(r, result),
         r.pc \in {"answer", "storing"} => r.token.device \in lost',
         lost \subseteq lost', lost' \subseteq Device, faults' \in 0..MaxFault,
         UNCHANGED <<serverVars, held, page, conn, online>>
  PROVE  IInv'
<1>1. refresh = {r} /\ refresh' = {} /\ inFlight' = FALSE /\ proc' \in [Proc -> Call]
  BY OneRefresh, Settling
<1>2. up' = up /\ devices' = devices /\ ended' = ended /\ held' = held /\ page' = page
      /\ conn' = conn /\ online' = online
  BY DEF serverVars
<1>3. page.open
  BY OneRefresh
<1>4. TypeOK' /\ WhenClosed' /\ ReconnectingHasSocket'
  BY <1>1, <1>2, <1>3, Types DEF TypeOK, Held, Page, Call, Conn, WhenClosed, ReconnectingHasSocket
<1>5. Alone' /\ RefreshesTrue' /\ LegacyAlone'
  BY <1>1, <1>2 DEF IInv, Tokens, Alone, RefreshesTrue, LegacyAlone, Fine
<1>6. AuthFine' /\ StoreFine' /\ StoreHas'
  BY <1>1, <1>2 DEF IInv, Tokens, AuthFine, StoreFine, StoreHas, Fine, Underway
<1> QED
  BY <1>4, <1>5, <1>6 DEF IInv, Tokens

LEMMA UnavailableKeeps ==
  ASSUME IInv, NEW r \in refresh, Unavailable(r)
  PROVE  IInv'
<1>1. /\ r.pc \in {"answer", "storing"} => r.token.device \in lost'
      /\ lost \subseteq lost' /\ lost' \subseteq Device
  BY OneRefresh, Types DEF Unavailable
<1>2. faults' \in 0..MaxFault /\ UNCHANGED <<serverVars, held, page, conn, online>>
  BY Types DEF Unavailable, worldVars
<1> QED
  BY <1>1, <1>2, LostKeeps DEF Unavailable

LEMMA StoreFailsKeeps ==
  ASSUME IInv, NEW r \in refresh, StoreFails(r)
  PROVE  IInv'
<1>1. /\ r.token.device \in lost'
      /\ lost \subseteq lost' /\ lost' \subseteq Device
  BY OneRefresh, Types DEF StoreFails
<1>2. faults' \in 0..MaxFault /\ UNCHANGED <<serverVars, held, page, conn, online>>
  BY Types DEF StoreFails, Fault
<1> QED
  BY <1>1, <1>2, LostKeeps DEF StoreFails

(* The types and the connection, when a refresh goes on or is over.        *)
LEMMA RefreshFrame ==
  ASSUME IInv, page' \in Page, page'.open, proc' \in [Proc -> Call], held' \in Held,
         conn' \in Conn, ReconnectingHasSocket', inFlight' \in BOOLEAN,
         refresh' \subseteq [pc : {"sent", "answer", "refused", "storing"}, token : Token],
         UNCHANGED <<serverVars, lost, worldVars>>
  PROVE  TypeOK' /\ WhenClosed'
BY Types DEF TypeOK, Held, Page, Call, Conn, WhenClosed, serverVars, worldVars

LEMMA RefusedKeeps ==
  ASSUME IInv, NEW r \in refresh, Refused(r)
  PROVE  IInv'
<1>1. refresh' = {} /\ inFlight' = FALSE /\ proc' \in [Proc -> Call]
  BY Settling DEF Refused
<1>2. page' \in Page /\ page'.open
  <2> DEFINE q == [page EXCEPT !.paired = FALSE]
  <2>1. q \in Page /\ q.open
    BY OneRefresh, Types, PageTypes
  <2> HIDE DEF q
  <2>2. [q EXCEPT !.booting = FALSE] \in Page /\ [q EXCEPT !.booting = FALSE].open
    BY <2>1, PageTypes
  <2> QED
    BY <2>2 DEF Refused, q
<1>3. held' = [store |-> NoToken, legacy |-> NoToken, auth |-> NoToken, socket |-> held.socket]
  BY DEF Refused, NoHeld
<1>4. held' \in Held /\ held'.store = NoToken /\ held'.legacy = NoToken /\ held'.auth = NoToken
  BY <1>3, Types, NothingHeld DEF Held
<1>5. conn' \in Conn /\ ReconnectingHasSocket'
  BY Types, ShutTypes DEF Refused, ReconnectingHasSocket
<1>6. UNCHANGED <<serverVars, lost, worldVars>>
  BY DEF Refused
<1>7. TypeOK' /\ WhenClosed'
  BY <1>1, <1>2, <1>4, <1>5, <1>6, RefreshFrame
<1>8. ended' = ended /\ lost' = lost
  BY <1>6 DEF serverVars
<1> QED
  BY <1>1, <1>2, <1>4, <1>5, <1>7, <1>8, Forgotten

LEMMA GotAnswerKeeps ==
  ASSUME IInv, NEW r \in refresh, GotAnswer(r)
  PROVE  IInv'
<1> DEFINE s == [pc |-> "storing", token |-> Kept(r.token)]
<1>1. r.token.refresh = "good" /\ r.pc = "answer"
  BY DEF GotAnswer, IInv, Tokens, RefreshesTrue
<1>2. /\ Kept(r.token) \in Token /\ Kept(r.token).device = r.token.device
      /\ Kept(r.token) # NoToken /\ Kept(r.token).refresh = "good"
  BY <1>1, OneRefresh, TokenOps
<1>3. refresh' = {s}
  BY <1>2, Going DEF GotAnswer
<1>4. /\ page' = page /\ proc' = proc /\ inFlight' = inFlight /\ conn' = conn /\ inFlight
      /\ ended' = ended /\ lost' = lost
      /\ UNCHANGED <<serverVars, lost, worldVars>>
  BY OneRefresh DEF GotAnswer, serverVars
<1>5. held' \in Held /\ held'.store = held.store /\ held'.legacy = NoToken /\ held'.auth = r.token
  BY OneRefresh, Types DEF GotAnswer, Held
<1>6. TypeOK' /\ WhenClosed'
  BY <1>2, <1>3, <1>4, <1>5, OneRefresh, Types, RefreshFrame DEF ReconnectingHasSocket
<1>7. s.pc = "storing" /\ s.token # NoToken /\ s.token.refresh = "good"
      /\ s.token.device = r.token.device
  BY <1>2
<1>8. refresh = {r}
  BY OneRefresh
<1>9. s \in refresh' /\ \A x \in refresh' : x = s
  BY <1>3
<1> HIDE DEF s
<1>10. Alone'
  BY <1>4, <1>9, Zenon DEF Alone
<1>11. RefreshesTrue' /\ LegacyAlone' /\ AuthFine'
  BY <1>1, <1>5, <1>7, <1>9 DEF RefreshesTrue, LegacyAlone, AuthFine, Fine
<1>12. StoreFine'
  BY <1>4, <1>5, <1>7, <1>8, <1>9 DEF IInv, Tokens, StoreFine, Fine, Underway
<1>13. StoreHas'
  BY <1>5, <1>7, <1>9 DEF StoreHas, Underway
<1>14. ReconnectingHasSocket'
  BY <1>4 DEF IInv, ReconnectingHasSocket
<1> QED
  BY <1>6, <1>10, <1>11, <1>12, <1>13, <1>14 DEF IInv, Tokens

(* The bridge takes the refresh token, and every token of the device is    *)
(* old from then on: the answer is what keeps AuthFine and StoreFine.      *)
LEMMA ServerRefreshKeeps ==
  ASSUME IInv, NEW r \in refresh, ServerRefresh(r)
  PROVE  IInv'
<1> DEFINE d == r.token.device
<1>1. d \in Device /\ r.token \in Token /\ r.token # NoToken /\ refresh = {r} /\ inFlight
      /\ page.open /\ held.legacy = NoToken
  BY OneRefresh
<1>2. /\ page' = page /\ proc' = proc /\ inFlight' = inFlight /\ conn' = conn
      /\ ended' = ended /\ lost' = lost
      /\ UNCHANGED <<serverVars, lost, worldVars>>
  BY DEF ServerRefresh, serverVars
<1>3. r.pc = "sent" /\ Fine(r.token)
  BY DEF ServerRefresh, IInv, Tokens, RefreshesTrue
<1>4. ReconnectingHasSocket'
  BY <1>2 DEF IInv, ReconnectingHasSocket
<1>5. Fine(held.auth) /\ Fine(held.store)
  BY <1>1, <1>3 DEF IInv, Tokens, AuthFine, StoreFine, Underway
<1>6. held.auth # NoToken /\ held.auth.device \notin lost => held.store # NoToken
  BY <1>1, <1>3 DEF IInv, Tokens, StoreHas, Underway
<1>7. held.store \in Token /\ held.auth \in Token /\ held.socket \in Token /\ NoToken \in Token
  BY Types, NothingHeld DEF Held
<1>8. CASE RefreshOk(r.token)
  <2> DEFINE new == NewToken(d)
             s == [pc |-> "answer", token |-> new]
  <2>1. new \in Token /\ new.device = d /\ new.refresh = "good" /\ new # NoToken
    BY <1>1, NewTokens
  <2>2. refresh' = {s}
    BY <1>8, <2>1, Going DEF ServerRefresh
  <2>3. /\ held' \in Held /\ held'.store = Rotated(held.store, d)
        /\ held'.legacy = Rotated(held.legacy, d) /\ held'.auth = Rotated(held.auth, d)
    <3>1. \A tok \in Token : Rotated(tok, d) \in Token
      BY <1>1, Rotating
    <3>2. held' = [store |-> Rotated(held.store, d), legacy |-> Rotated(held.legacy, d),
                   auth |-> Rotated(held.auth, d), socket |-> Rotated(held.socket, d)]
      BY <1>1, <1>8, Types, RotatingAll DEF ServerRefresh
    <3> QED
      BY <1>1, <1>7, <3>1, <3>2, FourFields
  <2>4. TypeOK' /\ WhenClosed'
    BY <1>1, <1>2, <1>4, <2>1, <2>2, <2>3, Types, RefreshFrame
  <2>5. held'.legacy = NoToken
    BY <1>1, <1>7, <2>3, Rotating, SessionAssumption DEF NoToken, Device
  <2>6. \A tok \in Token : /\ Rotated(tok, d).device = tok.device
                           /\ tok.device # d => Rotated(tok, d) = tok
                           /\ Rotated(tok, d) = NoToken <=> tok = NoToken
    BY <1>1, Rotating, TokenOps
  <2>7. s \in refresh' /\ (\A x \in refresh' : x = s) /\ s.pc = "answer" /\ s.token.device = d
        /\ s.token # NoToken /\ s.token.refresh = "good"
    BY <2>1, <2>2
  <2> HIDE DEF s, new
  <2>8. Alone'
    BY <1>1, <1>2, <2>7, Zenon DEF Alone
  <2>9. RefreshesTrue' /\ LegacyAlone'
    BY <2>5, <2>7 DEF RefreshesTrue, LegacyAlone
  <2>10. AuthFine'
    BY <1>2, <1>5, <1>7, <2>3, <2>6, <2>7 DEF AuthFine, Fine, Underway
  <2>11. StoreFine'
    BY <1>2, <1>5, <1>7, <2>3, <2>6, <2>7 DEF StoreFine, Fine, Underway
  <2>12. StoreHas'
    BY <1>2, <1>6, <1>7, <2>3, <2>6 DEF StoreHas
  <2> QED
    BY <1>4, <2>4, <2>8, <2>9, <2>10, <2>11, <2>12 DEF IInv, Tokens
<1>9. CASE ~RefreshOk(r.token)
  <2> DEFINE s == [pc |-> "refused", token |-> r.token]
  <2>1. refresh' = {s} /\ held' = held
    BY <1>1, <1>9, Going DEF ServerRefresh
  <2>2. d \in ended \cup lost
    BY <1>1, <1>3, <1>9, SessionAssumption DEF Fine, RefreshOk, Device
  <2>3. TypeOK' /\ WhenClosed'
    BY <1>1, <1>2, <1>4, <2>1, Types, RefreshFrame
  <2>4. s \in refresh' /\ (\A x \in refresh' : x = s) /\ s.pc = "refused" /\ s.token.device = d
        /\ s.token # NoToken
    BY <1>1, <2>1
  <2> HIDE DEF s
  <2>5. Alone'
    BY <1>1, <1>2, <2>4, Zenon DEF Alone
  <2>6. RefreshesTrue' /\ LegacyAlone'
    BY <1>1, <1>2, <2>1, <2>2, <2>4 DEF RefreshesTrue, LegacyAlone
  <2>7. AuthFine' /\ StoreFine' /\ StoreHas'
    BY <1>2, <1>5, <1>6, <2>1 DEF AuthFine, StoreFine, StoreHas, Fine
  <2> QED
    BY <1>4, <2>3, <2>5, <2>6, <2>7 DEF IInv, Tokens
<1> QED
  BY <1>8, <1>9

LEMMA StoredKeeps ==
  ASSUME IInv, NEW r \in refresh, Stored(r)
  PROVE  IInv'
<1> DEFINE h == [held EXCEPT !.store = Kept(r.token)]
<1>1. r.pc = "storing" /\ AfterStore(r, h)
  BY DEF Stored
<1>2. refresh = {r} /\ page.open /\ held.legacy = NoToken /\ r.token \in Token
      /\ r.token # NoToken /\ r.token.refresh = "good"
  BY <1>1, OneRefresh DEF IInv, Tokens, RefreshesTrue
<1>3. /\ Kept(r.token) \in Token /\ Kept(r.token) # NoToken /\ Kept(r.token).refresh = "good"
  BY <1>2, TokenOps
<1>4. h \in Held /\ h.store = Kept(r.token) /\ h.legacy = NoToken /\ h.auth = held.auth
  BY <1>2, <1>3, Types DEF Held
<1> HIDE DEF h
<1>5. refresh' = {} /\ inFlight' = FALSE /\ proc' \in [Proc -> Call]
  BY <1>1, Settling DEF AfterStore
<1>6. page' = page /\ ended' = ended /\ lost' = lost /\ UNCHANGED <<serverVars, lost, worldVars>>
  BY <1>1 DEF AfterStore, serverVars
<1>7. /\ held' \in Held /\ held'.store = h.store /\ held'.legacy = NoToken
      /\ held'.auth = held.auth
  <2>1. AccessOf(h.auth) \in Token
    BY <1>4, TokenOps DEF Held
  <2> QED
    BY <1>1, <1>4, <2>1 DEF AfterStore, Held
<1>8. conn' \in Conn /\ ReconnectingHasSocket'
  <2>1. CASE MayOpen(conn, page.paired, online)
    <3> DEFINE c == [conn EXCEPT !.manual = FALSE]
    <3>1. c \in Conn /\ c.reconnecting = conn.reconnecting
      BY Types DEF Conn
    <3> HIDE DEF c
    <3>2. OpenWs(c, h.auth) \in Conn
          /\ (OpenWs(c, h.auth).reconnecting => OpenWs(c, h.auth).ws # "none")
      BY <2>1, <3>1 DEF MayOpen, OpenWs, Conn
    <3> QED
      BY <1>1, <2>1, <3>2 DEF AfterStore, ReconnectingHasSocket, c
  <2>2. CASE ~MayOpen(conn, page.paired, online)
    BY <1>1, <2>2, Types DEF AfterStore, ReconnectingHasSocket
  <2> QED
    BY <2>1, <2>2
<1>9. TypeOK' /\ WhenClosed'
  BY <1>2, <1>5, <1>6, <1>7, <1>8, Types, RefreshFrame
<1>10. Alone' /\ RefreshesTrue' /\ LegacyAlone'
  BY <1>5, <1>7 DEF Alone, RefreshesTrue, LegacyAlone
<1>11. Fine(held.auth)
  BY <1>1, <1>2 DEF IInv, Tokens, AuthFine, Underway
<1>12. AuthFine' /\ StoreFine' /\ StoreHas'
  BY <1>3, <1>4, <1>6, <1>7, <1>11 DEF AuthFine, StoreFine, StoreHas, Fine
<1> QED
  BY <1>8, <1>9, <1>10, <1>12 DEF IInv, Tokens

----------------------------------------------------------------------------
(* The theorems                                                            *)

LEMMA InitInv == Init => IInv
<1> SUFFICES ASSUME Init PROVE IInv
  OBVIOUS
<1>1. /\ up = TRUE /\ online = TRUE /\ faults = 0 /\ devices \in 0..1 /\ ended = {} /\ lost = {}
      /\ page = Closed /\ proc = [p \in Proc |-> Idle] /\ refresh = {} /\ inFlight = FALSE
      /\ conn = NoConn
  BY DEF Init
<1>2. devices \in 0..MaxDevice /\ faults \in 0..MaxFault /\ 1 \in Device
  BY <1>1, SessionAssumption DEF Device
<1> DEFINE kept == Kept(NewToken(1))
<1>3. kept \in Token /\ kept # NoToken /\ kept.refresh = "good"
  BY <1>2, NewTokens, TokenOps
<1>4. \/ held = NoHeld
      \/ held = [NoHeld EXCEPT !.store = kept]
      \/ held = [NoHeld EXCEPT !.legacy = kept]
  BY DEF Init
<1> HIDE DEF kept
<1>5. /\ held \in Held /\ held.auth = NoToken
      /\ held.store \in {NoToken, kept} /\ held.legacy \in {NoToken, kept}
      /\ held.legacy # NoToken => held.store = NoToken
  BY <1>3, <1>4, NothingHeld DEF NoHeld, Held
<1>6. TypeOK
  BY <1>1, <1>2, <1>5, NothingHeld DEF TypeOK, Held, Page, Call, Conn
<1>7. WhenClosed /\ ReconnectingHasSocket
  BY <1>1, <1>5 DEF WhenClosed, ReconnectingHasSocket, Idle, NoConn
<1>8. Tokens
  BY <1>1, <1>3, <1>5, NothingHeld DEF Tokens, Alone, LegacyAlone, RefreshesTrue, AuthFine,
     StoreFine, StoreHas, Fine
<1> QED
  BY <1>6, <1>7, <1>8 DEF IInv

LEMMA NextInv == IInv /\ [Next]_vars => IInv'
<1> SUFFICES ASSUME IInv, [Next]_vars PROVE IInv'
  OBVIOUS
<1>1. CASE Refreshing
  BY <1>1, ServerRefreshKeeps, UnavailableKeeps, GotAnswerKeeps, RefusedKeeps DEF Refreshing
<1>2. CASE Storing
  BY <1>2, StoredKeeps DEF Storing
<1>3. CASE \E p \in Proc : Answering(p)
  BY <1>3, AnsweredKeeps, UnauthorizedKeeps, FailKeeps, PairAcceptedKeeps DEF Answering
<1>4. CASE \E p \in Proc : Continuing(p)
  BY <1>4, ResendKeeps, FailKeeps, VerifiedKeeps, RetryOpensKeeps, AttemptAgainKeeps DEF Continuing
<1>5. CASE Poll \/ Attempt \/ Synced \/ Connecting
  BY <1>5, PollKeeps, AttemptKeeps, SocketSteps, BootKeeps, RetryKeeps DEF Connecting
<1>6. CASE User
  BY <1>6, MountKeeps, PollKeeps, UnpairKeeps, OfflineKeeps, BackKeeps, ClosePageKeeps DEF User
<1>7. CASE World
  BY <1>7, SocketSteps, StoreFailsKeeps, CutOffKeeps, GoOnlineKeeps, ReachKeeps, ExpireKeeps,
     ForgetKeeps DEF World
<1>8. CASE UNCHANGED vars
  <2>1. /\ up' = up /\ devices' = devices /\ ended' = ended /\ lost' = lost /\ held' = held
        /\ page' = page /\ proc' = proc /\ refresh' = refresh /\ inFlight' = inFlight
        /\ conn' = conn /\ online' = online /\ faults' = faults
    BY <1>8 DEF vars, serverVars, worldVars
  <2>2. TypeOK' /\ WhenClosed' /\ ReconnectingHasSocket'
    BY <2>1 DEF IInv, TypeOK, WhenClosed, ReconnectingHasSocket
  <2> QED
    BY <2>1, <2>2, TokensFrame
<1> QED
  BY <1>1, <1>2, <1>3, <1>4, <1>5, <1>6, <1>7, <1>8 DEF Next

LEMMA Invariance == Spec => []IInv
BY InitInv, NextInv, PTL DEF Spec

(* Every variable of api.ts and App.vue keeps its type, whatever requests, *)
(* retries and faults meet.                                                *)
THEOREM SessionTypes == Spec => []TypeOK
<1>1. IInv => TypeOK
  BY DEF IInv
<1> QED
  BY <1>1, Invariance, PTL

(* The one refresh that api.ts lets run at a time is refused only if the   *)
(* bridge has ended the pairing, or if a token it gave was lost.           *)
THEOREM RefreshesKeepPairing == Spec => []KeepsPairing
<1>1. IInv => KeepsPairing
  BY DEF IInv, Tokens, RefreshesTrue, KeepsPairing
<1> QED
  BY <1>1, Invariance, PTL

(* With no refresh under way, IndexedDB holds a token the bridge takes: a  *)
(* page that is closed then finds its pairing again.                       *)
THEOREM StoredTokenIsGood == Spec => []ReloadKeepsPairing
<1>1. IInv => ReloadKeepsPairing
  <2> SUFFICES ASSUME IInv, page.open, ~inFlight, held.auth # NoToken,
                      held.auth.device \notin lost
               PROVE  /\ held.store # NoToken
                      /\ held.store.device \notin ended \cup lost => RefreshOk(held.store)
    BY DEF ReloadKeepsPairing
  <2>1. refresh = {}
    BY DEF IInv, Tokens, Alone
  <2>2. held.store # NoToken /\ Fine(held.store)
    BY <2>1 DEF IInv, Tokens, StoreHas, StoreFine, Underway
  <2>3. held.store.device # 0
    BY <2>2, Types, TokenOps, SessionAssumption DEF Held, Device
  <2> QED
    BY <2>2, <2>3 DEF Fine, RefreshOk
<1> QED
  BY <1>1, Invariance, PTL

(* wsReconnecting never stays set with no socket left to reset it: openWs  *)
(* is not kept out for good.                                               *)
THEOREM ReconnectingEnds == Spec => []ReconnectingHasSocket
<1>1. IInv => ReconnectingHasSocket
  BY DEF IInv
<1> QED
  BY <1>1, Invariance, PTL
=============================================================================
