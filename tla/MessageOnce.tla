---------------------------- MODULE MessageOnce ----------------------------
(***************************************************************************)
(* What POST /api/sessions/:id/messages promises about a client_id,        *)
(* without tables, queues, pipes or processes.  A message key is open from *)
(* the moment a turn may be started for it until it is refused; while it   *)
(* is open, Codex starts at most one turn for it.  A caller is told the    *)
(* turn, or that there is none and will be none, or nothing certain.       *)
(***************************************************************************)
CONSTANTS
  Client,    \* message keys
  Call,      \* requests that post them
  Turn,      \* turns that Codex may start
  ClientOf,  \* the message key of a request
  TurnOf     \* the message key of a turn

VARIABLES
  open,      \* keys for which a turn may be started or has been
  accepted,  \* turns Codex has started
  answer     \* what each request was told

onceVars == <<open, accepted, answer>>

Told == [told : {"turn"}, turn : Turn]
Silent == [told |-> "nothing"]
NotStarted == [told |-> "refused"]
Unsure == [told |-> "unsure"]

TurnsOf(c) == {u \in accepted : TurnOf[u] = c}

Init ==
  /\ open = {}
  /\ accepted = {}
  /\ answer = [k \in Call |-> Silent]

Open(c) ==
  /\ open' = open \cup {c}
  /\ UNCHANGED <<accepted, answer>>

Start(u) ==
  /\ TurnOf[u] \in open
  /\ TurnsOf(TurnOf[u]) = {}
  /\ accepted' = accepted \cup {u}
  /\ UNCHANGED <<open, answer>>

TellTurn(k, u) ==
  /\ answer[k] = Silent
  /\ u \in TurnsOf(ClientOf[k])
  /\ answer' = [answer EXCEPT ![k] = [told |-> "turn", turn |-> u]]
  /\ UNCHANGED <<open, accepted>>

Refuse(k) ==
  /\ answer[k] = Silent
  /\ TurnsOf(ClientOf[k]) = {}
  /\ answer' = [answer EXCEPT ![k] = NotStarted]
  /\ open' = open \ {ClientOf[k]}
  /\ UNCHANGED accepted

\* One request, or all that a crash cuts off.
GiveUp(S) ==
  /\ \A k \in S : answer[k] = Silent
  /\ answer' = [k \in Call |-> IF k \in S THEN Unsure ELSE answer[k]]
  /\ UNCHANGED <<open, accepted>>

Next ==
  \/ \E c \in Client : Open(c)
  \/ \E u \in Turn : Start(u)
  \/ \E k \in Call : Refuse(k) \/ \E u \in Turn : TellTurn(k, u)
  \/ \E S \in SUBSET Call : GiveUp(S)

Spec == Init /\ [][Next]_onceVars
=============================================================================
