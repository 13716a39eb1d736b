----------------------------- MODULE Approvals ------------------------------
(***************************************************************************)
(* Server requests of the Codex app-server that a person has to decide:    *)
(* CodexManager.serverRequest and decide over the approvals table of       *)
(* Store, while decisions race each other and the app-server is replaced.  *)
(*                                                                         *)
(* A child of the bridge is a number, and its n-th server request carries  *)
(* the JSON-RPC id n: every child counts from 0.  A row of the table is    *)
(* keyed by the epoch in which the request was read and that id.           *)
(***************************************************************************)
EXTENDS Naturals

CONSTANTS
  Decider,    \* POST /api/approvals/:id/decision requests
  MaxChild,   \* bound: children of the bridge
  MaxAsk,     \* bound: server requests of one child
  MaxEpoch    \* bound: exits, restarts of the connection and of the bridge

ASSUME BoundsAssumption == MaxChild \in Nat /\ MaxAsk \in Nat /\ MaxEpoch \in Nat

Ask == (1..MaxChild) \X (0..MaxAsk)
RequestId == (0..MaxEpoch) \X (0..MaxAsk)

VARIABLES
  epoch,    \* CodexManager.epoch
  started,  \* JsonRpcClient.started
  proc,     \* the child: "ending" once its stdin is closed
  child,    \* the number of the last child
  asked,    \* the server requests it has made
  pipe,     \* requests written to stdout and not read
  rows,     \* approvals: status and payload, which is the request itself
  pc,       \* what each decision awaits or was answered
  target,   \* the request_id it names
  thrown,   \* serverRequest has thrown, out of a stream callback
  late,     \* history: requests read after the exit of the child that made them
  answers   \* history: responses written to a child

decisionVars == <<pc, target>>
childVars == <<proc, child, asked, pipe>>
historyVars == <<late, answers>>
vars == <<epoch, started, childVars, rows, decisionVars, thrown, historyVars>>

NoRow == [status |-> "none"]
Row == {NoRow} \cup [status : {"pending", "resolved", "stale"}, ask : Ask]
Response == [to : 1..MaxChild, id : 0..MaxAsk, ask : Ask, by : Decider]

TypeOK ==
  /\ epoch \in 0..MaxEpoch
  /\ started \in BOOLEAN
  /\ proc \in {"down", "up", "ending"}
  /\ child \in 0..MaxChild
  /\ proc # "down" => child # 0
  /\ asked \in 0..(MaxAsk + 1)
  /\ pipe \subseteq Ask
  /\ rows \in [RequestId -> Row]
  /\ pc \in [Decider -> {"idle", "access", "denied", "resolved", "conflict",
                         "invalid", "unavailable", "lost"}]
  /\ target \in [Decider -> RequestId]
  /\ thrown \in BOOLEAN
  /\ late \subseteq Ask
  /\ answers \subseteq Response

Init ==
  /\ epoch = 0
  /\ started = FALSE
  /\ proc = "down"
  /\ child = 0
  /\ asked = 0
  /\ pipe = {}
  /\ rows = [r \in RequestId |-> NoRow]
  /\ pc = [d \in Decider |-> "idle"]
  /\ target = [d \in Decider |-> <<0, 0>>]
  /\ thrown = FALSE
  /\ late = {}
  /\ answers = {}

-----------------------------------------------------------------------------
WithStatus(r, status) == [status |-> status, ask |-> rows[r].ask]
SetStatus(r, status) == [rows EXCEPT ![r] = WithStatus(r, status)]

\* Mutant: the rows of the epoch just left are kept.
ExpiredTwoBefore(e) ==
  [r \in RequestId |->
     IF rows[r].status = "pending" /\ r[1] + 1 < e
     THEN WithStatus(r, "stale") ELSE rows[r]]

(* expireApprovalsBefore                                                   *)
ExpiredBefore(e) ==
  [r \in RequestId |->
     IF rows[r].status = "pending" /\ r[1] < e
     THEN WithStatus(r, "stale") ELSE rows[r]]

\* Mutant: a new child continues the epoch of the last one.
SameEpoch ==
  /\ epoch < MaxEpoch
  /\ started' = FALSE
  /\ UNCHANGED epoch
  /\ rows' = ExpiredBefore(epoch)

(* JsonRpcClient.fail and the manager's 'unavailable' listener.            *)
Unavailable ==
  /\ epoch < MaxEpoch
  /\ started' = FALSE
  /\ epoch' = epoch + 1
  /\ rows' = ExpiredBefore(epoch + 1)

(* Any request or notification of the bridge starts the connection, and a  *)
(* child unless one is running, be it on its way out.                      *)
Use ==
  /\ ~thrown
  /\ started' = TRUE
  /\ IF proc = "down"
     THEN /\ child < MaxChild
          /\ proc' = "up" /\ child' = child + 1 /\ asked' = 0
     ELSE UNCHANGED <<proc, child, asked>>
  /\ UNCHANGED <<epoch, pipe, rows, decisionVars, thrown, historyVars>>

(* rpc.close() of restartConnection.                                       *)
Close ==
  /\ ~thrown
  /\ Unavailable
  /\ proc' = IF proc = "up" THEN "ending" ELSE proc
  /\ UNCHANGED <<child, asked, pipe, decisionVars, thrown, historyVars>>

(* The child's 'exit' event.  Its stdout may hold lines that readline has  *)
(* not emitted yet.                                                        *)
Exit ==
  /\ ~thrown
  /\ proc # "down"
  /\ Unavailable
  /\ proc' = "down"
  /\ UNCHANGED <<child, asked, pipe, decisionVars, thrown, historyVars>>

(* The bridge dies and another one opens the database; its epoch is the    *)
(* time of day, beyond every epoch before.                                 *)
BridgeRestart ==
  /\ Unavailable
  /\ proc' = "down"
  /\ pipe' = {}
  /\ pc' = [d \in Decider |-> IF pc[d] = "access" THEN "lost" ELSE pc[d]]
  /\ thrown' = FALSE
  /\ UNCHANGED <<child, asked, target, historyVars>>

-----------------------------------------------------------------------------
(* The app-server asks (external).                                         *)
ChildAsks ==
  /\ proc # "down"
  /\ asked <= MaxAsk
  /\ asked' = asked + 1
  /\ pipe' = pipe \cup {<<child, asked>>}
  /\ UNCHANGED <<epoch, started, proc, child, rows, decisionVars, thrown, historyVars>>

(* CodexManager.serverRequest.  The row is inserted unless there is one;   *)
(* the event of that id is inserted without such a condition, and throws.  *)
ServerRequest(a) ==
  LET r == <<epoch, a[2]>> IN
  /\ ~thrown
  /\ a \in pipe
  /\ pipe' = pipe \ {a}
  /\ \/ /\ rows[r] = NoRow
        /\ rows' = [rows EXCEPT ![r] = [status |-> "pending", ask |-> a]]
        /\ late' = IF proc # "down" /\ a[1] = child THEN late ELSE late \cup {a}
        /\ UNCHANGED thrown
     \/ /\ rows[r] # NoRow
        /\ thrown' = TRUE
        /\ UNCHANGED <<rows, late>>
  /\ UNCHANGED <<epoch, started, proc, child, asked, decisionVars, answers>>

-----------------------------------------------------------------------------
(* SessionService.decide: the row is read before the access check awaits.  *)
Arrive(d, r) ==
  /\ ~thrown
  /\ pc[d] = "idle"
  /\ rows[r] # NoRow
  /\ pc' = [pc EXCEPT ![d] = "access"]
  /\ target' = [target EXCEPT ![d] = r]
  /\ UNCHANGED <<epoch, started, childVars, rows, thrown, historyVars>>

Told(d, answer) ==
  /\ ~thrown
  /\ pc[d] = "access"
  /\ pc' = [pc EXCEPT ![d] = answer]

Deny(d) ==
  /\ Told(d, "denied")
  /\ UNCHANGED <<epoch, started, childVars, rows, target, thrown, historyVars>>

\* Mutant: the row is not checked again after the await.
EverAsked(r) == rows[r] # NoRow /\ r[1] = epoch

Answerable(r) == rows[r].status = "pending" /\ r[1] = epoch

(* CodexManager.decide, one synchronous stretch; the early exits first.    *)
Conflict(d) ==
  LET r == target[d] IN
  /\ Told(d, "conflict")
  /\ ~Answerable(r)
  /\ rows' = IF rows[r].status = "pending" THEN ExpiredBefore(epoch) ELSE rows
  /\ UNCHANGED <<epoch, started, childVars, target, thrown, historyVars>>

(* The decision is not available, or has no response of this kind.         *)
Invalid(d) ==
  /\ Told(d, "invalid")
  /\ Answerable(target[d])
  /\ UNCHANGED <<epoch, started, childVars, rows, target, thrown, historyVars>>

\* Mutant: the row is put back whoever settled it.
RevertAny(d) ==
  /\ Told(d, "unavailable")
  /\ ~started \/ proc = "down"
  /\ rows' = SetStatus(target[d], "pending")
  /\ UNCHANGED <<epoch, started, childVars, target, thrown, historyVars>>

(* respond throws without a connection: the settled row is put back.       *)
Revert(d) ==
  /\ Told(d, "unavailable")
  /\ Answerable(target[d])
  /\ ~started \/ proc = "down"
  /\ UNCHANGED <<epoch, started, childVars, rows, target, thrown, historyVars>>

\* Mutant: the response is written and the row left pending.
ResolveUnsettled(d) ==
  LET r == target[d] IN
  /\ Told(d, "resolved")
  /\ Answerable(r)
  /\ started /\ proc = "up"
  /\ answers' = answers \cup {[to |-> child, id |-> rows[r].ask[2],
                                ask |-> rows[r].ask, by |-> d]}
  /\ UNCHANGED <<epoch, started, childVars, rows, target, thrown, late>>

(* What is written to an ended stdin does not arrive.                      *)
Resolve(d) ==
  LET r == target[d] IN
  /\ Told(d, "resolved")
  /\ Answerable(r)
  /\ started /\ proc # "down"
  /\ rows' = SetStatus(r, "resolved")
  /\ answers' = IF proc = "ending" THEN answers
                ELSE answers \cup {[to |-> child, id |-> rows[r].ask[2],
                                    ask |-> rows[r].ask, by |-> d]}
  /\ UNCHANGED <<epoch, started, childVars, target, thrown, late>>

-----------------------------------------------------------------------------
Next ==
  \/ Use \/ Close \/ Exit \/ BridgeRestart \/ ChildAsks
  \/ \E a \in pipe : ServerRequest(a)
  \/ \E d \in Decider :
       \/ \E r \in RequestId : Arrive(d, r)
       \/ Deny(d) \/ Conflict(d) \/ Invalid(d) \/ Revert(d) \/ Resolve(d)

Spec == Init /\ [][Next]_vars

-----------------------------------------------------------------------------
(* "A duplicate decision cannot write twice to the same JSON-RPC id": no   *)
(* child gets two responses to one id, however many decisions race and     *)
(* whatever is restarted between the read of the row and the write.        *)
AnsweredOnce ==
  \A x, y \in answers : x.to = y.to /\ x.id = y.id => x = y

(* Of the decisions on one request at most one is told that it counts.     *)
OneWinner ==
  \A d, e \in Decider :
    pc[d] = "resolved" /\ pc[e] = "resolved" /\ target[d] = target[e] => d = e

(* A response reaches the child that asked, and no other that uses the     *)
(* same id, unless the request was read after its child's exit.            *)
AnswerReachesAsker ==
  \A x \in answers : x.to = x.ask[1] \/ x.ask \in late

(* Nothing is left to decide of an earlier epoch: what listApprovals shows *)
(* can be decided now.                                                     *)
PendingIsCurrent ==
  \A r \in RequestId : rows[r].status = "pending" => r[1] = epoch

(* A resolved approval stays resolved: the write that fails puts back only *)
(* the row its own decision settled.                                       *)
ResolvedIsFinal ==
  [][\A r \in RequestId : rows[r].status = "resolved" => rows'[r] = rows[r]]_rows

-----------------------------------------------------------------------------
(* Why these hold.  An epoch ends with the child it was current for, so    *)
(* while a child is up the rows of the current epoch that were not read    *)
(* late are its own, and its answered ids are the resolved ones.           *)
RowsKeyed ==
  \A r \in RequestId : rows[r] # NoRow => rows[r].ask[2] = r[2] /\ r[1] <= epoch

PendingAsker ==
  \A r \in RequestId :
    rows[r].status = "pending" /\ rows[r].ask \notin late
      => rows[r].ask[1] = child /\ proc # "down"

AnsweredRows ==
  \A x \in answers :
    /\ x.to <= child
    /\ x.to = child /\ proc = "up" => rows[<<epoch, x.id>>].status = "resolved"

WinnersRow ==
  \A d \in Decider : pc[d] = "resolved" => rows[target[d]].status = "resolved"

IInv ==
  /\ TypeOK /\ RowsKeyed /\ PendingIsCurrent /\ PendingAsker /\ AnsweredRows
  /\ WinnersRow /\ AnsweredOnce /\ OneWinner /\ AnswerReachesAsker
=============================================================================
