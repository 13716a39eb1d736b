-------------------------- MODULE ApprovalsProofs ---------------------------
(***************************************************************************)
(* Theorems about Approvals, for any number of decisions, children,        *)
(* requests and epochs.  IInv is inductive; every action is one step of    *)
(* IInvNext, over what the table operations do to a row.                   *)
(***************************************************************************)
EXTENDS Approvals, TLAPS

(* The table after expireApprovalsBefore: types, keys and resolved rows    *)
(* are kept, and nothing below e is pending.                               *)
LEMMA Expired ==
  ASSUME TypeOK, NEW e \in 0..MaxEpoch, rows' = ExpiredBefore(e)
  PROVE  /\ rows' \in [RequestId -> Row]
         /\ \A r \in RequestId :
              /\ rows[r] = NoRow => rows'[r] = NoRow
              /\ rows'[r] = NoRow => rows[r] = NoRow
              /\ rows[r] # NoRow => rows'[r].ask = rows[r].ask
              /\ rows[r].status = "resolved" => rows'[r] = rows[r]
              /\ rows'[r].status = "pending" => r[1] >= e /\ rows'[r] = rows[r]
              /\ rows'[r].status = "resolved" => rows'[r] = rows[r]
<1> DEFINE old(r) == rows[r].status = "pending" /\ r[1] < e
<1>1. rows' = [r \in RequestId |->
                 IF old(r) THEN WithStatus(r, "stale") ELSE rows[r]]
  BY DEF ExpiredBefore
<1>2. ASSUME NEW r \in RequestId
      PROVE  /\ r[1] \in Nat
             /\ rows[r] \in Row
             /\ rows[r] = NoRow => rows[r].status = "none"
  BY DEF TypeOK, RequestId, NoRow
<1>3. ASSUME NEW r \in RequestId, old(r)
      PROVE  /\ WithStatus(r, "stale") \in Row \ {NoRow}
             /\ WithStatus(r, "stale").ask = rows[r].ask
             /\ WithStatus(r, "stale").status = "stale"
  BY <1>3, <1>2 DEF Row, NoRow, WithStatus
<1> QED
  BY <1>1, <1>2, <1>3, BoundsAssumption DEF NoRow

(* The parts of IInv after the connection is gone: the new epoch has no    *)
(* pending row, and the child is no longer up.                             *)
LEMMA AfterUnavailable ==
  ASSUME IInv, Unavailable, child' = child, proc' # "up", answers' = answers, late' = late,
         target' = target,
         \A d \in Decider : pc'[d] = "resolved" => pc[d] = "resolved"
  PROVE  /\ epoch' \in 0..MaxEpoch /\ started' \in BOOLEAN /\ rows' \in [RequestId -> Row]
         /\ RowsKeyed' /\ PendingIsCurrent' /\ PendingAsker' /\ AnsweredRows'
         /\ WinnersRow' /\ AnsweredOnce' /\ OneWinner' /\ AnswerReachesAsker'
<1>1. epoch \in Nat /\ epoch + 1 \in 0..MaxEpoch /\ epoch' = epoch + 1 /\ started' = FALSE
  BY BoundsAssumption DEF IInv, TypeOK, Unavailable
<1>2. /\ rows' \in [RequestId -> Row]
      /\ \A r \in RequestId :
           /\ rows'[r] = NoRow <=> rows[r] = NoRow
           /\ rows[r] # NoRow => rows'[r].ask = rows[r].ask
           /\ rows[r].status = "resolved" => rows'[r] = rows[r]
           /\ rows'[r].status = "pending" => r[1] >= epoch + 1 /\ rows'[r] = rows[r]
  BY <1>1, Expired DEF IInv, Unavailable
<1>3. \A r \in RequestId : rows'[r].status # "pending"
  <2> SUFFICES ASSUME NEW r \in RequestId, rows'[r].status = "pending" PROVE FALSE
    OBVIOUS
  <2>1. rows[r].status = "pending" /\ r[1] >= epoch + 1
    BY <1>2
  <2>2. r[1] = epoch
    BY <2>1 DEF IInv, PendingIsCurrent
  <2> QED
    BY <2>1, <2>2, <1>1
<1>4. RowsKeyed'
  <2> SUFFICES ASSUME NEW r \in RequestId, rows'[r] # NoRow
               PROVE  rows'[r].ask[2] = r[2] /\ r[1] <= epoch'
    BY DEF RowsKeyed
  <2>1. rows[r] # NoRow /\ rows'[r].ask = rows[r].ask
    BY <1>2
  <2>2. rows[r].ask[2] = r[2] /\ r[1] <= epoch /\ r[1] \in Nat
    BY <2>1 DEF IInv, RowsKeyed, RequestId
  <2> QED
    BY <2>1, <2>2, <1>1
<1>5. PendingIsCurrent' /\ PendingAsker'
  BY <1>3 DEF PendingIsCurrent, PendingAsker
<1>6. AnsweredRows'
  BY DEF IInv, AnsweredRows
<1>7. WinnersRow'
  <2> SUFFICES ASSUME NEW d \in Decider, pc'[d] = "resolved"
               PROVE  rows'[target[d]].status = "resolved"
    BY DEF WinnersRow
  <2>1. target[d] \in RequestId /\ rows[target[d]].status = "resolved"
    BY DEF IInv, TypeOK, WinnersRow
  <2> QED
    BY <2>1, <1>2
<1>8. AnsweredOnce' /\ OneWinner' /\ AnswerReachesAsker'
  BY DEF IInv, AnsweredOnce, OneWinner, AnswerReachesAsker
<1> QED
  BY <1>1, <1>2, <1>4, <1>5, <1>6, <1>7, <1>8

LEMMA IInvInit == Init => IInv
<1> SUFFICES ASSUME Init PROVE IInv
  OBVIOUS
<1>1. \A r \in RequestId : rows[r] = NoRow
  BY DEF Init
<1>2. NoRow \in Row /\ NoRow.status = "none" /\ <<0, 0>> \in RequestId
  BY BoundsAssumption DEF Row, NoRow, RequestId
<1>3. TypeOK
  <2>1. rows \in [RequestId -> Row] /\ target \in [Decider -> RequestId]
    BY <1>2 DEF Init
  <2>2. 0 \in 0..MaxEpoch /\ 0 \in 0..MaxChild /\ 0 \in 0..(MaxAsk + 1)
    BY BoundsAssumption
  <2> QED
    BY <2>1, <2>2 DEF Init, TypeOK
<1>4. RowsKeyed /\ PendingIsCurrent /\ PendingAsker
  BY <1>1, <1>2 DEF RowsKeyed, PendingIsCurrent, PendingAsker
<1>5. AnsweredRows /\ WinnersRow /\ AnsweredOnce /\ OneWinner /\ AnswerReachesAsker
  BY DEF Init, AnsweredRows, WinnersRow, AnsweredOnce, OneWinner, AnswerReachesAsker
<1> QED
  BY <1>3, <1>4, <1>5 DEF IInv

(* A step that leaves the table, the children and the answers alone, and   *)
(* nobody's decision becomes a winner.                                     *)
LEMMA CallStep ==
  ASSUME IInv,
         UNCHANGED <<epoch, started, childVars, rows, historyVars>>,
         target' \in [Decider -> RequestId],
         pc' \in [Decider -> {"idle", "access", "denied", "resolved", "conflict",
                              "invalid", "unavailable", "lost"}],
         thrown' \in BOOLEAN,
         \A d \in Decider : pc'[d] = "resolved" => pc[d] = "resolved" /\ target'[d] = target[d]
  PROVE  IInv'
<1>1. TypeOK'
  BY DEF IInv, TypeOK, childVars, historyVars
<1>2. RowsKeyed' /\ PendingIsCurrent' /\ PendingAsker' /\ AnsweredRows'
  BY DEF IInv, RowsKeyed, PendingIsCurrent, PendingAsker, AnsweredRows, childVars, historyVars
<1>3. WinnersRow' /\ OneWinner'
  BY DEF IInv, WinnersRow, OneWinner
<1>4. AnsweredOnce' /\ AnswerReachesAsker'
  BY DEF IInv, AnsweredOnce, AnswerReachesAsker, historyVars
<1> QED
  BY <1>1, <1>2, <1>3, <1>4 DEF IInv

LEMMA UseStep == IInv /\ Use => IInv'
<1> SUFFICES ASSUME IInv, Use PROVE IInv'
  OBVIOUS
<1>1. TypeOK'
  BY BoundsAssumption DEF IInv, TypeOK, Use, decisionVars, historyVars
<1>2. RowsKeyed' /\ PendingIsCurrent'
  BY DEF IInv, Use, RowsKeyed, PendingIsCurrent
<1>3. PendingAsker'
  BY DEF IInv, TypeOK, Use, PendingAsker, historyVars
<1>4. AnsweredRows'
  <2> SUFFICES ASSUME NEW x \in answers
               PROVE  /\ x.to <= child'
                      /\ x.to = child' /\ proc' = "up" =>
                           rows[<<epoch, x.id>>].status = "resolved"
    BY DEF Use, AnsweredRows, historyVars
  <2>1. x.to \in Nat /\ child \in Nat
    BY BoundsAssumption DEF IInv, TypeOK, Response
  <2>2. /\ x.to <= child
        /\ x.to = child /\ proc = "up" => rows[<<epoch, x.id>>].status = "resolved"
    BY DEF IInv, AnsweredRows
  <2>3. CASE proc = "down"
    BY <2>1, <2>2, <2>3 DEF Use
  <2>4. CASE proc # "down"
    BY <2>1, <2>2, <2>4 DEF Use
  <2> QED
    BY <2>3, <2>4
<1>5. WinnersRow' /\ OneWinner' /\ AnsweredOnce' /\ AnswerReachesAsker'
  BY DEF IInv, Use, WinnersRow, OneWinner, AnsweredOnce, AnswerReachesAsker,
         decisionVars, historyVars
<1> QED
  BY <1>1, <1>2, <1>3, <1>4, <1>5 DEF IInv

LEMMA CloseStep == IInv /\ Close => IInv'
<1> SUFFICES ASSUME IInv, Close PROVE IInv'
  OBVIOUS
<1>1. proc' \in {"down", "up", "ending"} /\ proc' # "up" /\ (proc' # "down" => child # 0)
  BY DEF IInv, TypeOK, Close
<1>2. Unavailable /\ UNCHANGED <<child, asked, pipe, pc, target, thrown, late, answers>>
  BY DEF Close, decisionVars, historyVars
<1>3. /\ epoch' \in 0..MaxEpoch /\ started' \in BOOLEAN /\ rows' \in [RequestId -> Row]
      /\ RowsKeyed' /\ PendingIsCurrent' /\ PendingAsker' /\ AnsweredRows'
      /\ WinnersRow' /\ AnsweredOnce' /\ OneWinner' /\ AnswerReachesAsker'
  BY <1>1, <1>2, AfterUnavailable
<1>4. TypeOK'
  BY <1>1, <1>2, <1>3 DEF IInv, TypeOK
<1> QED
  BY <1>3, <1>4 DEF IInv

LEMMA ExitStep == IInv /\ Exit => IInv'
<1> SUFFICES ASSUME IInv, Exit PROVE IInv'
  OBVIOUS
<1>1. proc' = "down"
  BY DEF Exit
<1>2. Unavailable /\ UNCHANGED <<child, asked, pipe, pc, target, thrown, late, answers>>
  BY DEF Exit, decisionVars, historyVars
<1>3. /\ epoch' \in 0..MaxEpoch /\ started' \in BOOLEAN /\ rows' \in [RequestId -> Row]
      /\ RowsKeyed' /\ PendingIsCurrent' /\ PendingAsker' /\ AnsweredRows'
      /\ WinnersRow' /\ AnsweredOnce' /\ OneWinner' /\ AnswerReachesAsker'
  BY <1>1, <1>2, AfterUnavailable
<1>4. TypeOK'
  BY <1>1, <1>2, <1>3 DEF IInv, TypeOK
<1> QED
  BY <1>3, <1>4 DEF IInv

LEMMA BridgeRestartStep == IInv /\ BridgeRestart => IInv'
<1> SUFFICES ASSUME IInv, BridgeRestart PROVE IInv'
  OBVIOUS
<1>1. /\ proc' = "down" /\ pipe' = {} /\ thrown' = FALSE
      /\ Unavailable
      /\ UNCHANGED <<child, asked, target, late, answers>>
  BY DEF BridgeRestart, historyVars
<1>2. /\ pc' \in [Decider -> {"idle", "access", "denied", "resolved", "conflict",
                              "invalid", "unavailable", "lost"}]
      /\ \A d \in Decider : pc'[d] = "resolved" => pc[d] = "resolved"
  BY DEF IInv, TypeOK, BridgeRestart
<1>3. /\ epoch' \in 0..MaxEpoch /\ started' \in BOOLEAN /\ rows' \in [RequestId -> Row]
      /\ RowsKeyed' /\ PendingIsCurrent' /\ PendingAsker' /\ AnsweredRows'
      /\ WinnersRow' /\ AnsweredOnce' /\ OneWinner' /\ AnswerReachesAsker'
  BY <1>1, <1>2, AfterUnavailable
<1>4. TypeOK'
  BY <1>1, <1>2, <1>3 DEF IInv, TypeOK
<1> QED
  BY <1>3, <1>4 DEF IInv

LEMMA ChildAsksStep == IInv /\ ChildAsks => IInv'
<1> SUFFICES ASSUME IInv, ChildAsks PROVE IInv'
  OBVIOUS
<1>1. proc # "down" /\ asked <= MaxAsk /\ asked' = asked + 1
      /\ pipe' = pipe \cup {<<child, asked>>}
      /\ UNCHANGED <<epoch, started, proc, child, rows, pc, target, thrown, late, answers>>
  BY DEF ChildAsks, decisionVars, historyVars
<1>2. TypeOK'
  BY <1>1, BoundsAssumption DEF IInv, TypeOK, Ask
<1> QED
  BY <1>1, <1>2 DEF IInv, RowsKeyed, PendingIsCurrent, PendingAsker, AnsweredRows,
     WinnersRow, OneWinner, AnsweredOnce, AnswerReachesAsker

LEMMA ServerRequestStep == ASSUME IInv, NEW a \in pipe, ServerRequest(a) PROVE IInv'
<1> DEFINE r == <<epoch, a[2]>>
<1>1. /\ pipe' = pipe \ {a}
      /\ UNCHANGED <<epoch, started, proc, child, asked, pc, target, answers>>
  BY DEF ServerRequest, decisionVars
<1>2. a \in Ask /\ r \in RequestId /\ r[1] = epoch /\ r[2] = a[2] /\ epoch \in Nat
  BY BoundsAssumption DEF IInv, TypeOK, Ask, RequestId
<1>3. CASE rows[r] = NoRow /\ rows' = [rows EXCEPT ![r] = [status |-> "pending", ask |-> a]]
           /\ late' = (IF proc # "down" /\ a[1] = child THEN late ELSE late \cup {a})
           /\ UNCHANGED thrown
  <2>1. [status |-> "pending", ask |-> a] \in Row /\ [status |-> "pending", ask |-> a] # NoRow
    BY <1>2 DEF Row, NoRow
  <2>2. TypeOK'
    BY <1>1, <1>2, <1>3, <2>1 DEF IInv, TypeOK
  <2>3. /\ rows'[r].status = "pending" /\ rows'[r].ask = a
        /\ \A q \in RequestId : q # r => rows'[q] = rows[q]
        /\ rows[r].status = "none"
    BY <1>2, <1>3 DEF IInv, TypeOK, NoRow
  <2>4. RowsKeyed'
    BY <1>1, <1>2, <2>3 DEF IInv, RowsKeyed
  <2>5. PendingIsCurrent'
    BY <1>1, <1>2, <2>3 DEF IInv, PendingIsCurrent
  <2>6. PendingAsker'
    BY <1>1, <1>2, <1>3, <2>3 DEF IInv, PendingAsker
  <2>7. AnsweredRows'
    <3> SUFFICES ASSUME NEW x \in answers, x.to = child, proc = "up"
                 PROVE  rows'[<<epoch, x.id>>].status = "resolved"
      BY <1>1 DEF IInv, AnsweredRows
    <3>1. rows[<<epoch, x.id>>].status = "resolved" /\ <<epoch, x.id>> \in RequestId
      BY BoundsAssumption DEF IInv, TypeOK, AnsweredRows, Response, RequestId
    <3> QED
      BY <3>1, <2>3
  <2>8. WinnersRow'
    <3> SUFFICES ASSUME NEW d \in Decider, pc[d] = "resolved"
                 PROVE  rows'[target[d]].status = "resolved"
      BY <1>1 DEF WinnersRow
    <3>1. rows[target[d]].status = "resolved" /\ target[d] \in RequestId
      BY DEF IInv, TypeOK, WinnersRow
    <3> QED
      BY <3>1, <2>3
  <2>9. AnsweredOnce' /\ OneWinner' /\ AnswerReachesAsker'
    BY <1>1, <1>3 DEF IInv, AnsweredOnce, OneWinner, AnswerReachesAsker
  <2> QED
    BY <2>2, <2>4, <2>5, <2>6, <2>7, <2>8, <2>9 DEF IInv
<1>4. CASE thrown' = TRUE /\ UNCHANGED <<rows, late>>
  <2>1. TypeOK'
    BY <1>1, <1>4 DEF IInv, TypeOK
  <2> QED
    BY <1>1, <1>4, <2>1 DEF IInv, RowsKeyed, PendingIsCurrent, PendingAsker,
       AnsweredRows, WinnersRow, OneWinner, AnsweredOnce, AnswerReachesAsker
<1> QED
  BY <1>3, <1>4 DEF ServerRequest

(* A decision that only expires the rows of earlier epochs: there are      *)
(* none, so the table stays as it is.                                      *)
LEMMA ConflictStep == ASSUME IInv, NEW d \in Decider, Conflict(d) PROVE IInv'
<1>1. rows[target[d]].status = "pending" => target[d][1] = epoch
  BY DEF IInv, TypeOK, PendingIsCurrent
<1>2. UNCHANGED <<epoch, started, childVars, rows, historyVars, target, thrown>>
  BY <1>1 DEF Conflict, Answerable
<1>3. pc' = [pc EXCEPT ![d] = "conflict"]
  BY DEF Conflict, Told
<1> QED
  BY <1>2, <1>3, CallStep DEF IInv, TypeOK

LEMMA ArriveStep ==
  ASSUME IInv, NEW d \in Decider, NEW r \in RequestId, Arrive(d, r) PROVE IInv'
<1>1. /\ UNCHANGED <<epoch, started, childVars, rows, historyVars, thrown>>
      /\ pc' = [pc EXCEPT ![d] = "access"] /\ target' = [target EXCEPT ![d] = r]
  BY DEF Arrive
<1> QED
  BY <1>1, CallStep DEF IInv, TypeOK

LEMMA TurnedAwayStep ==
  ASSUME IInv, NEW d \in Decider, Deny(d) \/ Invalid(d) \/ Revert(d) PROVE IInv'
<1>1. /\ UNCHANGED <<epoch, started, childVars, rows, historyVars, target, thrown>>
      /\ \E a \in {"denied", "invalid", "unavailable"} : pc' = [pc EXCEPT ![d] = a]
  BY DEF Deny, Invalid, Revert, Told
<1> QED
  BY <1>1, CallStep DEF IInv, TypeOK

LEMMA ResolveStep == ASSUME IInv, NEW d \in Decider, Resolve(d) PROVE IInv'
<1> DEFINE r == target[d]
           x == [to |-> child, id |-> rows[r].ask[2], ask |-> rows[r].ask, by |-> d]
<1>1. /\ rows[r].status = "pending" /\ r[1] = epoch /\ proc # "down"
      /\ rows' = SetStatus(r, "resolved")
      /\ answers' = IF proc = "ending" THEN answers ELSE answers \cup {x}
      /\ pc' = [pc EXCEPT ![d] = "resolved"] /\ pc[d] = "access"
      /\ UNCHANGED <<epoch, started, proc, child, asked, pipe, target, thrown, late>>
  BY DEF Resolve, Told, Answerable, childVars
<1>2. /\ r \in RequestId /\ rows[r] \in Row \ {NoRow} /\ rows[r].ask \in Ask
      /\ rows[r].ask[2] = r[2]
  <2>1. r \in RequestId /\ rows[r] \in Row
    BY DEF IInv, TypeOK
  <2>2. rows[r] # NoRow /\ rows[r].ask \in Ask
    BY <1>1, <2>1 DEF Row, NoRow
  <2> QED
    BY <2>1, <2>2 DEF IInv, RowsKeyed
<1>3. r = <<epoch, x.id>> /\ x \in Response /\ x.to = child /\ x.ask = rows[r].ask
  BY <1>1, <1>2, BoundsAssumption DEF IInv, TypeOK, Response, RequestId, Ask
<1>4. /\ rows' \in [RequestId -> Row] /\ rows'[r].status = "resolved"
      /\ rows'[r].ask = rows[r].ask /\ rows'[r] # NoRow
      /\ \A q \in RequestId : q # r => rows'[q] = rows[q]
  <2>1. WithStatus(r, "resolved") \in Row \ {NoRow}
    BY <1>2 DEF WithStatus, Row, NoRow
  <2>2. WithStatus(r, "resolved").status = "resolved" /\ WithStatus(r, "resolved").ask = rows[r].ask
    BY DEF WithStatus
  <2> QED
    BY <1>1, <1>2, <2>1, <2>2 DEF SetStatus, IInv, TypeOK
<1>5. TypeOK'
  BY <1>1, <1>3, <1>4 DEF IInv, TypeOK
<1>6. RowsKeyed' /\ PendingIsCurrent' /\ PendingAsker'
  BY <1>1, <1>2, <1>4 DEF IInv, RowsKeyed, PendingIsCurrent, PendingAsker
<1>7. \A q \in RequestId : rows[q].status = "resolved" => rows'[q].status = "resolved"
  BY <1>4
<1>8. \A y \in answers : y.id \in 0..MaxAsk /\ <<epoch, y.id>> \in RequestId
  BY DEF IInv, TypeOK, Response, RequestId
<1>9. AnsweredRows'
  <2> SUFFICES ASSUME NEW y \in answers'
               PROVE  /\ y.to <= child
                      /\ y.to = child /\ proc = "up" => rows'[<<epoch, y.id>>].status = "resolved"
    BY <1>1 DEF AnsweredRows
  <2>1. CASE y \in answers
    BY <2>1, <1>7, <1>8 DEF IInv, AnsweredRows
  <2>2. CASE y = x
    BY <2>2, <1>3, <1>4, BoundsAssumption DEF IInv, TypeOK
  <2> QED
    BY <2>1, <2>2, <1>1
<1>10. WinnersRow'
  BY <1>1, <1>4, <1>7 DEF IInv, TypeOK, WinnersRow
<1>11. AnsweredOnce'
  <2>1. CASE proc = "ending"
    BY <2>1, <1>1 DEF IInv, AnsweredOnce
  <2>2. CASE proc = "up"
    <3>1. \A y \in answers : ~(y.to = child /\ y.id = x.id)
      BY <2>2, <1>1, <1>3 DEF IInv, AnsweredRows
    <3> QED
      BY <2>2, <3>1, <1>1, <1>3 DEF IInv, AnsweredOnce
  <2> QED
    BY <2>1, <2>2, <1>1 DEF IInv, TypeOK
<1>12. OneWinner'
  <2>1. \A e \in Decider : pc[e] = "resolved" => target[e] # r
    BY <1>1 DEF IInv, WinnersRow
  <2> QED
    BY <2>1, <1>1 DEF IInv, TypeOK, OneWinner
<1>13. AnswerReachesAsker'
  <2>1. x.to = x.ask[1] \/ x.ask \in late
    BY <1>1, <1>2, <1>3 DEF IInv, PendingAsker
  <2> QED
    BY <2>1, <1>1 DEF IInv, AnswerReachesAsker
<1> QED
  BY <1>5, <1>6, <1>9, <1>10, <1>11, <1>12, <1>13 DEF IInv

LEMMA IInvNext == IInv /\ [Next]_vars => IInv'
<1> SUFFICES ASSUME IInv, [Next]_vars PROVE IInv'
  OBVIOUS
<1>1. CASE UNCHANGED vars
  BY <1>1, CallStep DEF vars, decisionVars, IInv, TypeOK
<1>2. CASE Next
  BY <1>2, UseStep, CloseStep, ExitStep, BridgeRestartStep, ChildAsksStep,
     ServerRequestStep, ArriveStep, ConflictStep, TurnedAwayStep, ResolveStep DEF Next
<1> QED
  BY <1>1, <1>2

LEMMA Invariance == Spec => []IInv
BY IInvInit, IInvNext, PTL DEF Spec

(* The types of Approvals hold in every reachable state.                   *)
THEOREM ApprovalTypes == Spec => []TypeOK
<1>1. IInv => TypeOK
  BY DEF IInv
<1> QED
  BY <1>1, Invariance, PTL

(* No child gets two responses to one JSON-RPC id from manager.decide,     *)
(* however many decisions race and whatever is restarted.                  *)
THEOREM OneResponsePerId == Spec => []AnsweredOnce
<1>1. IInv => AnsweredOnce
  BY DEF IInv
<1> QED
  BY <1>1, Invariance, PTL

(* At most one decision on a request is told that it was taken.            *)
THEOREM AtMostOneWinner == Spec => []OneWinner
<1>1. IInv => OneWinner
  BY DEF IInv
<1> QED
  BY <1>1, Invariance, PTL

(* A response goes to the child that asked, unless the request was read    *)
(* from the pipe after the exit of that child.                             *)
THEOREM ResponsesReachAsker == Spec => []AnswerReachesAsker
<1>1. IInv => AnswerReachesAsker
  BY DEF IInv
<1> QED
  BY <1>1, Invariance, PTL

(* No pending row survives the epoch in which it was read, across exits,   *)
(* restarts of the connection and of the bridge.                           *)
THEOREM NothingPendingIsOld == Spec => []PendingIsCurrent
<1>1. IInv => PendingIsCurrent
  BY DEF IInv
<1> QED
  BY <1>1, Invariance, PTL

(* revertApproval and expireApprovalsBefore leave a resolved row alone.    *)
THEOREM ResolvedStaysResolved == Spec => ResolvedIsFinal
<1> DEFINE Kept == \A r \in RequestId : rows[r].status = "resolved" => rows'[r] = rows[r]
<1>1. ASSUME IInv, [Next]_vars PROVE [Kept]_rows
  <2> SUFFICES ASSUME NEW r \in RequestId, rows[r].status = "resolved"
               PROVE  rows'[r] = rows[r]
    OBVIOUS
  <2>1. TypeOK /\ epoch \in 0..MaxEpoch
    BY <1>1 DEF IInv, TypeOK
  <2>2. ASSUME Unavailable PROVE rows'[r] = rows[r]
    <3>1. epoch + 1 \in 0..MaxEpoch
      BY <2>1, <2>2, BoundsAssumption DEF Unavailable
    <3> QED
      BY <2>1, <2>2, <3>1, Expired DEF Unavailable
  <2>3. CASE Use \/ ChildAsks
    BY <2>3 DEF Use, ChildAsks
  <2>4. CASE Close \/ Exit \/ BridgeRestart
    BY <2>4, <2>2 DEF Close, Exit, BridgeRestart
  <2>5. ASSUME NEW a \in pipe, ServerRequest(a) PROVE rows'[r] = rows[r]
    <3>1. r = <<epoch, a[2]>> => rows[r] # NoRow
      BY DEF NoRow
    <3> QED
      BY <2>1, <2>5, <3>1 DEF ServerRequest, TypeOK
  <2>6. ASSUME NEW d \in Decider, NEW q \in RequestId, Arrive(d, q) PROVE rows'[r] = rows[r]
    BY <2>6 DEF Arrive
  <2>7. ASSUME NEW d \in Decider,
               Deny(d) \/ Conflict(d) \/ Invalid(d) \/ Revert(d) \/ Resolve(d)
        PROVE  rows'[r] = rows[r]
    <3>1. CASE Deny(d) \/ Invalid(d) \/ Revert(d)
      BY <3>1 DEF Deny, Invalid, Revert
    <3>2. CASE Conflict(d)
      BY <2>1, <3>2, Expired DEF Conflict
    <3>3. CASE Resolve(d)
      BY <2>1, <3>3 DEF Resolve, Answerable, SetStatus, TypeOK
    <3> QED
      BY <2>7, <3>1, <3>2, <3>3
  <2>8. CASE UNCHANGED vars
    BY <2>8 DEF vars
  <2> QED
    BY <1>1, <2>3, <2>4, <2>5, <2>6, <2>7, <2>8 DEF Next
<1> QED
  BY <1>1, Invariance, PTL DEF Spec, ResolvedIsFinal
=============================================================================
