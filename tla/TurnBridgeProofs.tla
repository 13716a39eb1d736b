-------------------------- MODULE TurnBridgeProofs --------------------------
(***************************************************************************)
(* Theorems about TurnBridge, for every value of its constants.            *)
(*                                                                         *)
(* IInv is inductive.  What carries it: while a call may still release the *)
(* row of its key (Owning), the row exists, no other call owns it, and the *)
(* only turn Codex may have or may still start for the key is that of the  *)
(* owner's own start request, which no error response follows (OwnersTurn, *)
(* RefusedNeverRuns).  A step is shown to keep the types first (TypeStep); *)
(* then lemmas say under which changes each part of IInv stays (FrameStep),*)
(* and one lemma per action deals with what the action disturbs.           *)
(* Three more invariants follow, each with its own introduction: Queues,   *)
(* for the queue of a thread; Tracked, for one turn at a time; Reported,   *)
(* for the active turn.                                                    *)
(***************************************************************************)
EXTENDS TurnBridge, TLAPS

LEMMA OutSame ==
  ASSUME UNCHANGED out PROVE Lines' = Lines /\ Responses' = Responses
BY DEF Lines, Responses

LEMMA OutAppend ==
  ASSUME out \in Seq(Line), NEW l \in Line, out' = Append(out, l)
  PROVE  out' \in Seq(Line) /\ Lines' = Lines \cup {l}
<1>1. out' \in Seq(Line) /\ Len(out') = Len(out) + 1 /\ out'[Len(out) + 1] = l
  OBVIOUS
<1>2. \A i \in 1..Len(out) : out'[i] = out[i]
  OBVIOUS
<1>3. Lines' = {out'[i] : i \in 1..(Len(out) + 1)}
  BY <1>1 DEF Lines
<1> QED
  BY <1>1, <1>2, <1>3 DEF Lines

LEMMA OutAppendTwo ==
  ASSUME out \in Seq(Line), NEW l \in Line, NEW m \in Line, out' = out \o <<l, m>>
  PROVE  out' \in Seq(Line) /\ Lines' = Lines \cup {l, m}
<1>1. out' \in Seq(Line) /\ Len(out') = Len(out) + 2
  OBVIOUS
<1>4. out'[Len(out) + 1] = l /\ out'[Len(out) + 2] = m
  OBVIOUS
<1>2. \A i \in 1..Len(out) : out'[i] = out[i]
  OBVIOUS
<1>3. Lines' = {out'[i] : i \in 1..(Len(out) + 2)}
  BY <1>1 DEF Lines
<1>5. 1..(Len(out) + 2) = 1..Len(out) \cup {Len(out) + 1, Len(out) + 2}
  OBVIOUS
<1>6. Lines' = {out'[i] : i \in 1..Len(out)} \cup {l, m}
  BY <1>3, <1>4, <1>5
<1>7. {out'[i] : i \in 1..Len(out)} = Lines
  BY <1>2 DEF Lines
<1> QED
  BY <1>1, <1>6, <1>7

LEMMA OutTail ==
  ASSUME out \in Seq(Line), out # <<>>, out' = Tail(out)
  PROVE  /\ out' \in Seq(Line)
         /\ Head(out) \in Lines
         /\ Head(out) \in Line
         /\ Lines' \subseteq Lines
<1>1. out' \in Seq(Line) /\ Len(out') = Len(out) - 1 /\ Len(out) \in Nat \ {0}
  OBVIOUS
<1>2. \A i \in 1..(Len(out) - 1) : out'[i] = out[i + 1]
  OBVIOUS
<1>3. Head(out) = out[1] /\ out[1] \in Line
  OBVIOUS
<1> QED
  BY <1>1, <1>2, <1>3 DEF Lines

(* The operators that several steps share keep the types.                  *)
LEMMA SendTypes ==
  ASSUME TypeOK, NEW k \in Worker, NEW kind \in Kinds,
         kind = "start" => k \in Call /\ try[k] > 0,
         Send(k, kind)
  PROVE  /\ pc' \in [Worker -> {"idle"} \cup Waits \cup Answers]
         /\ res' \in [Worker -> {"none", "pending", "ok"} \cup Errors]
         /\ proc' \in {"down", "up", "ending"}
         /\ inbox' \subseteq Request
<1>1. [kind |-> kind, call |-> k, n |-> try[k]] \in Request
  BY DEF TypeOK, Request, StartRequests
<1> QED
  BY <1>1 DEF TypeOK, Send, Waits

LEMMA StoreTypes ==
  ASSUME TypeOK, NEW c \in Client, NEW u \in Turn \cup {NoTurn},
         \/ BeginIdempotent(c)
         \/ FinishIdempotent(c, u)
         \/ FailIdempotent(c)
         \/ MarkPendingUncertain /\ UNCHANGED resp
  PROVE  /\ idem' \in [Client -> {"none", "pending", "uncertain", "done"}]
         /\ resp' \in [Client -> Turn \cup {NoTurn}]
BY DEF TypeOK, BeginIdempotent, FinishIdempotent, FailIdempotent, MarkPendingUncertain

LEMMA CallThreads == \A k \in Worker : CallThread(k) \in Thread
BY ConstantsAssumption DEF CallThread, Worker

LEMMA ServedTypes ==
  ASSUME TypeOK, NEW k \in Worker
  PROVE  Served(k) \in [Thread -> Seq(Call)]
BY CallThreads DEF TypeOK, Served

LEMMA AnswerTypes ==
  ASSUME TypeOK, NEW k \in Call, NEW u \in Turn \cup {NoTurn}, Answer(k, u)
  PROVE  /\ pc' \in [Worker -> {"idle"} \cup Waits \cup Answers]
         /\ res' \in [Worker -> {"none", "pending", "ok"} \cup Errors]
         /\ val' \in [Worker -> Turn \cup {NoTurn}]
BY DEF TypeOK, Answer, Answers, Worker

LEMMA AcceptedTurnTypes ==
  ASSUME TypeOK, NEW k \in Call, AcceptedTurn(k)
  PROVE  /\ pc' \in [Worker -> {"idle"} \cup Waits \cup Answers]
         /\ res' \in [Worker -> {"none", "pending", "ok"} \cup Errors]
         /\ val' \in [Worker -> Turn \cup {NoTurn}]
         /\ idem' \in [Client -> {"none", "pending", "uncertain", "done"}]
         /\ resp' \in [Client -> Turn \cup {NoTurn}]
<1>1. ClientOf[k] \in Client
  BY ConstantsAssumption
<1>2. ASSUME NEW u \in StoredTurn(ClientOf[k]), FinishIdempotent(ClientOf[k], u), Answer(k, u)
      PROVE  /\ pc' \in [Worker -> {"idle"} \cup Waits \cup Answers]
             /\ res' \in [Worker -> {"none", "pending", "ok"} \cup Errors]
             /\ val' \in [Worker -> Turn \cup {NoTurn}]
             /\ idem' \in [Client -> {"none", "pending", "uncertain", "done"}]
             /\ resp' \in [Client -> Turn \cup {NoTurn}]
  <2>1. u \in Turn
    BY DEF StoredTurn, TypeOK, Turn
  <2> QED
    BY <1>1, <1>2, <2>1, AnswerTypes, StoreTypes
<1>3. ASSUME pc' = [pc EXCEPT ![k] = "lookup"], res' = [res EXCEPT ![k] = "none"],
             UNCHANGED <<val, idem, resp>>
      PROVE  /\ pc' \in [Worker -> {"idle"} \cup Waits \cup Answers]
             /\ res' \in [Worker -> {"none", "pending", "ok"} \cup Errors]
             /\ UNCHANGED <<val, idem, resp>>
  BY <1>3 DEF TypeOK, Waits
<1> QED
  BY <1>2, <1>3 DEF AcceptedTurn, TypeOK

LEMMA RejectTypes ==
  ASSUME TypeOK, NEW k \in Call, NEW answer \in Answers, Reject(k, answer)
  PROVE  /\ pc' \in [Worker -> {"idle"} \cup Waits \cup Answers]
         /\ res' \in [Worker -> {"none", "pending", "ok"} \cup Errors]
         /\ queue' \in [Thread -> Seq(Call)]
         /\ idem' \in [Client -> {"none", "pending", "uncertain", "done"}]
         /\ resp' \in [Client -> Turn \cup {NoTurn}]
<1>1. k \in Worker /\ ClientOf[k] \in Client
  BY ConstantsAssumption DEF Worker
<1> QED
  BY <1>1, StoreTypes, ServedTypes DEF Reject, TypeOK, Waits

LEMMA StartTurnTypes ==
  ASSUME TypeOK, NEW k \in Call, try[k] > 0, StartTurn(k)
  PROVE  /\ pc' \in [Worker -> {"idle"} \cup Waits \cup Answers]
         /\ res' \in [Worker -> {"none", "pending", "ok"} \cup Errors]
         /\ proc' \in {"down", "up", "ending"}
         /\ inbox' \subseteq Request
         /\ queue' \in [Thread -> Seq(Call)]
         /\ idem' \in [Client -> {"none", "pending", "uncertain", "done"}]
         /\ resp' \in [Client -> Turn \cup {NoTurn}]
<1>1. CASE Reject(k, "busy") /\ UNCHANGED <<proc, inbox>>
  BY <1>1, RejectTypes DEF TypeOK, Answers
<1>2. CASE Send(k, "start") /\ UNCHANGED <<idem, resp, queue>>
  BY <1>2, SendTypes DEF TypeOK, Kinds, Worker
<1> QED
  BY <1>1, <1>2 DEF StartTurn

LEMMA LineTypes ==
  ASSUME TypeOK
  PROVE  /\ \A q \in Request, o \in Outcomes, u \in Turn \cup {NoTurn} : Reply(q, o, u) \in Line
         /\ \A u \in OwnTurn, type \in {"turn_started", "user_message", "turn_completed"} :
              Note(type, u) \in Line
BY DEF Reply, Note, Line, Response, Notice

LEMMA TypeStep ==
  ASSUME TypeOK, RowsOwned, Next
  PROVE  TypeOK'
<1> USE ConstantsAssumption
<1> USE DEF callVars, storeVars, managerVars, pipeVars, codexVars, budgetVars, Worker
<1>1. ASSUME NEW k \in Worker, Arrive(k) PROVE TypeOK'
  BY <1>1 DEF TypeOK, Arrive, Waits
<1>2. ASSUME NEW k \in Worker, Deny(k) PROVE TypeOK'
  BY <1>2 DEF TypeOK, Deny, Answers
<1>3. ASSUME NEW k \in Worker, Ready(k) PROVE TypeOK'
  BY <1>3 DEF TypeOK, Ready
<1>4. ASSUME NEW k \in Worker, Timeout(k) PROVE TypeOK'
  BY <1>4 DEF TypeOK, Timeout, Errors
<1>5. ASSUME NEW k \in Call, Admit(k) PROVE TypeOK'
  <2>1. CASE Answer(k, resp[ClientOf[k]]) /\ UNCHANGED <<try, idem, resp>>
    BY <1>5, <2>1, AnswerTypes DEF TypeOK, Admit
  <2>2. CASE AcceptedTurn(k) /\ UNCHANGED try
    BY <1>5, <2>2, AcceptedTurnTypes DEF TypeOK, Admit
  <2>3. CASE /\ BeginIdempotent(ClientOf[k])
             /\ try' = [try EXCEPT ![k] = 1]
             /\ pc' = [pc EXCEPT ![k] = "input"]
             /\ UNCHANGED <<res, val>>
    BY <1>5, <2>3, StoreTypes DEF TypeOK, Admit, Waits
  <2> QED
    BY <1>5, <2>1, <2>2, <2>3 DEF Admit
<1>6. ASSUME NEW k \in Call, RefuseInput(k) PROVE TypeOK'
  BY <1>6, StoreTypes DEF TypeOK, RefuseInput, Answers
<1>7. ASSUME NEW k \in Call, Enqueue(k) PROVE TypeOK'
  BY <1>7, CallThreads DEF TypeOK, Enqueue, Waits
<1>8. ASSUME NEW k \in Call, Begin(k) PROVE TypeOK'
  BY <1>8 DEF TypeOK, Begin, Waits
<1>9. ASSUME NEW k \in Call, Connected(k) PROVE TypeOK'
  <2>1. try[k] > 0
    BY <1>9 DEF Connected, RowsOwned, Owning
  <2>2. CASE StartTurn(k)
    BY <1>9, <2>1, <2>2, StartTurnTypes DEF TypeOK, Connected
  <2>3. CASE Send(k, "resume") /\ UNCHANGED <<idem, resp, queue>>
    BY <1>9, <2>3, SendTypes DEF TypeOK, Connected, Kinds
  <2> QED
    BY <1>9, <2>2, <2>3 DEF Connected
<1>10. ASSUME NEW k \in Call, Resumed(k) PROVE TypeOK'
  <2>1. try[k] > 0
    BY <1>10 DEF Resumed, RowsOwned, Owning
  <2> QED
    BY <1>10, <2>1, StartTurnTypes, CallThreads DEF TypeOK, Resumed
<1>11. ASSUME NEW k \in Call, Started(k) PROVE TypeOK'
  <2>1. val[k] \in Turn \cup {NoTurn}
    BY DEF TypeOK
  <2> QED
    BY <1>11, <2>1, AnswerTypes, StoreTypes, ServedTypes, CallThreads DEF TypeOK, Started
<1>12. ASSUME NEW k \in Call, Restart(k) PROVE TypeOK'
  BY <1>12 DEF TypeOK, Restart, AllRejected, Unavailable, MarkPendingUncertain, Errors, Waits
<1>13. ASSUME NEW k \in Call, Restarted(k) PROVE TypeOK'
  BY <1>13 DEF TypeOK, Restarted, Waits
<1>14. ASSUME NEW k \in Call, Rejected(k) PROVE TypeOK'
  BY <1>14, RejectTypes DEF TypeOK, Rejected, Answers
<1>15. ASSUME NEW k \in Call, Unknown(k) PROVE TypeOK'
  BY <1>15, AcceptedTurnTypes, ServedTypes DEF TypeOK, Unknown
<1>16. ASSUME NEW k \in Worker, LookUp(k) PROVE TypeOK'
  BY <1>16, SendTypes DEF TypeOK, LookUp, Kinds
<1>17. ASSUME NEW k \in Call, Found(k) PROVE TypeOK'
  <2>1. val[k] \in Turn \cup {NoTurn}
    BY DEF TypeOK
  <2> QED
    BY <1>17, <2>1, AnswerTypes, StoreTypes DEF TypeOK, Found
<1>18. ASSUME NEW k \in Call, Unresolved(k) PROVE TypeOK'
  BY <1>18 DEF TypeOK, Unresolved, MarkPendingUncertain, Answers
<1>19. ASSUME NEW i \in Cancel, AdmitCancel(i) PROVE TypeOK'
  BY <1>19 DEF TypeOK, AdmitCancel, Waits
<1>20. ASSUME NEW i \in Cancel, Interrupt(i) PROVE TypeOK'
  <2>1. CASE val' = [val EXCEPT ![i] = active[CallThread(i)]] /\ Send(i, "interrupt")
    BY <1>20, <2>1, SendTypes, CallThreads DEF TypeOK, Interrupt, Kinds
  <2>2. CASE /\ pc' = [pc EXCEPT ![i] = "lookup"]
             /\ res' = [res EXCEPT ![i] = "none"]
             /\ UNCHANGED <<val, proc, inbox>>
    BY <1>20, <2>2 DEF TypeOK, Interrupt, Waits
  <2> QED
    BY <1>20, <2>1, <2>2 DEF Interrupt
<1>21. ASSUME NEW i \in Cancel, InterruptFound(i) PROVE TypeOK'
  BY <1>21, SendTypes, CallThreads DEF TypeOK, InterruptFound, Kinds
<1>22. ASSUME NEW i \in Cancel, Interrupted(i) PROVE TypeOK'
  BY <1>22 DEF TypeOK, Interrupted, CancelAnswer, Answers
<1>23. ASSUME Initialized PROVE TypeOK'
  BY <1>23 DEF TypeOK, Initialized, SettleReady
<1>24. ASSUME NEW o \in {"timeout", "refused"}, InitializeFails(o) PROVE TypeOK'
  BY <1>24 DEF TypeOK, InitializeFails, SettleReady, Errors
<1>25. ASSUME DeliverResponse PROVE TypeOK'
  <2>1. out' \in Seq(Line) /\ Head(out) \in Line
    BY <1>25, OutTail DEF TypeOK, DeliverResponse
  <2>2. Head(out) \in Response
    BY <1>25, <2>1 DEF DeliverResponse, Line, Notice
  <2>3. /\ res' \in [Worker -> {"none", "pending", "ok"} \cup Errors]
        /\ val' \in [Worker -> Turn \cup {NoTurn}]
    <3>1. Head(out).outcome \in {"ok"} \cup Errors /\ Head(out).turn \in Turn \cup {NoTurn}
      BY <2>2 DEF Response, Outcomes, Errors
    <3>2. CASE Awaited(Head(out).req)
      BY <1>25, <3>1, <3>2 DEF TypeOK, DeliverResponse
    <3>3. CASE ~Awaited(Head(out).req)
      BY <1>25, <3>3 DEF TypeOK, DeliverResponse
    <3> QED
      BY <3>2, <3>3
  <2> QED
    BY <1>25, <2>1, <2>3 DEF TypeOK, DeliverResponse
<1>26. ASSUME DeliverNotice PROVE TypeOK'
  <2>1. out' \in Seq(Line) /\ Head(out) \in Line
    BY <1>26, OutTail DEF TypeOK, DeliverNotice
  <2>2. Head(out).turn \in OwnTurn
    BY <1>26, <2>1 DEF DeliverNotice, Line, Notice, Response
  <2>3. userEvents' \subseteq OwnTurn /\ endEvents' \subseteq Turn
    BY <1>26, <2>2 DEF TypeOK, DeliverNotice, Turn
  <2>4. /\ active' \in [Thread -> Turn \cup {NoTurn}]
        /\ completed' \in [Thread -> Turn \cup {NoTurn}]
    BY <1>26, <2>2 DEF TypeOK, DeliverNotice, Turn
  <2> QED
    BY <1>26, <2>1, <2>3, <2>4 DEF TypeOK, DeliverNotice
<1>27. ASSUME ProcessExit PROVE TypeOK'
  BY <1>27 DEF TypeOK, ProcessExit, AllRejected, Unavailable, MarkPendingUncertain, Errors
<1>28. ASSUME BridgeRestart PROVE TypeOK'
  BY <1>28 DEF TypeOK, BridgeRestart, MarkPendingUncertain, Answers, Request, StartRequests
<1>29. ASSUME NEW q \in inbox, CodexResumes(q) PROVE TypeOK'
  <2>1. Reply(q, "ok", NoTurn) \in Line
    BY LineTypes DEF TypeOK, Outcomes
  <2> QED
    BY <1>29, <2>1, OutAppend DEF TypeOK, CodexResumes
<1>30. ASSUME NEW q \in inbox, CodexStarts(q) PROVE TypeOK'
  <2> DEFINE u == <<q.call, q.n>>
  <2>1. u \in OwnTurn
    BY <1>30 DEF TypeOK, CodexStarts, Request, StartRequests, OwnTurn
  <2>2. Reply(q, "ok", u) \in Line /\ Note("turn_started", u) \in Line
    BY <2>1, LineTypes DEF TypeOK, Outcomes, Turn
  <2>3. out' \in Seq(Line)
    BY <1>30, <2>2, OutAppendTwo DEF TypeOK, CodexStarts
  <2> QED
    BY <1>30, <2>1, <2>3 DEF TypeOK, CodexStarts
<1>31. ASSUME NEW q \in inbox, CodexReads(q) PROVE TypeOK'
  <2>1. PICK u \in IF Shown(q.call) = {} THEN {NoTurn} ELSE Shown(q.call) :
          out' = Append(out, Reply(q, "ok", u))
    BY <1>31 DEF CodexReads
  <2>2. u \in Turn \cup {NoTurn}
    BY <2>1 DEF TypeOK, Shown, Turn
  <2>3. Reply(q, "ok", u) \in Line
    BY <2>2, LineTypes DEF TypeOK, Outcomes
  <2> QED
    BY <1>31, <2>1, <2>3, OutAppend DEF TypeOK, CodexReads
<1>32. ASSUME NEW q \in inbox, CodexInterrupts(q) PROVE TypeOK'
  <2>1. val[q.call] \in OwnTurn
    BY <1>32 DEF TypeOK, CodexInterrupts
  <2>2. Reply(q, "ok", val[q.call]) \in Line /\ Note("turn_completed", val[q.call]) \in Line
    BY <2>1, LineTypes DEF TypeOK, Outcomes, Turn
  <2> QED
    BY <1>32, <2>2, OutAppendTwo DEF TypeOK, CodexInterrupts
<1>33. ASSUME NEW q \in inbox, NEW o \in Outcomes, CodexRefuses(q, o) PROVE TypeOK'
  <2>1. Reply(q, o, NoTurn) \in Line
    BY LineTypes DEF TypeOK
  <2> QED
    BY <1>33, <2>1, OutAppend DEF TypeOK, CodexRefuses
<1>34. ASSUME NEW u \in running, CodexRecords(u) PROVE TypeOK'
  <2>1. Note("user_message", u) \in Line
    BY LineTypes DEF TypeOK
  <2> QED
    BY <1>34, <2>1, OutAppend DEF TypeOK, CodexRecords
<1>35. ASSUME NEW u \in running, CodexCompletes(u) PROVE TypeOK'
  <2>1. Note("turn_completed", u) \in Line
    BY LineTypes DEF TypeOK
  <2> QED
    BY <1>35, <2>1, OutAppend DEF TypeOK, CodexCompletes
<1>36. ASSUME NEW q \in orphaned, OrphanStarts(q) PROVE TypeOK'
  <2>1. <<q.call, q.n>> \in OwnTurn
    BY <1>36 DEF TypeOK, OrphanStarts, StartRequests, OwnTurn
  <2> QED
    BY <1>36, <2>1 DEF TypeOK, OrphanStarts
<1>37. ASSUME NEW u \in foreign, ForeignEnds(u) PROVE TypeOK'
  BY <1>37 DEF TypeOK, ForeignEnds
<1> QED
  BY <1>1, <1>2, <1>3, <1>4, <1>5, <1>6, <1>7, <1>8, <1>9, <1>10, <1>11, <1>12, <1>13,
     <1>14, <1>15, <1>16, <1>17, <1>18, <1>19, <1>20, <1>21, <1>22, <1>23, <1>24, <1>25,
     <1>26, <1>27, <1>28, <1>29, <1>30, <1>31, <1>32, <1>33, <1>34, <1>35, <1>36, <1>37
  DEF Next, Step, MessageStep, CancelStep, Codex

-----------------------------------------------------------------------------
(* What most steps do to the parts of IInv.                                *)
PipesStay ==
  /\ \A u \in OwnTurn : Possible(u)' => Possible(u)
  /\ accepted \subseteq accepted'
  /\ \A l \in Responses' : l \in Responses \/ l.req \in inbox

CallsStay ==
  \A j \in Call :
    /\ try'[j] = try[j]
    /\ \/ pc'[j] = pc[j]
       \/ pc[j] \in {"idle", "access"} /\ pc'[j] \in {"idle", "access"}
       \/ pc[j] \in Owning \ {"start"} /\ pc'[j] \in Owning \ {"start"}
       \/ pc'[j] \notin Owning \cup Unsent

RowsStay ==
  /\ \A c \in Client : idem'[c] = "none" =>
       idem[c] = "none" \/ \A u \in OwnTurn : TurnClient(u) = c => ~Possible(u)
  /\ \A j \in Call : pc'[j] \in Owning => idem'[ClientOf[j]] # "none"

ResultsStay ==
  \A j \in Call :
    pc'[j] \in {"start", "read"} /\ res'[j] \in Outcomes =>
      pc'[j] = pc[j] /\ res'[j] = res[j] /\ val'[j] = val[j] /\ try'[j] = try[j]

AnswersStay ==
  /\ \A j \in Call : pc'[j] = "ok" =>
       (pc[j] = "ok" /\ val'[j] = val[j]) \/ val'[j] \in AcceptedFor(ClientOf[j])
  /\ \A c \in Client : idem'[c] = "done" =>
       (idem[c] = "done" /\ resp'[c] = resp[c]) \/ resp'[c] \in AcceptedFor(c)

LEMMA OwnTurns ==
  /\ \A u \in OwnTurn : u[1] \in Call /\ u[2] \in {1, 2} /\ TurnClient(u) \in Client
  /\ \A u, w \in OwnTurn : u[1] = w[1] /\ u[2] = w[2] => u = w
  /\ \A u, w \in OwnTurn : StartRequest(u) = StartRequest(w) => u = w
BY ConstantsAssumption DEF OwnTurn, TurnClient, StartRequest

LEMMA PhaseFrame ==
  ASSUME IInv, PipesStay, CallsStay, RowsStay
  PROVE  /\ RowsOwned' /\ OneOwner' /\ FreshUnseen'
         /\ OwnersTurn' /\ OneTurnPossible' /\ ReleasedNeverRuns'
<1> USE OwnTurns
<1>1. RowsOwned'
  BY DEF IInv, RowsOwned, CallsStay, RowsStay, Owning, Unsent
<1>2. OneOwner'
  BY DEF IInv, OneOwner, CallsStay, Owning, Unsent
<1>3. ASSUME NEW u \in OwnTurn, Fresh(u)' PROVE Fresh(u)
  BY <1>3 DEF Fresh, CallsStay, Owning, Unsent
<1>4. FreshUnseen'
  <2>1. SUFFICES ASSUME NEW u \in OwnTurn, Fresh(u)'
                 PROVE  ~Possible(u)' /\ \A l \in Responses' : l.req # StartRequest(u)
    BY DEF FreshUnseen, StartRequest
  <2>2. ~Possible(u) /\ \A l \in Responses : l.req # StartRequest(u)
    BY <1>3, <2>1 DEF IInv, FreshUnseen
  <2>3. StartRequest(u) \notin inbox
    BY <2>2 DEF Possible
  <2> QED
    BY <2>2, <2>3 DEF PipesStay
<1>5. OwnersTurn'
  <2>1. SUFFICES ASSUME NEW u \in OwnTurn, NEW k \in Call,
                        Possible(u)', TurnClient(u) = ClientOf[k], pc'[k] \in Owning
                 PROVE  pc'[k] = "start" /\ u[1] = k /\ u[2] = try'[k]
    BY DEF OwnersTurn, TurnClient
  <2>2. pc[k] \in Owning /\ try'[k] = try[k] /\ (pc[k] = "start" => pc'[k] = "start")
    BY <2>1 DEF CallsStay, Owning, Unsent
  <2>3. Possible(u)
    BY <2>1 DEF PipesStay
  <2> QED
    BY <2>1, <2>2, <2>3 DEF IInv, OwnersTurn
<1>6. OneTurnPossible'
  BY DEF IInv, OneTurnPossible, PipesStay, TurnClient
<1>7. ReleasedNeverRuns'
  <2>1. SUFFICES ASSUME NEW u \in OwnTurn, idem'[TurnClient(u)] = "none"
                 PROVE  ~Possible(u)'
    BY DEF ReleasedNeverRuns, TurnClient
  <2>2. ~Possible(u)
    BY <2>1 DEF IInv, ReleasedNeverRuns, RowsStay
  <2> QED
    BY <2>2 DEF PipesStay
<1> QED
  BY <1>1, <1>2, <1>4, <1>5, <1>6, <1>7

LEMMA ResultsFrame ==
  ASSUME IInv, accepted \subseteq accepted', ResultsStay
  PROVE  ResultsTrue'
BY DEF IInv, ResultsTrue, ResultsStay, AcceptedFor, TurnClient, Outcomes

LEMMA RefusedFrame ==
  ASSUME IInv, PipesStay, ResultsStay, Lines' \subseteq Lines
  PROVE  RefusedNeverRuns'
<1> USE OwnTurns
<1>1. Responses' \subseteq Responses
  BY DEF Responses
<1>2. ASSUME NEW u \in OwnTurn, NEW l \in Responses',
             l.req = StartRequest(u), l.outcome # "ok"
      PROVE  ~Possible(u)'
  BY <1>1, <1>2 DEF IInv, RefusedNeverRuns, PipesStay
<1>3. ASSUME NEW u \in OwnTurn, pc'[u[1]] = "start", u[2] = try'[u[1]],
             res'[u[1]] \in {"conflict", "refused"}
      PROVE  ~Possible(u)'
  <2>1. pc[u[1]] = "start" /\ u[2] = try[u[1]] /\ res[u[1]] \in {"conflict", "refused"}
    BY <1>3 DEF ResultsStay, Outcomes
  <2> QED
    BY <2>1 DEF IInv, RefusedNeverRuns, PipesStay
<1> QED
  BY <1>2, <1>3 DEF RefusedNeverRuns, StartRequest

LEMMA LinesFrame ==
  ASSUME IInv, accepted \subseteq accepted', Lines' \subseteq Lines
  PROVE  LinesTrue'
BY DEF IInv, LinesTrue, Responses, AcceptedFor, TurnClient

LEMMA AnswersFrame ==
  ASSUME IInv, accepted \subseteq accepted', AnswersStay
  PROVE  RecordedAnswersTrue'
BY DEF IInv, RecordedAnswersTrue, AnswersStay, AcceptedFor, TurnClient

LEMMA PipesFrame ==
  ASSUME IInv, UNCHANGED <<orphaned, accepted>>, Lines' \subseteq Lines,
         \A u \in OwnTurn : StartRequest(u) \in inbox' => StartRequest(u) \in inbox
  PROVE  PipesStay /\ SentOnce'
BY DEF IInv, PipesStay, SentOnce, Possible, Responses, StartRequest

(* The common case: one lemma for the steps that keep all of the above.    *)
LEMMA FrameStep ==
  ASSUME IInv, TypeOK', UNCHANGED <<orphaned, accepted>>, Lines' \subseteq Lines,
         \A u \in OwnTurn : StartRequest(u) \in inbox' => StartRequest(u) \in inbox,
         CallsStay, RowsStay, ResultsStay, AnswersStay, StoredTrue'
  PROVE  IInv'
<1>1. PipesStay /\ SentOnce' /\ accepted \subseteq accepted'
  BY PipesFrame
<1> QED
  BY <1>1, PhaseFrame, ResultsFrame, RefusedFrame, LinesFrame, AnswersFrame DEF IInv

-----------------------------------------------------------------------------
(* The steps of the bridge that start nothing and release nothing.         *)
LEMMA KnownTurn ==
  ASSUME IInv, NEW c \in Client, NEW u \in StoredTurn(c)
  PROVE  u \in AcceptedFor(c)
BY DEF IInv, StoredTrue, StoredTurn, AcceptedFor

(* acceptedTurn answers with a turn of the key, or goes on to look it up.  *)
LEMMA AcceptedTurnStays ==
  ASSUME IInv, NEW k \in Call, pc[k] \notin {"start", "read", "ok"} \/ res[k] # "none",
         AcceptedTurn(k), UNCHANGED try
  PROVE  CallsStay /\ RowsStay /\ ResultsStay /\ AnswersStay
<1> USE ConstantsAssumption
<1>1. ClientOf[k] \in Client /\ k \in Worker
  BY DEF Worker
<1>2. CASE \E u \in StoredTurn(ClientOf[k]) :
             FinishIdempotent(ClientOf[k], u) /\ Answer(k, u)
  <2>1. PICK u \in StoredTurn(ClientOf[k]) :
          FinishIdempotent(ClientOf[k], u) /\ Answer(k, u)
    BY <1>2
  <2>2. u \in AcceptedFor(ClientOf[k])
    BY <1>1, KnownTurn
  <2>3. CallsStay
    BY <2>1, <1>1 DEF IInv, TypeOK, CallsStay, Answer, Owning, Unsent, Worker
  <2>4. RowsStay
    BY <2>1, <1>1 DEF IInv, TypeOK, RowsOwned, RowsStay, FinishIdempotent, Answer, Owning, Worker
  <2>5. ResultsStay
    BY <2>1, <1>1 DEF IInv, TypeOK, ResultsStay, Answer, Outcomes, Worker
  <2>6. AnswersStay
    BY <2>1, <2>2, <1>1 DEF IInv, TypeOK, AnswersStay, Answer, FinishIdempotent, Worker
  <2> QED
    BY <2>3, <2>4, <2>5, <2>6
<1>3. CASE /\ pc' = [pc EXCEPT ![k] = "lookup"]
           /\ res' = [res EXCEPT ![k] = "none"]
           /\ UNCHANGED <<val, idem, resp>>
  BY <1>1, <1>3 DEF IInv, TypeOK, RowsOwned, CallsStay, RowsStay, ResultsStay, AnswersStay,
       Owning, Unsent, Outcomes, Worker
<1> QED
  BY <1>2, <1>3 DEF AcceptedTurn

(* A call that ends with a turn of its own key.                            *)
LEMMA AnswerStays ==
  ASSUME IInv, NEW k \in Call, NEW u \in AcceptedFor(ClientOf[k]),
         FinishIdempotent(ClientOf[k], u), Answer(k, u), UNCHANGED try
  PROVE  CallsStay /\ RowsStay /\ ResultsStay /\ AnswersStay
<1> USE ConstantsAssumption
<1>1. ClientOf[k] \in Client /\ k \in Worker
  BY DEF Worker
<1>2. CallsStay
  BY <1>1 DEF IInv, TypeOK, CallsStay, Answer, Owning, Unsent, Worker
<1>3. RowsStay
  BY <1>1 DEF IInv, TypeOK, RowsOwned, RowsStay, FinishIdempotent, Answer, Owning, Worker
<1>4. ResultsStay
  BY <1>1 DEF IInv, TypeOK, ResultsStay, Answer, Outcomes, Worker
<1>5. AnswersStay
  BY <1>1 DEF IInv, TypeOK, AnswersStay, Answer, FinishIdempotent, Worker
<1> QED
  BY <1>2, <1>3, <1>4, <1>5

(* A step that leaves the pipes and Codex alone.                           *)
LEMMA LocalStep ==
  ASSUME IInv, TypeOK', UNCHANGED <<userEvents, inbox, out, accepted, orphaned>>,
         CallsStay, RowsStay, ResultsStay, AnswersStay
  PROVE  IInv'
<1>1. Lines' \subseteq Lines
  BY OutSame
<1>2. StoredTrue'
  BY DEF IInv, StoredTrue
<1> QED
  BY <1>1, <1>2, FrameStep

LEMMA LocalSteps ==
  ASSUME IInv, TypeOK', NEW k \in Worker,
         \/ Arrive(k) \/ Deny(k) \/ Ready(k) \/ Timeout(k)
         \/ k \in Call /\ (Enqueue(k) \/ Begin(k) \/ Restarted(k) \/ Unresolved(k))
         \/ k \in Cancel /\ (AdmitCancel(k) \/ Interrupted(k))
  PROVE  IInv'
<1> USE ConstantsAssumption DEF callVars, storeVars, managerVars, pipeVars, codexVars, Worker
<1>1. UNCHANGED <<userEvents, inbox, out, accepted, orphaned>>
  BY DEF Arrive, Deny, Ready, Timeout, Enqueue, Begin, Restarted, Unresolved, AdmitCancel,
       Interrupted
<1>2. CallsStay
  BY DEF CallsStay, IInv, TypeOK, Owning, Unsent, Arrive, Deny, Ready, Timeout, Enqueue, Begin,
       Restarted, Unresolved, AdmitCancel, Interrupted, CancelAnswer
<1>3. RowsStay
  <2>1. \A c \in Client : idem'[c] = "none" => idem[c] = "none"
    BY DEF IInv, TypeOK, Arrive, Deny, Ready, Timeout, Enqueue, Begin, Restarted, Unresolved,
         MarkPendingUncertain, AdmitCancel, Interrupted
  <2>2. \A j \in Call : pc'[j] \in Owning => pc[j] \in Owning
    BY <1>2 DEF CallsStay, Owning, Unsent
  <2> QED
    BY <2>1, <2>2 DEF RowsStay, IInv, RowsOwned
<1>4. ResultsStay
  BY DEF ResultsStay, Outcomes, IInv, TypeOK, Arrive, Deny, Ready, Timeout, Enqueue, Begin,
       Restarted, Unresolved, AdmitCancel, Interrupted
<1>5. AnswersStay
  BY DEF AnswersStay, IInv, TypeOK, Arrive, Deny, Ready, Timeout, Enqueue, Begin,
       Restarted, Unresolved, MarkPendingUncertain, AdmitCancel, Interrupted
<1> QED
  BY <1>1, <1>2, <1>3, <1>4, <1>5, LocalStep

LEMMA ReplySteps ==
  ASSUME IInv, TypeOK', NEW k \in Call, Started(k) \/ Unknown(k) \/ Found(k)
  PROVE  IInv'
<1> USE ConstantsAssumption
    DEF callVars, storeVars, managerVars, pipeVars, codexVars
<1>1. UNCHANGED <<userEvents, inbox, out, accepted, orphaned>>
  BY DEF Started, Unknown, Found
<1>2. CASE Started(k)
  <2>1. val[k] \in AcceptedFor(ClientOf[k])
    BY <1>2 DEF Started, IInv, ResultsTrue, AcceptedFor, TurnClient
  <2> QED
    BY <1>1, <1>2, <2>1, AnswerStays, LocalStep DEF Started
<1>3. CASE Unknown(k)
  BY <1>1, <1>3, AcceptedTurnStays, LocalStep DEF Unknown
<1>4. CASE Found(k)
  <2>1. val[k] \in AcceptedFor(ClientOf[k])
    BY <1>4 DEF Found, IInv, ResultsTrue
  <2> QED
    BY <1>1, <1>4, <2>1, AnswerStays, LocalStep DEF Found
<1> QED
  BY <1>2, <1>3, <1>4

-----------------------------------------------------------------------------
(* The steps that release the row of a key.                                *)
LEMMA ReleaseStep ==
  ASSUME IInv, TypeOK', NEW k \in Call, NEW answer \in {"refused", "busy"},
         UNCHANGED <<userEvents, inbox, out, accepted, orphaned, val, try>>,
         pc' = [pc EXCEPT ![k] = answer],
         res' = [res EXCEPT ![k] = "none"] \/ res' = res,
         FailIdempotent(ClientOf[k]),
         pc[k] \in Owning,
         \A u \in OwnTurn : TurnClient(u) = ClientOf[k] => ~Possible(u)
  PROVE  IInv'
<1> USE ConstantsAssumption
<1>1. ClientOf[k] \in Client /\ k \in Worker
  BY DEF Worker
<1>2. CallsStay
  BY <1>1 DEF IInv, TypeOK, CallsStay, Owning, Unsent, Worker
<1>3. RowsStay
  <2>1. ASSUME NEW c \in Client, idem'[c] = "none"
        PROVE  idem[c] = "none" \/ \A u \in OwnTurn : TurnClient(u) = c => ~Possible(u)
    BY <2>1, <1>1 DEF FailIdempotent, IInv, TypeOK
  <2>2. ASSUME NEW j \in Call, pc'[j] \in Owning PROVE idem'[ClientOf[j]] # "none"
    <3>1. j # k /\ pc[j] \in Owning
      BY <2>2, <1>1 DEF IInv, TypeOK, Owning, Worker
    <3>2. ClientOf[j] # ClientOf[k] /\ ClientOf[j] \in Client
      BY <3>1 DEF IInv, OneOwner
    <3> QED
      BY <3>1, <3>2, <1>1 DEF FailIdempotent, IInv, TypeOK, RowsOwned
  <2> QED
    BY <2>1, <2>2 DEF RowsStay
<1>4. ResultsStay
  BY <1>1 DEF IInv, TypeOK, ResultsStay, Outcomes, Worker
<1>5. AnswersStay
  BY <1>1 DEF IInv, TypeOK, AnswersStay, FailIdempotent, Worker
<1> QED
  BY <1>2, <1>3, <1>4, <1>5, LocalStep

LEMMA RefuseInputStep ==
  ASSUME IInv, TypeOK', NEW k \in Call, RefuseInput(k)
  PROVE  IInv'
<1>1. pc[k] \in Owning /\ pc[k] # "start"
  BY DEF RefuseInput, Owning
<1>2. \A u \in OwnTurn : TurnClient(u) = ClientOf[k] => ~Possible(u)
  BY <1>1 DEF IInv, OwnersTurn
<1> QED
  BY <1>1, <1>2, ReleaseStep DEF RefuseInput, managerVars, pipeVars, codexVars

(* An error response on the way to the turn, or to its start request.      *)
LEMMA RejectedStep ==
  ASSUME IInv, TypeOK', NEW k \in Call, Rejected(k)
  PROVE  IInv'
<1>1. pc[k] \in Owning
  BY DEF Rejected, Owning
<1>2. ASSUME NEW u \in OwnTurn, TurnClient(u) = ClientOf[k], Possible(u) PROVE FALSE
  <2>1. pc[k] = "start" /\ u[1] = k /\ u[2] = try[k]
    BY <1>1, <1>2 DEF IInv, OwnersTurn
  <2>2. res[k] \in {"conflict", "refused"}
    BY DEF Rejected
  <2> QED
    BY <1>2, <2>1, <2>2 DEF IInv, RefusedNeverRuns
<1> QED
  BY <1>1, <1>2, ReleaseStep DEF Rejected, Reject, pipeVars, codexVars

-----------------------------------------------------------------------------
(* The steps that write a request.                                         *)
LEMMA OtherSend ==
  ASSUME IInv, TypeOK', NEW k \in Worker, NEW kind \in Kinds \ {"start"},
         Send(k, kind),
         UNCHANGED <<try, idem, resp, userEvents, out, accepted, orphaned>>,
         \A j \in Call : val'[j] = val[j],
         k \in Call => \/ pc[k] = "connect" /\ kind = "resume"
                       \/ pc[k] = "lookup" /\ kind = "read"
  PROVE  IInv'
<1> USE ConstantsAssumption
<1>1. \A u \in OwnTurn : StartRequest(u) \in inbox' => StartRequest(u) \in inbox
  BY DEF Send, StartRequest, Kinds
<1>2. CallsStay
  BY DEF IInv, TypeOK, CallsStay, Send, Owning, Unsent, Worker, Kinds
<1>3. RowsStay
  BY <1>2 DEF IInv, RowsOwned, RowsStay, CallsStay, Owning, Unsent
<1>4. ResultsStay
  BY DEF IInv, TypeOK, ResultsStay, Send, Outcomes, Worker
<1>5. AnswersStay
  BY DEF IInv, TypeOK, AnswersStay, Send, Worker, Kinds
<1>6. StoredTrue' /\ Lines' \subseteq Lines
  BY OutSame DEF IInv, StoredTrue
<1> QED
  BY <1>1, <1>2, <1>3, <1>4, <1>5, <1>6, FrameStep

LEMMA OtherSendSteps ==
  ASSUME IInv, TypeOK', NEW k \in Worker,
         LookUp(k) \/ (k \in Cancel /\ (Interrupt(k) \/ InterruptFound(k)))
  PROVE  IInv'
<1> USE ConstantsAssumption DEF storeVars, managerVars, codexVars, pipeVars
<1>1. CASE LookUp(k)
  BY <1>1, OtherSend DEF LookUp, Kinds
<1>2. CASE k \in Cancel /\ InterruptFound(k)
  BY <1>2, OtherSend DEF InterruptFound, Kinds
<1>3. CASE k \in Cancel /\ Interrupt(k)
  <2>0. k \notin Call /\ \A j \in Call : j # k
    BY <1>3
  <2>1. CASE val' = [val EXCEPT ![k] = active[CallThread(k)]] /\ Send(k, "interrupt")
    <3>1. \A j \in Call : val'[j] = val[j]
      BY <2>0, <2>1 DEF IInv, TypeOK, Worker
    <3> QED
      BY <2>0, <1>3, <2>1, <3>1, OtherSend DEF Interrupt, Kinds
  <2>2. CASE /\ pc' = [pc EXCEPT ![k] = "lookup"]
             /\ res' = [res EXCEPT ![k] = "none"]
             /\ UNCHANGED <<val, proc, inbox>>
    <3>1. \A j \in Call : pc'[j] = pc[j] /\ res'[j] = res[j]
      BY <2>0, <2>2 DEF IInv, TypeOK, Worker
    <3>2. CallsStay /\ RowsStay /\ ResultsStay /\ AnswersStay
      BY <3>1, <1>3, <2>2 DEF Interrupt, CallsStay, RowsStay, ResultsStay, AnswersStay,
           IInv, RowsOwned
    <3> QED
      BY <3>2, <1>3, <2>2, LocalStep DEF Interrupt
  <2> QED
    BY <1>3, <2>1, <2>2 DEF Interrupt
<1> QED
  BY <1>1, <1>2, <1>3

(* The one step that makes a turn possible.                                *)
LEMMA SendStart ==
  ASSUME IInv, TypeOK', NEW k \in Call, pc[k] \in {"connect", "resume"},
         Send(k, "start"),
         UNCHANGED <<val, try, idem, resp, userEvents, out, accepted, orphaned>>
  PROVE  IInv'
<1> USE ConstantsAssumption, OwnTurns
<1> DEFINE w == <<k, try[k]>>
<1>0. k \in Worker /\ try[k] \in 0..2
  BY DEF IInv, TypeOK, Worker
<1>1. w \in OwnTurn /\ w[1] = k /\ w[2] = try[k] /\ TurnClient(w) = ClientOf[k]
  BY DEF IInv, TypeOK, RowsOwned, Owning, OwnTurn, TurnClient, Worker
<1>2. Fresh(w)
  BY <1>1 DEF Fresh, Unsent, Owning
<1>3. ~Possible(w) /\ \A l \in Responses : l.req # StartRequest(w)
  BY <1>1, <1>2 DEF IInv, FreshUnseen
<1>4. \A u \in OwnTurn : TurnClient(u) = ClientOf[k] => ~Possible(u)
  BY DEF IInv, OwnersTurn, Owning
<1>5. inbox' \subseteq inbox \cup {StartRequest(w)}
  BY <1>1 DEF Send, StartRequest
<1>6. \A u \in OwnTurn : Possible(u)' => Possible(u) \/ u = w
  BY <1>1, <1>5 DEF Possible, StartRequest
<1>7. /\ pc'[k] = "start" /\ res'[k] = "pending"
      /\ \A j \in Call \ {k} : pc'[j] = pc[j] /\ res'[j] = res[j]
  BY DEF Send, IInv, TypeOK, Worker
<1>8. Lines' = Lines /\ Responses' = Responses
  BY OutSame
<1>9. RowsOwned'
  BY <1>7 DEF IInv, RowsOwned, Owning
<1>10. OneOwner'
  BY <1>7 DEF IInv, OneOwner, Owning
<1>11. FreshUnseen'
  <2>1. SUFFICES ASSUME NEW u \in OwnTurn, Fresh(u)'
                 PROVE  ~Possible(u)' /\ \A l \in Responses' : l.req # StartRequest(u)
    BY DEF FreshUnseen, StartRequest
  <2>2. Fresh(u) /\ u # w
    <3>1. CASE u[1] = k
      <4>1. u[2] > try[k]
        BY <1>7, <2>1, <3>1 DEF Fresh, Unsent, Owning
      <4>2. try[k] \in Nat
        BY <1>0
      <4> QED
        BY <1>1, <3>1, <4>1, <4>2 DEF Fresh
    <3>2. CASE u[1] # k
      BY <1>1, <1>7, <2>1, <3>2 DEF Fresh
    <3> QED
      BY <3>1, <3>2
  <2> QED
    BY <1>6, <1>8, <2>2 DEF IInv, FreshUnseen
<1>12. SentOnce'
  BY <1>1, <1>3, <1>5 DEF IInv, SentOnce, Possible, StartRequest
<1>13. OwnersTurn'
  <2>1. SUFFICES ASSUME NEW u \in OwnTurn, NEW j \in Call,
                        Possible(u)', TurnClient(u) = ClientOf[j], pc'[j] \in Owning
                 PROVE  pc'[j] = "start" /\ u[1] = j /\ u[2] = try'[j]
    BY DEF OwnersTurn, TurnClient
  <2>2. CASE j = k
    BY <1>1, <1>4, <1>6, <1>7, <2>1, <2>2
  <2>3. CASE j # k
    <3>1. ClientOf[j] # ClientOf[k] /\ pc[j] \in Owning
      BY <1>7, <2>1, <2>3 DEF IInv, OneOwner, Owning
    <3>2. Possible(u)
      BY <1>1, <1>6, <2>1, <3>1
    <3> QED
      BY <1>7, <2>1, <2>3, <3>1, <3>2 DEF IInv, OwnersTurn
  <2> QED
    BY <2>2, <2>3
<1>14. OneTurnPossible'
  BY <1>1, <1>4, <1>6 DEF IInv, OneTurnPossible, TurnClient
<1>15. ReleasedNeverRuns'
  <2>1. idem[TurnClient(w)] # "none"
    BY <1>1 DEF IInv, RowsOwned, Owning
  <2> QED
    BY <1>6, <2>1 DEF IInv, ReleasedNeverRuns, TurnClient
<1>16. RefusedNeverRuns'
  <2>1. ASSUME NEW u \in OwnTurn, NEW l \in Responses',
               l.req = StartRequest(u), l.outcome # "ok"
        PROVE  ~Possible(u)'
    BY <1>3, <1>6, <1>8, <2>1 DEF IInv, RefusedNeverRuns
  <2>2. ASSUME NEW u \in OwnTurn, pc'[u[1]] = "start", u[2] = try'[u[1]],
               res'[u[1]] \in {"conflict", "refused"}
        PROVE  ~Possible(u)'
    BY <1>1, <1>6, <1>7, <2>2 DEF IInv, RefusedNeverRuns
  <2> QED
    BY <2>1, <2>2 DEF RefusedNeverRuns, StartRequest
<1>17. LinesTrue'
  BY <1>8, LinesFrame
<1>18. ResultsTrue'
  BY <1>7 DEF IInv, ResultsTrue, AcceptedFor, TurnClient
<1>19. StoredTrue' /\ RecordedAnswersTrue'
  BY <1>7 DEF IInv, StoredTrue, RecordedAnswersTrue, TurnClient
<1> QED
  BY <1>9, <1>10, <1>11, <1>12, <1>13, <1>14, <1>15, <1>16, <1>17, <1>18, <1>19 DEF IInv

LEMMA StartTurnStep ==
  ASSUME IInv, TypeOK', NEW k \in Call, pc[k] \in {"connect", "resume"},
         StartTurn(k), UNCHANGED <<val, try, userEvents, out, accepted, orphaned>>
  PROVE  IInv'
<1>1. CASE Reject(k, "busy") /\ UNCHANGED inbox
  <2>1. pc[k] \in Owning /\ \A u \in OwnTurn : TurnClient(u) = ClientOf[k] => ~Possible(u)
    BY DEF IInv, OwnersTurn, Owning
  <2> QED
    BY <1>1, <2>1, ReleaseStep DEF Reject
<1>2. CASE Send(k, "start") /\ UNCHANGED <<idem, resp>>
  BY <1>2, SendStart
<1> QED
  BY <1>1, <1>2 DEF StartTurn

LEMMA ConnectedStep ==
  ASSUME IInv, TypeOK', NEW k \in Call, Connected(k) \/ Resumed(k)
  PROVE  IInv'
<1>1. CASE StartTurn(k)
  BY <1>1, StartTurnStep DEF Connected, Resumed, codexVars
<1>2. CASE Connected(k) /\ Send(k, "resume") /\ UNCHANGED <<idem, resp>>
  <2>1. /\ pc[k] = "connect"
        /\ UNCHANGED <<try, idem, resp, userEvents, out, accepted, orphaned>>
        /\ \A j \in Call : val'[j] = val[j]
    BY <1>2 DEF Connected, codexVars
  <2>2. k \in Worker
    BY DEF Worker
  <2> QED
    BY <1>2, <2>1, <2>2, OtherSend DEF Kinds
<1> QED
  BY <1>1, <1>2 DEF Connected, Resumed

-----------------------------------------------------------------------------
(* A call becomes the owner of a new row, or answers from an old one.      *)
LEMMA BeginStep ==
  ASSUME IInv, TypeOK', NEW k \in Call, pc[k] = "access", idem[ClientOf[k]] = "none",
         BeginIdempotent(ClientOf[k]),
         try' = [try EXCEPT ![k] = 1],
         pc' = [pc EXCEPT ![k] = "input"],
         UNCHANGED <<res, val, userEvents, inbox, out, accepted, orphaned>>
  PROVE  IInv'
<1> USE ConstantsAssumption, OwnTurns
<1>1. k \in Worker /\ ClientOf[k] \in Client
  BY DEF Worker
<1>2. /\ pc'[k] = "input" /\ try'[k] = 1 /\ try[k] = 0
      /\ \A j \in Call \ {k} : pc'[j] = pc[j] /\ try'[j] = try[j]
      /\ \A c \in Client : idem'[c] = IF c = ClientOf[k] THEN "pending" ELSE idem[c]
  BY <1>1 DEF IInv, TypeOK, RowsOwned, BeginIdempotent, Worker
<1>3. \A j \in Call : pc[j] \in Owning => ClientOf[j] # ClientOf[k]
  BY DEF IInv, RowsOwned
<1>4. /\ Lines' = Lines /\ Responses' = Responses
      /\ \A u \in OwnTurn : Possible(u)' <=> Possible(u)
  BY OutSame DEF Possible, StartRequest
<1>5. RowsOwned'
  BY <1>1, <1>2, <1>3 DEF IInv, RowsOwned, Owning
<1>6. OneOwner'
  BY <1>2, <1>3 DEF IInv, OneOwner, Owning
<1>7. FreshUnseen'
  <2>1. SUFFICES ASSUME NEW u \in OwnTurn, Fresh(u)' PROVE Fresh(u)
    BY <1>4 DEF IInv, FreshUnseen, StartRequest
  <2>2. CASE u[1] = k
    BY <1>2, <2>2 DEF Fresh
  <2>3. CASE u[1] # k
    BY <1>2, <2>1, <2>3 DEF Fresh
  <2> QED
    BY <2>2, <2>3
<1>8. SentOnce'
  BY DEF IInv, SentOnce, StartRequest
<1>9. OwnersTurn'
  <2>1. SUFFICES ASSUME NEW u \in OwnTurn, NEW j \in Call,
                        Possible(u), TurnClient(u) = ClientOf[j], pc'[j] \in Owning
                 PROVE  pc'[j] = "start" /\ u[1] = j /\ u[2] = try'[j]
    BY <1>4 DEF OwnersTurn, TurnClient
  <2>2. j # k
    BY <2>1 DEF IInv, ReleasedNeverRuns
  <2> QED
    BY <1>2, <2>1, <2>2 DEF IInv, OwnersTurn
<1>10. OneTurnPossible'
  BY <1>4 DEF IInv, OneTurnPossible, TurnClient
<1>11. ReleasedNeverRuns'
  BY <1>2, <1>4 DEF IInv, ReleasedNeverRuns, TurnClient
<1>12. RefusedNeverRuns'
  BY <1>2, <1>4 DEF IInv, RefusedNeverRuns, StartRequest
<1>13. LinesTrue' /\ StoredTrue'
  BY <1>4, LinesFrame DEF IInv, StoredTrue
<1>14. ResultsTrue'
  BY <1>2 DEF IInv, ResultsTrue, AcceptedFor, TurnClient
<1>15. RecordedAnswersTrue'
  BY <1>1, <1>2 DEF IInv, TypeOK, RecordedAnswersTrue, BeginIdempotent, TurnClient
<1> QED
  BY <1>5, <1>6, <1>7, <1>8, <1>9, <1>10, <1>11, <1>12, <1>13, <1>14, <1>15 DEF IInv

LEMMA AdmitStep ==
  ASSUME IInv, TypeOK', NEW k \in Call, Admit(k)
  PROVE  IInv'
<1> USE ConstantsAssumption
<1>1. UNCHANGED <<userEvents, inbox, out, accepted, orphaned>> /\ pc[k] = "access"
  BY DEF Admit, managerVars, pipeVars, codexVars
<1>2. k \in Worker /\ ClientOf[k] \in Client
  BY DEF Worker
<1>3. CASE idem[ClientOf[k]] = "done" /\ Answer(k, resp[ClientOf[k]]) /\ UNCHANGED <<try, idem, resp>>
  <2>1. resp[ClientOf[k]] \in AcceptedFor(ClientOf[k])
    BY <1>2, <1>3 DEF IInv, RecordedAnswersTrue, AcceptedFor
  <2>2. CallsStay
    BY <1>2, <1>3 DEF IInv, TypeOK, CallsStay, Answer, Owning, Unsent, Worker
  <2>3. RowsStay
    BY <1>2, <1>3 DEF IInv, TypeOK, RowsOwned, RowsStay, Answer, Owning, Worker
  <2>4. ResultsStay
    BY <1>2, <1>3 DEF IInv, TypeOK, ResultsStay, Answer, Outcomes, Worker
  <2>5. AnswersStay
    BY <1>2, <1>3, <2>1 DEF IInv, TypeOK, AnswersStay, Answer, Worker
  <2> QED
    BY <1>1, <2>2, <2>3, <2>4, <2>5, LocalStep
<1>4. CASE AcceptedTurn(k) /\ UNCHANGED try
  BY <1>1, <1>4, AcceptedTurnStays, LocalStep
<1>5. CASE /\ idem[ClientOf[k]] = "none"
           /\ BeginIdempotent(ClientOf[k])
           /\ try' = [try EXCEPT ![k] = 1]
           /\ pc' = [pc EXCEPT ![k] = "input"]
           /\ UNCHANGED <<res, val>>
  BY <1>1, <1>5, BeginStep
<1> QED
  BY <1>3, <1>4, <1>5 DEF Admit

-----------------------------------------------------------------------------
(* A writer conflict moves its call to a second, fresh attempt; the calls  *)
(* in flight on every thread are rejected.                                 *)
LEMMA RestartStep ==
  ASSUME IInv, TypeOK', NEW k \in Call, Restart(k)
  PROVE  IInv'
<1> USE ConstantsAssumption, OwnTurns
<1>1. /\ pc[k] \in {"resume", "start"} /\ res[k] = "conflict" /\ try[k] = 1
      /\ pc'[k] = "restart" /\ try'[k] = 2
      /\ \A j \in Call \ {k} : pc'[j] = pc[j] /\ try'[j] = try[j]
      /\ UNCHANGED <<val, resp, userEvents, inbox, out, accepted, orphaned>>
      /\ \A j \in Call \ {k} : res'[j] = res[j] \/ res'[j] = "unavailable"
      /\ \A c \in Client : idem'[c] = idem[c] \/ (idem[c] = "pending" /\ idem'[c] = "uncertain")
  BY DEF Restart, AllRejected, Unavailable, MarkPendingUncertain, IInv, TypeOK, Worker, codexVars
<1>2. \A u \in OwnTurn : TurnClient(u) = ClientOf[k] => ~Possible(u)
  <2>1. SUFFICES ASSUME NEW u \in OwnTurn, TurnClient(u) = ClientOf[k], Possible(u) PROVE FALSE
    OBVIOUS
  <2>2. pc[k] = "start" /\ u[1] = k /\ u[2] = try[k]
    BY <1>1, <2>1 DEF IInv, OwnersTurn, Owning
  <2> QED
    BY <1>1, <2>1, <2>2 DEF IInv, RefusedNeverRuns
<1>3. /\ Lines' = Lines /\ Responses' = Responses
      /\ \A u \in OwnTurn : Possible(u)' <=> Possible(u)
  BY <1>1, OutSame DEF Possible, StartRequest
<1>4. RowsOwned'
  BY <1>1 DEF IInv, RowsOwned, Owning
<1>5. OneOwner'
  BY <1>1 DEF IInv, OneOwner, Owning
<1>6. FreshUnseen'
  <2>1. SUFFICES ASSUME NEW u \in OwnTurn, Fresh(u)' PROVE Fresh(u)
    BY <1>3 DEF IInv, FreshUnseen, StartRequest
  <2>2. CASE u[1] = k
    BY <1>1, <2>1, <2>2 DEF Fresh
  <2>3. CASE u[1] # k
    BY <1>1, <2>1, <2>3 DEF Fresh
  <2> QED
    BY <2>2, <2>3
<1>7. SentOnce'
  BY <1>1 DEF IInv, SentOnce, StartRequest
<1>8. OwnersTurn'
  BY <1>1, <1>2, <1>3 DEF IInv, OwnersTurn, TurnClient, Owning
<1>9. OneTurnPossible' /\ ReleasedNeverRuns'
  BY <1>1, <1>3 DEF IInv, OneTurnPossible, ReleasedNeverRuns, TurnClient
<1>10. RefusedNeverRuns'
  BY <1>1, <1>3 DEF IInv, RefusedNeverRuns, StartRequest
<1>11. LinesTrue' /\ StoredTrue'
  BY <1>1, <1>3, LinesFrame DEF IInv, StoredTrue
<1>12. ResultsTrue'
  BY <1>1 DEF IInv, ResultsTrue, AcceptedFor, TurnClient
<1>13. RecordedAnswersTrue'
  BY <1>1 DEF IInv, RecordedAnswersTrue, TurnClient
<1> QED
  BY <1>4, <1>5, <1>6, <1>7, <1>8, <1>9, <1>10, <1>11, <1>12, <1>13 DEF IInv

-----------------------------------------------------------------------------
(* The steps of the event loop: a line, an exit, a crash.                  *)
LEMMA DeliverResponseStep ==
  ASSUME IInv, TypeOK', DeliverResponse
  PROVE  IInv'
<1> USE ConstantsAssumption, OwnTurns
<1> DEFINE l == Head(out)
<1>1. /\ l \in Responses /\ Lines' \subseteq Lines /\ l \in Response
      /\ UNCHANGED <<pc, try, idem, resp, userEvents, inbox, accepted, orphaned>>
  <2>1. l \in Lines /\ l \in Line /\ Lines' \subseteq Lines
    BY OutTail DEF DeliverResponse, IInv, TypeOK
  <2> QED
    BY <2>1 DEF DeliverResponse, Responses, Line, Notice, storeVars, codexVars
<1>2. PipesStay /\ SentOnce'
  BY <1>1, PipesFrame
<1>3. CallsStay /\ RowsStay
  BY <1>1 DEF CallsStay, RowsStay, IInv, RowsOwned
<1>5. CASE ~Awaited(l.req)
  <2>1. UNCHANGED <<res, val>>
    BY <1>5 DEF DeliverResponse
  <2>2. ResultsStay /\ AnswersStay /\ StoredTrue'
    BY <1>1, <2>1 DEF ResultsStay, AnswersStay, IInv, StoredTrue
  <2> QED
    BY <1>1, <1>3, <2>2, FrameStep
<1>6. CASE Awaited(l.req)
  <2> DEFINE k == l.req.call
  <2>1. /\ k \in Worker /\ pc[k] = l.req.kind /\ res[k] = "pending" /\ try[k] = l.req.n
        /\ res' = [res EXCEPT ![k] = l.outcome] /\ val' = [val EXCEPT ![k] = l.turn]
        /\ l.outcome \in Outcomes
    BY <1>1, <1>6 DEF DeliverResponse, Awaited, Response, Request, StartRequests, Worker
  <2>2. \A j \in Worker : res'[j] = (IF j = k THEN l.outcome ELSE res[j])
                          /\ val'[j] = (IF j = k THEN l.turn ELSE val[j])
    BY <2>1 DEF IInv, TypeOK
  <2>3. RefusedNeverRuns'
    <3>1. \A u \in OwnTurn, m \in Responses' :
            m.req = StartRequest(u) /\ m.outcome # "ok" => ~Possible(u)'
      BY <1>1, <1>2 DEF IInv, RefusedNeverRuns, PipesStay, Responses
    <3>2. ASSUME NEW u \in OwnTurn, pc[u[1]] = "start", u[2] = try[u[1]],
                 res'[u[1]] \in {"conflict", "refused"}
          PROVE  ~Possible(u)
      <4>1. u[1] \in Worker
        BY DEF Worker
      <4>2. CASE u[1] = k
        <5>1. l.req = StartRequest(u)
          BY <1>1, <2>1, <3>2, <4>2 DEF Response, Request, StartRequests, StartRequest
        <5>2. l.outcome # "ok"
          BY <2>2, <3>2, <4>1, <4>2
        <5> QED
          BY <1>1, <5>1, <5>2 DEF IInv, RefusedNeverRuns
      <4>3. CASE u[1] # k
        BY <2>2, <3>2, <4>1, <4>3 DEF IInv, RefusedNeverRuns
      <4> QED
        BY <4>2, <4>3
    <3> QED
      BY <1>1, <1>2, <3>1, <3>2 DEF RefusedNeverRuns, StartRequest, PipesStay
  <2>4. ResultsTrue'
    <3>1. SUFFICES ASSUME NEW j \in Call
          PROVE  /\ pc[j] = "start" /\ res'[j] = "ok" =>
                      val'[j] = <<j, try[j]>> /\ val'[j] \in accepted
                 /\ pc[j] = "read" /\ res'[j] = "ok" =>
                      val'[j] \in AcceptedFor(ClientOf[j]) \cup {NoTurn}
      BY <1>1 DEF ResultsTrue, AcceptedFor, TurnClient
    <3>2. j \in Worker
      BY DEF Worker
    <3>3. CASE j = k
      BY <1>1, <2>1, <2>2, <3>2, <3>3 DEF IInv, LinesTrue
    <3>4. CASE j # k
      BY <2>2, <3>2, <3>4 DEF IInv, ResultsTrue
    <3> QED
      BY <3>3, <3>4
  <2>5. RecordedAnswersTrue'
    <3>1. \A j \in Call : pc[j] = "ok" => val'[j] = val[j]
      <4>1. l.req.kind \in Kinds
        BY <1>1 DEF Response, Request, StartRequests, Kinds
      <4> QED
        BY <2>1, <2>2, <4>1 DEF Worker, Kinds
    <3> QED
      BY <1>1, <3>1 DEF IInv, RecordedAnswersTrue, TurnClient
  <2>6. StoredTrue' /\ LinesTrue'
    BY <1>1, LinesFrame DEF IInv, StoredTrue
  <2> QED
    BY <1>2, <1>3, <2>3, <2>4, <2>5, <2>6, PhaseFrame DEF IInv
<1> QED
  BY <1>5, <1>6

LEMMA DeliverNoticeStep ==
  ASSUME IInv, TypeOK', DeliverNotice
  PROVE  IInv'
<1>1. /\ Head(out) \in Lines /\ Lines' \subseteq Lines
      /\ UNCHANGED <<pc, res, val, try, idem, resp, inbox, accepted, orphaned>>
  BY OutTail DEF DeliverNotice, IInv, TypeOK, callVars, codexVars
<1>2. StoredTrue'
  BY <1>1 DEF DeliverNotice, IInv, StoredTrue, LinesTrue
<1>3. CallsStay /\ RowsStay /\ ResultsStay /\ AnswersStay
  BY <1>1 DEF CallsStay, RowsStay, ResultsStay, AnswersStay, IInv, RowsOwned
<1> QED
  BY <1>1, <1>2, <1>3, FrameStep

LEMMA ProcessExitStep ==
  ASSUME IInv, TypeOK', ProcessExit
  PROVE  IInv'
<1> USE ConstantsAssumption
<1>1. /\ UNCHANGED <<pc, val, try, resp, userEvents, out, accepted, orphaned>>
      /\ inbox' = {}
      /\ \A j \in Call : res'[j] = res[j] \/ res'[j] = "unavailable"
      /\ \A c \in Client : idem'[c] = idem[c] \/ (idem[c] = "pending" /\ idem'[c] = "uncertain")
  BY DEF ProcessExit, AllRejected, Unavailable, MarkPendingUncertain, Worker
<1>2. CallsStay /\ RowsStay /\ ResultsStay /\ AnswersStay
  BY <1>1 DEF CallsStay, RowsStay, ResultsStay, AnswersStay, IInv, RowsOwned, Outcomes
<1>3. StoredTrue' /\ Lines' \subseteq Lines
  BY <1>1, OutSame DEF IInv, StoredTrue
<1> QED
  BY <1>1, <1>2, <1>3, FrameStep

LEMMA BridgeRestartStep ==
  ASSUME IInv, TypeOK', BridgeRestart
  PROVE  IInv'
<1> USE ConstantsAssumption, OwnTurns
<1>1. /\ UNCHANGED <<val, try, resp, userEvents, accepted>>
      /\ inbox' = {} /\ orphaned' = orphaned \cup {q \in inbox : q.kind = "start"}
      /\ \A j \in Call : res'[j] = "none" /\ pc'[j] = IF pc[j] \in Waits THEN "lost" ELSE pc[j]
      /\ \A c \in Client : idem'[c] = idem[c] \/ (idem[c] = "pending" /\ idem'[c] = "uncertain")
  BY DEF BridgeRestart, MarkPendingUncertain, Worker
<1>2. Lines' = {} /\ Responses' = {}
  BY DEF BridgeRestart, Lines, Responses
<1>3. PipesStay
  BY <1>1, <1>2 DEF PipesStay, Possible, StartRequest
<1>4. SentOnce'
  BY <1>1 DEF IInv, SentOnce, StartRequest
<1>5. CallsStay /\ RowsStay /\ ResultsStay /\ AnswersStay
  BY <1>1 DEF CallsStay, RowsStay, ResultsStay, AnswersStay, IInv, RowsOwned, Outcomes,
       Owning, Unsent, Waits, Kinds
<1>6. StoredTrue'
  BY <1>1 DEF IInv, StoredTrue
<1> QED
  BY <1>1, <1>2, <1>3, <1>4, <1>5, <1>6,
     PhaseFrame, ResultsFrame, RefusedFrame, LinesFrame, AnswersFrame DEF IInv

-----------------------------------------------------------------------------
(* The steps of the app-server: nothing of the bridge changes, and a new   *)
(* response answers a request that was in the inbox.                       *)
CodexOnly == UNCHANGED <<pc, res, val, try, idem, resp, userEvents>>

LEMMA CodexFrame ==
  ASSUME IInv, TypeOK', CodexOnly, PipesStay, SentOnce', LinesTrue',
         \A u \in OwnTurn, l \in Responses' \ Responses :
           l.req = StartRequest(u) /\ l.outcome # "ok" => ~Possible(u)'
  PROVE  IInv'
<1> USE OwnTurns
<1>1. CallsStay /\ RowsStay /\ ResultsStay /\ AnswersStay
  BY DEF CodexOnly, CallsStay, RowsStay, ResultsStay, AnswersStay, IInv, RowsOwned
<1>2. accepted \subseteq accepted'
  BY DEF PipesStay
<1>3. StoredTrue'
  BY <1>2 DEF CodexOnly, IInv, StoredTrue
<1>4. RefusedNeverRuns'
  <2>1. ASSUME NEW u \in OwnTurn, NEW l \in Responses',
               l.req = StartRequest(u), l.outcome # "ok"
        PROVE  ~Possible(u)'
    BY <2>1 DEF IInv, RefusedNeverRuns, PipesStay
  <2>2. ASSUME NEW u \in OwnTurn, pc[u[1]] = "start", u[2] = try[u[1]],
               res[u[1]] \in {"conflict", "refused"}
        PROVE  ~Possible(u)'
    BY <2>2 DEF IInv, RefusedNeverRuns, PipesStay
  <2> QED
    BY <2>1, <2>2 DEF RefusedNeverRuns, StartRequest, CodexOnly
<1> QED
  BY <1>1, <1>2, <1>3, <1>4, PhaseFrame, ResultsFrame, AnswersFrame DEF IInv

(* A request other than turn/start is answered.                            *)
LEMMA CodexAnswers ==
  ASSUME IInv, TypeOK', CodexOnly, NEW q \in inbox, q.kind # "start",
         inbox' = inbox \ {q}, UNCHANGED <<accepted, orphaned>>,
         NEW l, l.type = "response", l.req = q,
         q.kind = "read" /\ q.call \in Call /\ l.outcome = "ok"
           => l.turn \in AcceptedFor(ClientOf[q.call]) \cup {NoTurn},
         \A m \in Lines' : m \in Lines \/ m = l \/ m.type = "turn_completed"
  PROVE  IInv'
<1>1. \A m \in Responses' : m \in Responses \/ m = l
  BY DEF Responses
<1>2. PipesStay
  BY <1>1 DEF PipesStay, Possible, StartRequest
<1>3. SentOnce'
  BY DEF IInv, SentOnce, StartRequest
<1>4. LinesTrue'
  BY <1>1 DEF IInv, LinesTrue, AcceptedFor, TurnClient
<1>5. \A u \in OwnTurn : q # StartRequest(u)
  BY DEF StartRequest
<1> QED
  BY <1>1, <1>2, <1>3, <1>4, <1>5, CodexFrame

LEMMA CodexAnswerSteps ==
  ASSUME IInv, TypeOK', NEW q \in inbox,
         \/ CodexResumes(q) \/ CodexReads(q) \/ CodexInterrupts(q)
         \/ q.kind # "start" /\ \E o \in Errors \cap Outcomes : CodexRefuses(q, o)
  PROVE  IInv'
<1> USE DEF callVars, storeVars, codexVars
<1>1. q \in Request
  BY DEF IInv, TypeOK
<1>2. CASE CodexResumes(q)
  <2>1. Reply(q, "ok", NoTurn) \in Line
    BY <1>1, LineTypes DEF IInv, Outcomes
  <2>2. Lines' = Lines \cup {Reply(q, "ok", NoTurn)}
    BY <1>2, <2>1, OutAppend DEF CodexResumes, IInv, TypeOK
  <2> QED
    BY <1>2, <2>2, CodexAnswers DEF CodexResumes, CodexOnly, Reply
<1>3. CASE CodexReads(q)
  <2>1. PICK u \in IF Shown(q.call) = {} THEN {NoTurn} ELSE Shown(q.call) :
          out' = Append(out, Reply(q, "ok", u))
    BY <1>3 DEF CodexReads
  <2>2. u \in Turn \cup {NoTurn}
    BY <2>1 DEF IInv, TypeOK, Shown, Turn
  <2>3. Reply(q, "ok", u) \in Line
    BY <1>1, <2>2, LineTypes DEF IInv, Outcomes
  <2>4. Lines' = Lines \cup {Reply(q, "ok", u)}
    BY <2>1, <2>3, OutAppend DEF IInv, TypeOK
  <2>5. q.call \in Call => u \in AcceptedFor(ClientOf[q.call]) \cup {NoTurn}
    BY <2>1 DEF Shown, IInv, TypeOK, AcceptedFor
  <2> QED
    BY <1>3, <2>4, <2>5, CodexAnswers DEF CodexReads, CodexOnly, Reply
<1>4. CASE CodexInterrupts(q)
  <2> DEFINE u == val[q.call]
  <2>1. u \in OwnTurn
    BY <1>4 DEF CodexInterrupts, IInv, TypeOK
  <2>2. Reply(q, "ok", u) \in Line /\ Note("turn_completed", u) \in Line
    BY <1>1, <2>1, LineTypes DEF IInv, Outcomes, Turn
  <2>3. Lines' = Lines \cup {Reply(q, "ok", u), Note("turn_completed", u)}
    BY <1>4, <2>2, OutAppendTwo DEF CodexInterrupts, IInv, TypeOK
  <2> DEFINE l == Reply(q, "ok", u)
             m == Note("turn_completed", u)
  <2>4. l.type = "response" /\ l.req = q /\ m.type = "turn_completed" /\ Lines' = Lines \cup {l, m}
    BY <2>3 DEF Reply, Note
  <2>5. /\ q.kind = "interrupt" /\ inbox' = inbox \ {q} /\ CodexOnly
        /\ UNCHANGED <<accepted, orphaned>>
    BY <1>4 DEF CodexInterrupts, CodexOnly
  <2> HIDE DEF l, m
  <2> QED
    BY <2>4, <2>5, CodexAnswers
<1>5. CASE q.kind # "start" /\ \E o \in Errors \cap Outcomes : CodexRefuses(q, o)
  <2>1. PICK o \in Errors \cap Outcomes : CodexRefuses(q, o)
    BY <1>5
  <2>2. Reply(q, o, NoTurn) \in Line
    BY <1>1, LineTypes DEF IInv
  <2>3. Lines' = Lines \cup {Reply(q, o, NoTurn)}
    BY <2>1, <2>2, OutAppend DEF CodexRefuses, IInv, TypeOK
  <2>4. o # "ok"
    BY DEF Errors
  <2> QED
    BY <1>5, <2>1, <2>3, <2>4, CodexAnswers DEF CodexRefuses, CodexOnly, Reply
<1> QED
  BY <1>2, <1>3, <1>4, <1>5

LEMMA CodexRefusesStart ==
  ASSUME IInv, TypeOK', NEW q \in inbox, q.kind = "start",
         NEW o \in Errors \cap Outcomes, CodexRefuses(q, o)
  PROVE  IInv'
<1> USE OwnTurns DEF callVars, storeVars, codexVars
<1> DEFINE w == <<q.call, q.n>>
           l == Reply(q, o, NoTurn)
<1>1. w \in OwnTurn /\ q = StartRequest(w) /\ q \in Request
  BY DEF IInv, TypeOK, Request, StartRequests, OwnTurn, StartRequest
<1>2. l \in Line /\ l.type = "response" /\ l.req = q /\ l.outcome # "ok"
  BY <1>1, LineTypes DEF IInv, Reply, Errors
<1>3. Lines' = Lines \cup {l}
  BY <1>2, OutAppend DEF CodexRefuses, IInv, TypeOK
<1>4. Responses' = Responses \cup {l}
  BY <1>2, <1>3 DEF Responses
<1>5. inbox' = inbox \ {q} /\ UNCHANGED <<accepted, orphaned>> /\ CodexOnly
  BY DEF CodexRefuses, CodexOnly
<1>6. PipesStay /\ ~Possible(w)'
  <2>1. w \notin accepted /\ StartRequest(w) \notin orphaned
    BY <1>1 DEF IInv, SentOnce
  <2> QED
    BY <1>1, <1>2, <1>4, <1>5, <2>1 DEF PipesStay, Possible, StartRequest
<1>7. SentOnce'
  BY <1>5 DEF IInv, SentOnce, StartRequest
<1>8. LinesTrue'
  BY <1>2, <1>3, <1>4, <1>5 DEF IInv, LinesTrue, AcceptedFor, TurnClient
<1>9. \A u \in OwnTurn, m \in Responses' \ Responses :
        m.req = StartRequest(u) /\ m.outcome # "ok" => ~Possible(u)'
  BY <1>1, <1>2, <1>4, <1>6
<1> QED
  BY <1>5, <1>6, <1>7, <1>8, <1>9, CodexFrame

LEMMA CodexStartsStep ==
  ASSUME IInv, TypeOK', NEW q \in inbox, CodexStarts(q)
  PROVE  IInv'
<1> USE OwnTurns DEF callVars, storeVars
<1> DEFINE w == <<q.call, q.n>>
           l == Reply(q, "ok", w)
           m == Note("turn_started", w)
<1>1. w \in OwnTurn /\ q = StartRequest(w) /\ q \in Request
  BY DEF IInv, TypeOK, CodexStarts, Request, StartRequests, OwnTurn, StartRequest
<1>2. /\ l \in Line /\ l.type = "response" /\ l.req = q /\ l.outcome = "ok" /\ l.turn = w
      /\ m \in Line /\ m.type = "turn_started"
  BY <1>1, LineTypes DEF IInv, Reply, Note, Outcomes, Turn
<1>3. Lines' = Lines \cup {l, m}
  <2>1. out \in Seq(Line)
    BY DEF IInv, TypeOK
  <2> HIDE DEF l, m
  <2>2. CASE out' = out \o <<l, m>>
    BY <1>2, <2>1, <2>2, OutAppendTwo
  <2>3. CASE out' = out \o <<m, l>>
    BY <1>2, <2>1, <2>3, OutAppendTwo
  <2> QED
    BY <2>2, <2>3 DEF CodexStarts, l, m, w
<1>4. Responses' = Responses \cup {l}
  BY <1>2, <1>3 DEF Responses
<1>5. inbox' = inbox \ {q} /\ accepted' = accepted \cup {w} /\ UNCHANGED orphaned /\ CodexOnly
  BY DEF CodexStarts, CodexOnly
<1>6. PipesStay
  BY <1>1, <1>2, <1>4, <1>5 DEF PipesStay, Possible, StartRequest
<1>7. SentOnce'
  BY <1>1, <1>5 DEF IInv, SentOnce, StartRequest
<1>8. LinesTrue'
  <2>1. q.kind = "start" /\ q.call = w[1] /\ q.n = w[2]
    BY DEF CodexStarts
  <2> QED
    BY <1>2, <1>3, <1>4, <1>5, <2>1 DEF IInv, LinesTrue, AcceptedFor, TurnClient
<1> QED
  BY <1>2, <1>4, <1>5, <1>6, <1>7, <1>8, CodexFrame

LEMMA CodexNotes ==
  ASSUME IInv, TypeOK', NEW u \in running, CodexRecords(u) \/ CodexCompletes(u)
  PROVE  IInv'
<1> USE DEF callVars, storeVars
<1> DEFINE NewLines == {Note("user_message", u), Note("turn_completed", u)}
<1>1. UNCHANGED <<inbox, accepted, orphaned>> /\ CodexOnly
  BY DEF CodexRecords, CodexCompletes, CodexOnly
<1>2. u \in accepted /\ u \in OwnTurn
  BY DEF IInv, TypeOK
<1>3. NewLines \subseteq Line
  BY <1>2, LineTypes DEF IInv
<1>4. Lines' \subseteq Lines \cup NewLines
  BY <1>3, OutAppend DEF CodexRecords, CodexCompletes, IInv, TypeOK
<1>5. \A l \in NewLines : l.type # "response" /\ l.turn = u
  BY DEF Note
<1>6. Responses' \subseteq Responses
  BY <1>4, <1>5 DEF Responses
<1>7. PipesStay /\ SentOnce'
  BY <1>1, <1>6 DEF PipesStay, Possible, StartRequest, IInv, SentOnce
<1>8. LinesTrue'
  BY <1>1, <1>2, <1>4, <1>5, <1>6 DEF IInv, LinesTrue, AcceptedFor, TurnClient
<1> QED
  BY <1>1, <1>6, <1>7, <1>8, CodexFrame

LEMMA OrphanStartsStep ==
  ASSUME IInv, TypeOK', NEW q \in orphaned, OrphanStarts(q)
  PROVE  IInv'
<1> USE OwnTurns DEF callVars, storeVars, pipeVars
<1> DEFINE w == <<q.call, q.n>>
<1>1. w \in OwnTurn /\ q = StartRequest(w)
  BY DEF IInv, TypeOK, StartRequests, OwnTurn, StartRequest
<1>2. /\ orphaned' = orphaned \ {q} /\ accepted' = accepted \cup {w}
      /\ UNCHANGED <<inbox, out>> /\ CodexOnly
  BY DEF OrphanStarts, CodexOnly
<1>3. Lines' = Lines /\ Responses' = Responses
  BY <1>2, OutSame
<1>4. PipesStay
  BY <1>1, <1>2, <1>3 DEF PipesStay, Possible, StartRequest
<1>5. SentOnce'
  BY <1>1, <1>2 DEF IInv, SentOnce, StartRequest
<1>6. LinesTrue'
  BY <1>3, <1>4, LinesFrame DEF PipesStay
<1> QED
  BY <1>2, <1>3, <1>4, <1>5, <1>6, CodexFrame

LEMMA CodexStep ==
  ASSUME IInv, TypeOK', Codex
  PROVE  IInv'
<1>1. ASSUME NEW q \in inbox, NEW o \in Errors, o \in Outcomes, CodexRefuses(q, o)
      PROVE  IInv'
  BY <1>1, CodexAnswerSteps, CodexRefusesStart
<1>2. ASSUME NEW u \in foreign, ForeignEnds(u) PROVE IInv'
  <2>1. CodexOnly /\ UNCHANGED <<inbox, out, accepted, orphaned>>
    BY <1>2 DEF ForeignEnds, CodexOnly, callVars, storeVars, pipeVars
  <2>2. Lines' = Lines /\ Responses' = Responses
    BY <2>1, OutSame
  <2>3. PipesStay /\ SentOnce' /\ LinesTrue'
    BY <2>1, <2>2, PipesFrame, LinesFrame DEF PipesStay
  <2> QED
    BY <2>1, <2>2, <2>3, CodexFrame
<1> QED
  BY <1>1, <1>2, CodexAnswerSteps, CodexStartsStep, CodexNotes, OrphanStartsStep DEF Codex

-----------------------------------------------------------------------------
LEMMA IInvInit ==
  ASSUME Init
  PROVE  IInv
<1> USE ConstantsAssumption, OwnTurns DEF Init
<1>1. Lines = {} /\ Responses = {} /\ \A u \in OwnTurn : ~Possible(u)
  BY DEF Lines, Responses, Possible
<1>2. TypeOK
  BY DEF TypeOK, Turn, ForeignTurn
<1>3. RowsOwned /\ OneOwner
  BY DEF RowsOwned, OneOwner, Owning, Worker
<1>4. FreshUnseen /\ SentOnce /\ OwnersTurn /\ OneTurnPossible /\ ReleasedNeverRuns
  BY <1>1 DEF FreshUnseen, SentOnce, OwnersTurn, OneTurnPossible, ReleasedNeverRuns
<1>5. RefusedNeverRuns /\ LinesTrue
  BY <1>1 DEF RefusedNeverRuns, LinesTrue
<1>6. ResultsTrue /\ StoredTrue /\ RecordedAnswersTrue
  BY DEF ResultsTrue, StoredTrue, RecordedAnswersTrue, Worker
<1> QED
  BY <1>2, <1>3, <1>4, <1>5, <1>6 DEF IInv

LEMMA IInvNext ==
  ASSUME IInv, [Next]_vars
  PROVE  IInv'
<1>1. CASE Next
  <2>1. TypeOK'
    BY <1>1, TypeStep DEF IInv
  <2> USE <2>1
  <2>2. ASSUME NEW k \in Call, MessageStep(k) PROVE IInv'
    <3>1. k \in Worker
      BY DEF Worker
    <3> QED
      BY <2>2, <3>1, AdmitStep, RefuseInputStep, LocalSteps, ConnectedStep, ReplySteps,
         RestartStep, RejectedStep, OtherSendSteps DEF MessageStep
  <2>3. ASSUME NEW i \in Cancel, CancelStep(i) PROVE IInv'
    <3>1. i \in Worker
      BY DEF Worker
    <3> QED
      BY <2>3, <3>1, LocalSteps, OtherSendSteps DEF CancelStep
  <2>4. ASSUME NEW k \in Worker, Arrive(k) \/ Deny(k) \/ Step(k) \/ Timeout(k) PROVE IInv'
    BY <2>2, <2>3, <2>4, LocalSteps DEF Step
  <2>5. ASSUME Initialized \/ \E o \in {"timeout", "refused"} : InitializeFails(o) PROVE IInv'
    <3>1. CallsStay /\ RowsStay /\ ResultsStay /\ AnswersStay
      BY <2>5 DEF Initialized, InitializeFails, SettleReady, CallsStay, RowsStay, ResultsStay,
           AnswersStay, IInv, RowsOwned, Outcomes, Worker, storeVars
    <3> QED
      BY <2>5, <3>1, LocalStep DEF Initialized, InitializeFails, storeVars, pipeVars, codexVars
  <2> QED
    BY <1>1, <2>4, <2>5, DeliverResponseStep, DeliverNoticeStep, ProcessExitStep,
       BridgeRestartStep, CodexStep DEF Next
<1>2. CASE UNCHANGED vars
  <2> USE <1>2 DEF vars, callVars, storeVars, managerVars, pipeVars, codexVars, budgetVars
  <2>1. TypeOK'
    BY DEF IInv, TypeOK
  <2>2. CallsStay /\ RowsStay /\ ResultsStay /\ AnswersStay
    BY DEF CallsStay, RowsStay, ResultsStay, AnswersStay, IInv, RowsOwned
  <2> QED
    BY <2>1, <2>2, LocalStep
<1> QED
  BY <1>1, <1>2

(* The types of TurnBridge hold in every reachable state.                  *)
THEOREM TypeCorrect == Spec => []TypeOK
<1>1. Spec => []IInv
  BY IInvInit, IInvNext, PTL DEF Spec
<1>2. IInv => TypeOK
  BY DEF IInv
<1> QED
  BY <1>1, <1>2, PTL

(* However often a client_id is posted, whatever times out, exits,         *)
(* restarts or is answered late, Codex starts at most one turn for it:     *)
(* SessionService.message over the idempotency table, for any number of    *)
(* clients, calls, threads, exits and restarts.                            *)
THEOREM MessageAtMostOnce == Spec => []AtMostOnce
<1>1. Spec => []IInv
  BY IInvInit, IInvNext, PTL DEF Spec
<1>2. IInv => AtMostOnce
  BY DEF IInv, TypeOK, OneTurnPossible, AtMostOnce, Possible
<1> QED
  BY <1>1, <1>2, PTL

(* A row that failIdempotent deleted, or that was never inserted, stands   *)
(* for a message that Codex has not started and cannot start any more.     *)
THEOREM ReleaseIsSafe == Spec => []ReleasedNeverRuns
<1>1. Spec => []IInv
  BY IInvInit, IInvNext, PTL DEF Spec
<1>2. IInv => ReleasedNeverRuns
  BY DEF IInv
<1> QED
  BY <1>1, <1>2, PTL

(* What the table records and what callers are told names a turn that      *)
(* Codex started for the same client_id.                                   *)
THEOREM AnswersAreTrue == Spec => []RecordedAnswersTrue
<1>1. Spec => []IInv
  BY IInvInit, IInvNext, PTL DEF Spec
<1>2. IInv => RecordedAnswersTrue
  BY DEF IInv
<1> QED
  BY <1>1, <1>2, PTL

-----------------------------------------------------------------------------
(* A done row is only ever finished again or deleted, never reopened.      *)
LEMMA DoneRowMoves ==
  ASSUME IInv, Next, NEW c \in Client, idem[c] = "done"
  PROVE  idem'[c] \in {"none", "done"}
<1> USE ConstantsAssumption DEF IInv, TypeOK, storeVars
<1>1. ASSUME NEW k \in Call, MessageStep(k) PROVE idem'[c] \in {"none", "done"}
  <2>1. CASE Admit(k)
    BY <2>1 DEF Admit, AcceptedTurn, BeginIdempotent, FinishIdempotent
  <2>2. CASE RefuseInput(k) \/ Rejected(k)
    BY <2>2 DEF RefuseInput, Rejected, Reject, FailIdempotent
  <2>3. CASE Connected(k) \/ Resumed(k)
    BY <2>3 DEF Connected, Resumed, StartTurn, Reject, FailIdempotent
  <2>4. CASE Started(k) \/ Unknown(k) \/ Found(k)
    BY <2>4 DEF Started, Unknown, Found, AcceptedTurn, FinishIdempotent
  <2>5. CASE Restart(k) \/ Unresolved(k)
    BY <2>5 DEF Restart, Unresolved, Unavailable, MarkPendingUncertain
  <2>6. CASE Enqueue(k) \/ Begin(k) \/ Restarted(k) \/ LookUp(k)
    BY <2>6 DEF Enqueue, Begin, Restarted, LookUp
  <2> QED
    BY <1>1, <2>1, <2>2, <2>3, <2>4, <2>5, <2>6 DEF MessageStep
<1>2. ASSUME NEW i \in Cancel, CancelStep(i) PROVE UNCHANGED idem
  BY <1>2 DEF CancelStep, AdmitCancel, Interrupt, LookUp, InterruptFound, Interrupted
<1>3. ASSUME NEW k \in Worker, Arrive(k) \/ Deny(k) \/ Ready(k) \/ Timeout(k)
      PROVE  UNCHANGED idem
  BY <1>3 DEF Arrive, Deny, Ready, Timeout
<1>4. CASE Initialized \/ \E o \in {"timeout", "refused"} : InitializeFails(o)
  BY <1>4 DEF Initialized, InitializeFails
<1>5. CASE DeliverResponse \/ DeliverNotice
  BY <1>5 DEF DeliverResponse, DeliverNotice
<1>6. CASE ProcessExit \/ BridgeRestart
  BY <1>6 DEF ProcessExit, BridgeRestart, Unavailable, MarkPendingUncertain
<1>7. CASE Codex
  BY <1>7 DEF Codex, CodexRefuses, CodexResumes, CodexStarts, CodexReads, CodexInterrupts,
       CodexRecords, CodexCompletes, OrphanStarts, ForeignEnds
<1> QED
  BY <1>1, <1>2, <1>3, <1>4, <1>5, <1>6, <1>7 DEF Next, Step

LEMMA AcceptedGrows ==
  ASSUME Next
  PROVE  accepted \subseteq accepted'
<1> USE DEF codexVars
<1>1. ASSUME NEW k \in Worker, Arrive(k) \/ Deny(k) \/ Step(k) \/ Timeout(k)
      PROVE  UNCHANGED accepted
  BY <1>1 DEF Arrive, Deny, Timeout, Step, Ready, MessageStep, Admit, RefuseInput, Enqueue, Begin,
       Connected, Resumed, Started, Restart, Restarted, Rejected, Unknown, LookUp, Found,
       Unresolved, CancelStep, AdmitCancel, Interrupt, InterruptFound, Interrupted
<1>2. CASE Codex
  BY <1>2 DEF Codex, CodexRefuses, CodexResumes, CodexStarts, CodexReads, CodexInterrupts,
       CodexRecords, CodexCompletes, OrphanStarts, ForeignEnds
<1>3. CASE \/ Initialized \/ \E o \in {"timeout", "refused"} : InitializeFails(o)
           \/ DeliverResponse \/ DeliverNotice \/ ProcessExit \/ BridgeRestart
  BY <1>3 DEF Initialized, InitializeFails, DeliverResponse, DeliverNotice, ProcessExit,
       BridgeRestart
<1> QED
  BY <1>1, <1>2, <1>3 DEF Next

(* A recorded response is never lost or changed, by a slower owner of the  *)
(* row, by a retry that finds the turn, or by a restart.                   *)
THEOREM RecordedIsFinal == Spec => DoneIsFinal
<1>1. ASSUME IInv, IInv', Next, NEW c \in Client, idem[c] = "done"
      PROVE  idem'[c] = "done" /\ resp'[c] = resp[c]
  <2>1. resp[c] \in accepted' /\ resp[c] \in OwnTurn /\ TurnClient(resp[c]) = c
    BY <1>1, AcceptedGrows DEF IInv, TypeOK, RecordedAnswersTrue
  <2>2. idem'[c] = "done"
    BY <1>1, <2>1, DoneRowMoves DEF IInv, ReleasedNeverRuns, Possible, TurnClient
  <2>3. resp'[c] \in accepted' /\ resp'[c] \in OwnTurn /\ TurnClient(resp'[c]) = c
    BY <1>1, <2>2 DEF IInv, TypeOK, RecordedAnswersTrue, TurnClient
  <2>4. resp'[c] = resp[c]
    BY <1>1, <2>1, <2>3 DEF IInv, OneTurnPossible, Possible, TurnClient
  <2> QED
    BY <2>2, <2>4
<1>2. IInv /\ IInv' /\ [Next]_vars =>
        [\A c \in Client : idem[c] = "done" => idem'[c] = "done" /\ resp'[c] = resp[c]]_<<idem, resp>>
  BY <1>1 DEF vars, storeVars
<1>3. Spec => []IInv
  BY IInvInit, IInvNext, PTL DEF Spec
<1> QED
  BY <1>2, <1>3, PTL DEF Spec, DoneIsFinal

-----------------------------------------------------------------------------
(* TurnBridge implements MessageOnce.  A call that waits has been told     *)
(* nothing.                                                                *)
Busy == {"idle"} \cup Waits

SameRows == \A c \in Client : idem'[c] = "none" <=> idem[c] = "none"

(* The calls of S end, the others are told nothing new.                    *)
SilentBut(S) ==
  \A j \in Call \ S :
    \/ pc'[j] = pc[j] /\ val'[j] = val[j]
    \/ pc[j] \in Busy /\ pc'[j] \in Busy

LEMMA BusySilent ==
  ASSUME NEW k \in Call
  PROVE  /\ pc[k] \in Busy => AnswerOf(k) = Once!Silent
         /\ pc'[k] \in Busy => AnswerOf(k)' = Once!Silent
BY DEF AnswerOf, Busy, Waits, Kinds, Once!Silent

LEMMA SilentAnswers ==
  ASSUME NEW S, SilentBut(S)
  PROVE  \A j \in Call \ S : AnswerOf(j)' = AnswerOf(j)
<1>1. SUFFICES ASSUME NEW j \in Call \ S PROVE AnswerOf(j)' = AnswerOf(j)
  OBVIOUS
<1>2. CASE pc'[j] = pc[j] /\ val'[j] = val[j]
  BY <1>2 DEF AnswerOf
<1>3. CASE pc[j] \in Busy /\ pc'[j] \in Busy
  BY <1>3, BusySilent
<1> QED
  BY <1>2, <1>3 DEF SilentBut

LEMMA OnceStutters ==
  ASSUME SameRows, SilentBut({}), UNCHANGED accepted
  PROVE  UNCHANGED Once!onceVars
<1>1. OpenKeys' = OpenKeys
  BY DEF OpenKeys, SameRows
<1>2. AnswersGiven' = AnswersGiven
  BY SilentAnswers DEF AnswersGiven
<1> QED
  BY <1>1, <1>2 DEF Once!onceVars

LEMMA OnceTells ==
  ASSUME NEW k \in Call, NEW u \in AcceptedFor(ClientOf[k]), accepted \subseteq OwnTurn,
         pc[k] \in Busy, pc'[k] = "ok", val'[k] = u,
         SameRows, SilentBut({k}), UNCHANGED accepted
  PROVE  Once!Next
<1>1. OpenKeys' = OpenKeys
  BY DEF OpenKeys, SameRows
<1>2. AnswersGiven[k] = Once!Silent
  BY BusySilent DEF AnswersGiven
<1>3. AnswersGiven' = [AnswersGiven EXCEPT ![k] = [told |-> "turn", turn |-> u]]
  <2>1. AnswerOf(k)' = [told |-> "turn", turn |-> u]
    BY DEF AnswerOf
  <2>2. \A j \in Call \ {k} : AnswerOf(j)' = AnswerOf(j)
    BY SilentAnswers
  <2> QED
    BY <2>1, <2>2 DEF AnswersGiven
<1>4. u \in OwnTurn /\ u \in Once!TurnsOf(ClientOf[k])
  BY DEF AcceptedFor, Once!TurnsOf
<1> QED
  BY <1>1, <1>2, <1>3, <1>4 DEF Once!Next, Once!TellTurn

LEMMA OnceRefuses ==
  ASSUME NEW k \in Call, accepted \subseteq OwnTurn,
         \A u \in OwnTurn : TurnClient(u) = ClientOf[k] => ~Possible(u),
         pc[k] \in Busy, pc'[k] \in {"refused", "busy"},
         idem \in [Client -> {"none", "pending", "uncertain", "done"}],
         FailIdempotent(ClientOf[k]), SilentBut({k}), UNCHANGED accepted
  PROVE  Once!Next
<1>1. OpenKeys' = OpenKeys \ {ClientOf[k]}
  BY ConstantsAssumption DEF OpenKeys, FailIdempotent
<1>2. AnswersGiven[k] = Once!Silent
  BY BusySilent DEF AnswersGiven
<1>3. AnswersGiven' = [AnswersGiven EXCEPT ![k] = Once!NotStarted]
  <2>1. AnswerOf(k)' = Once!NotStarted
    BY DEF AnswerOf, Once!NotStarted
  <2>2. \A j \in Call \ {k} : AnswerOf(j)' = AnswerOf(j)
    BY SilentAnswers
  <2> QED
    BY <2>1, <2>2 DEF AnswersGiven
<1>4. Once!TurnsOf(ClientOf[k]) = {}
  BY DEF Once!TurnsOf, Possible
<1> QED
  BY <1>1, <1>2, <1>3, <1>4 DEF Once!Next, Once!Refuse

LEMMA OnceGivesUp ==
  ASSUME NEW S \in SUBSET Call,
         \A k \in S : pc[k] \in Busy /\ pc'[k] \in {"denied", "uncertain", "failed", "lost"},
         SameRows, SilentBut(S), UNCHANGED accepted
  PROVE  Once!Next
<1>1. OpenKeys' = OpenKeys
  BY DEF OpenKeys, SameRows
<1>2. \A k \in S : AnswersGiven[k] = Once!Silent
  BY BusySilent DEF AnswersGiven
<1>3. AnswersGiven' = [k \in Call |-> IF k \in S THEN Once!Unsure ELSE AnswersGiven[k]]
  <2>1. \A k \in S : AnswerOf(k)' = Once!Unsure
    BY DEF AnswerOf, Once!Unsure
  <2>2. \A j \in Call \ S : AnswerOf(j)' = AnswerOf(j)
    BY SilentAnswers
  <2> QED
    BY <2>1, <2>2 DEF AnswersGiven
<1> QED
  BY <1>1, <1>2, <1>3 DEF Once!Next, Once!GiveUp

LEMMA OnceStarts ==
  ASSUME IInv, NEW u \in OwnTurn, u \notin accepted, Possible(u),
         accepted' = accepted \cup {u}, UNCHANGED <<pc, val, idem>>
  PROVE  Once!Next
<1>1. OpenKeys' = OpenKeys
  BY DEF OpenKeys
<1>2. AnswersGiven' = AnswersGiven
  BY DEF AnswersGiven, AnswerOf
<1>3. TurnClient(u) \in OpenKeys
  BY OwnTurns DEF IInv, ReleasedNeverRuns, OpenKeys
<1>4. Once!TurnsOf(TurnClient(u)) = {}
  <2>1. ASSUME NEW w \in accepted, TurnClient(w) = TurnClient(u) PROVE FALSE
    BY <2>1 DEF IInv, TypeOK, OneTurnPossible, Possible
  <2> QED
    BY <2>1 DEF Once!TurnsOf, IInv, TypeOK
<1> QED
  BY <1>1, <1>2, <1>3, <1>4 DEF Once!Next, Once!Start

(* Each step of the bridge is a step of MessageOnce or none.               *)
LEMMA OnceAccepted ==
  ASSUME IInv, NEW k \in Call, pc[k] \in Busy, AcceptedTurn(k), UNCHANGED accepted
  PROVE  Once!Next \/ UNCHANGED Once!onceVars
<1> USE ConstantsAssumption
<1>1. k \in Worker /\ ClientOf[k] \in Client
  BY DEF Worker
<1>2. ASSUME NEW u \in StoredTurn(ClientOf[k]), FinishIdempotent(ClientOf[k], u), Answer(k, u)
      PROVE  Once!Next
  <2>1. u \in AcceptedFor(ClientOf[k])
    BY <1>1, KnownTurn
  <2>2. pc'[k] = "ok" /\ val'[k] = u /\ SilentBut({k})
    BY <1>1, <1>2 DEF Answer, SilentBut, IInv, TypeOK, Worker
  <2>3. SameRows /\ accepted \subseteq OwnTurn
    BY <1>1, <1>2 DEF SameRows, FinishIdempotent, IInv, TypeOK
  <2> QED
    BY <2>1, <2>2, <2>3, OnceTells
<1>3. ASSUME pc' = [pc EXCEPT ![k] = "lookup"], UNCHANGED <<val, idem, resp>>
      PROVE  UNCHANGED Once!onceVars
  BY <1>1, <1>3, OnceStutters DEF SameRows, SilentBut, IInv, TypeOK, Worker, Busy, Waits
<1> QED
  BY <1>2, <1>3 DEF AcceptedTurn

LEMMA OnceMessage ==
  ASSUME IInv, NEW k \in Call, MessageStep(k)
  PROVE  Once!Next \/ UNCHANGED Once!onceVars
<1> USE ConstantsAssumption DEF codexVars
<1>1. k \in Worker /\ ClientOf[k] \in Client /\ accepted \subseteq OwnTurn
  BY DEF Worker, IInv, TypeOK
<1>2. CASE Admit(k)
  <2>1. pc[k] \in Busy /\ UNCHANGED accepted
    BY <1>2 DEF Admit, Busy, Waits
  <2>2. CASE idem[ClientOf[k]] = "done" /\ Answer(k, resp[ClientOf[k]]) /\ UNCHANGED <<try, idem, resp>>
    <3>1. resp[ClientOf[k]] \in AcceptedFor(ClientOf[k])
      BY <1>1, <2>2 DEF IInv, RecordedAnswersTrue, AcceptedFor
    <3>2. pc'[k] = "ok" /\ val'[k] = resp[ClientOf[k]] /\ SilentBut({k}) /\ SameRows
      BY <1>1, <2>2 DEF Answer, SilentBut, SameRows, IInv, TypeOK, Worker
    <3> QED
      BY <1>1, <2>1, <3>1, <3>2, OnceTells
  <2>3. CASE AcceptedTurn(k)
    BY <2>1, <2>3, OnceAccepted
  <2>4. CASE /\ BeginIdempotent(ClientOf[k])
             /\ pc' = [pc EXCEPT ![k] = "input"]
             /\ UNCHANGED val
    <3>1. OpenKeys' = OpenKeys \cup {ClientOf[k]}
      BY <1>1, <2>4 DEF OpenKeys, BeginIdempotent, IInv, TypeOK
    <3>2. AnswersGiven' = AnswersGiven
      BY <1>1, <2>1, <2>4, SilentAnswers
         DEF AnswersGiven, SilentBut, Busy, Waits, IInv, TypeOK, Worker
    <3> QED
      BY <1>1, <2>1, <3>1, <3>2 DEF Once!Next, Once!Open
  <2> QED
    BY <1>2, <2>2, <2>3, <2>4 DEF Admit
<1>3. CASE RefuseInput(k)
  <2>1. \A u \in OwnTurn : TurnClient(u) = ClientOf[k] => ~Possible(u)
    BY <1>3 DEF RefuseInput, IInv, OwnersTurn, Owning
  <2>2. pc[k] \in Busy /\ pc'[k] = "refused" /\ SilentBut({k})
    BY <1>1, <1>3 DEF RefuseInput, SilentBut, Busy, Waits, IInv, TypeOK, Worker
  <2> QED
    BY <1>1, <1>3, <2>1, <2>2, OnceRefuses DEF RefuseInput, IInv, TypeOK
<1>4. CASE Rejected(k)
  <2>1. \A u \in OwnTurn : TurnClient(u) = ClientOf[k] => ~Possible(u)
    <3>1. SUFFICES ASSUME NEW u \in OwnTurn, TurnClient(u) = ClientOf[k], Possible(u) PROVE FALSE
      OBVIOUS
    <3>2. pc[k] = "start" /\ u[1] = k /\ u[2] = try[k]
      BY <1>4, <3>1 DEF Rejected, IInv, OwnersTurn, Owning
    <3> QED
      BY <1>4, <3>1, <3>2 DEF Rejected, IInv, RefusedNeverRuns
  <2>2. pc[k] \in Busy /\ pc'[k] = "refused" /\ SilentBut({k})
    BY <1>1, <1>4 DEF Rejected, Reject, SilentBut, Busy, Waits, Kinds, IInv, TypeOK, Worker
  <2> QED
    BY <1>1, <1>4, <2>1, <2>2, OnceRefuses DEF Rejected, Reject, IInv, TypeOK
<1>5. CASE Connected(k) \/ Resumed(k)
  <2>1. /\ pc[k] \in Busy /\ UNCHANGED <<val, accepted>>
        /\ \A u \in OwnTurn : TurnClient(u) = ClientOf[k] => ~Possible(u)
    BY <1>5 DEF Connected, Resumed, Busy, Waits, Kinds, IInv, OwnersTurn, Owning
  <2>2. CASE Reject(k, "busy")
    <3>1. pc'[k] = "busy" /\ SilentBut({k})
      BY <1>1, <2>1, <2>2 DEF Reject, SilentBut, IInv, TypeOK, Worker
    <3> QED
      BY <1>1, <2>1, <2>2, <3>1, OnceRefuses DEF Reject, IInv, TypeOK
  <2>3. ASSUME NEW kind \in {"start", "resume"}, Send(k, kind), UNCHANGED idem
        PROVE  UNCHANGED Once!onceVars
    BY <1>1, <2>1, <2>3, OnceStutters
       DEF Send, SameRows, SilentBut, Busy, Waits, Kinds, IInv, TypeOK, Worker
  <2> QED
    BY <1>5, <2>2, <2>3 DEF Connected, Resumed, StartTurn
<1>6. CASE Started(k) \/ Found(k)
  <2>1. val[k] \in AcceptedFor(ClientOf[k])
    BY <1>6 DEF Started, Found, IInv, ResultsTrue, AcceptedFor, TurnClient
  <2>2. /\ Answer(k, val[k]) /\ FinishIdempotent(ClientOf[k], val[k])
        /\ UNCHANGED accepted /\ pc[k] \in Busy
    BY <1>6 DEF Started, Found, Busy, Waits, Kinds
  <2>3. pc'[k] = "ok" /\ val'[k] = val[k] /\ SilentBut({k}) /\ SameRows
    BY <1>1, <2>2 DEF Answer, FinishIdempotent, SilentBut, SameRows, IInv, TypeOK, Worker
  <2> QED
    BY <1>1, <2>1, <2>2, <2>3, OnceTells
<1>7. CASE Unknown(k)
  BY <1>7, OnceAccepted DEF Unknown, Busy, Waits, Kinds
<1>8. CASE Unresolved(k)
  <2>1. /\ pc[k] \in Busy /\ pc'[k] \in {"failed", "uncertain"}
        /\ SilentBut({k}) /\ SameRows /\ UNCHANGED accepted
    BY <1>1, <1>8 DEF Unresolved, ReadFailed, MarkPendingUncertain, SilentBut, SameRows,
         Busy, Waits, Kinds, IInv, TypeOK, Worker
  <2> QED
    BY <2>1, OnceGivesUp
<1>9. CASE Restart(k)
  <2>1. SameRows /\ SilentBut({}) /\ UNCHANGED accepted
    BY <1>1, <1>9 DEF Restart, Unavailable, MarkPendingUncertain, SilentBut, SameRows,
         Busy, Waits, Kinds, IInv, TypeOK, Worker
  <2> QED
    BY <2>1, OnceStutters
<1>10. CASE Enqueue(k) \/ Begin(k) \/ Restarted(k) \/ LookUp(k)
  <2>1. SameRows /\ SilentBut({}) /\ UNCHANGED accepted
    BY <1>1, <1>10 DEF Enqueue, Begin, Restarted, LookUp, Send, SilentBut, SameRows, storeVars,
         Busy, Waits, Kinds, IInv, TypeOK, Worker
  <2> QED
    BY <2>1, OnceStutters
<1> QED
  BY <1>2, <1>3, <1>4, <1>5, <1>6, <1>7, <1>8, <1>9, <1>10 DEF MessageStep

LEMMA OnceCodex ==
  ASSUME IInv, Codex
  PROVE  Once!Next \/ UNCHANGED Once!onceVars
<1> USE OwnTurns DEF callVars, storeVars, codexVars
<1>1. ASSUME NEW q \in inbox, CodexStarts(q) PROVE Once!Next
  <2> DEFINE w == <<q.call, q.n>>
  <2>1. w \in OwnTurn /\ q = StartRequest(w)
    BY <1>1 DEF IInv, TypeOK, CodexStarts, Request, StartRequests, OwnTurn, StartRequest
  <2>2. w \notin accepted /\ Possible(w)
    BY <2>1 DEF IInv, SentOnce, Possible
  <2> QED
    BY <1>1, <2>1, <2>2, OnceStarts DEF CodexStarts
<1>2. ASSUME NEW q \in orphaned, OrphanStarts(q) PROVE Once!Next
  <2> DEFINE w == <<q.call, q.n>>
  <2>1. w \in OwnTurn /\ q = StartRequest(w)
    BY DEF IInv, TypeOK, StartRequests, OwnTurn, StartRequest
  <2>2. w \notin accepted /\ Possible(w)
    BY <2>1 DEF IInv, SentOnce, Possible
  <2> QED
    BY <1>2, <2>1, <2>2, OnceStarts DEF OrphanStarts
<1>3. ASSUME UNCHANGED <<pc, val, idem, accepted>> PROVE UNCHANGED Once!onceVars
  BY <1>3, OnceStutters DEF SameRows, SilentBut
<1> QED
  BY <1>1, <1>2, <1>3 DEF Codex, CodexRefuses, CodexResumes, CodexReads, CodexInterrupts,
       CodexRecords, CodexCompletes, ForeignEnds

LEMMA OnceStep ==
  ASSUME IInv, [Next]_vars
  PROVE  Once!Next \/ UNCHANGED Once!onceVars
<1> USE ConstantsAssumption DEF callVars, storeVars, codexVars
<1>1. ASSUME NEW k \in Worker, Arrive(k) \/ Ready(k) \/ Timeout(k)
      PROVE  UNCHANGED Once!onceVars
  <2>1. SameRows /\ SilentBut({}) /\ UNCHANGED accepted
    BY <1>1 DEF Arrive, Ready, Timeout, SameRows, SilentBut, Busy, Waits, Kinds,
         IInv, TypeOK, Worker
  <2> QED
    BY <2>1, OnceStutters
<1>2. ASSUME NEW k \in Worker, Deny(k) PROVE Once!Next
  <2> DEFINE S == {k} \cap Call
  <2>1. /\ \A j \in S : pc[j] \in Busy /\ pc'[j] = "denied"
        /\ SameRows /\ SilentBut(S) /\ UNCHANGED accepted
    BY <1>2 DEF Deny, SameRows, SilentBut, Busy, Waits, IInv, TypeOK, Worker
  <2> QED
    BY <2>1, OnceGivesUp
<1>3. ASSUME NEW i \in Cancel, CancelStep(i) PROVE UNCHANGED Once!onceVars
  <2>1. SameRows /\ SilentBut({}) /\ UNCHANGED accepted
    BY <1>3 DEF CancelStep, AdmitCancel, Interrupt, LookUp, InterruptFound, Interrupted, Send,
         SameRows, SilentBut, IInv, TypeOK, Worker
  <2> QED
    BY <2>1, OnceStutters
<1>4. CASE \/ Initialized \/ \E o \in {"timeout", "refused"} : InitializeFails(o)
           \/ DeliverNotice
  BY <1>4, OnceStutters DEF Initialized, InitializeFails, DeliverNotice, SameRows, SilentBut
<1>5. CASE DeliverResponse
  <2> DEFINE q == Head(out).req
  <2>0. q.kind \in Kinds
    <3>1. Head(out) \in Line
      BY <1>5, OutTail DEF DeliverResponse, IInv, TypeOK
    <3> QED
      BY <1>5, <3>1 DEF DeliverResponse, Line, Notice, Response, Request, StartRequests, Kinds
  <2>1. SilentBut({})
    <3>1. UNCHANGED pc
      BY <1>5 DEF DeliverResponse
    <3>2. CASE Awaited(q)
      <4>1. pc[q.call] \in Busy
        BY <2>0, <3>2 DEF Awaited, Busy, Waits
      <4>2. \A j \in Call : j # q.call => val'[j] = val[j]
        BY <1>5, <3>2 DEF DeliverResponse, IInv, TypeOK, Worker
      <4> QED
        BY <3>1, <4>1, <4>2 DEF SilentBut
    <3>3. CASE ~Awaited(q)
      BY <1>5, <3>1, <3>3 DEF DeliverResponse, SilentBut
    <3> QED
      BY <3>2, <3>3
  <2> QED
    BY <1>5, <2>1, OnceStutters DEF DeliverResponse, SameRows
<1>6. CASE ProcessExit
  <2>1. SameRows /\ SilentBut({}) /\ UNCHANGED accepted
    BY <1>6 DEF ProcessExit, Unavailable, MarkPendingUncertain, SameRows, SilentBut, IInv, TypeOK
  <2> QED
    BY <2>1, OnceStutters
<1>7. CASE BridgeRestart
  <2> DEFINE S == {k \in Call : pc[k] \in Waits}
  <2>1. /\ \A j \in S : pc[j] \in Busy /\ pc'[j] = "lost"
        /\ SameRows /\ SilentBut(S) /\ UNCHANGED accepted
    BY <1>7 DEF BridgeRestart, MarkPendingUncertain, SameRows, SilentBut, Busy, IInv, TypeOK,
         Worker
  <2> QED
    BY <2>1, OnceGivesUp
<1>8. CASE UNCHANGED vars
  BY <1>8, OnceStutters DEF vars, SameRows, SilentBut
<1> QED
  BY <1>1, <1>2, <1>3, <1>4, <1>5, <1>6, <1>7, <1>8, OnceMessage, OnceCodex DEF Next, Step

(* The bridge, with its table, queues, pipes, timeouts, exits and crashes, *)
(* does only what MessageOnce allows: what a caller is told of a client_id *)
(* is true then and later.                                                 *)
THEOREM ImplementsMessageOnce == Spec => KeepsMessageOnce
<1>1. Init => Once!Init
  BY DEF Init, Once!Init, OpenKeys, AnswersGiven, AnswerOf, Once!Silent, Worker
<1>2. IInv /\ [Next]_vars => [Once!Next]_(Once!onceVars)
  BY OnceStep
<1>3. Spec => []IInv
  BY IInvInit, IInvNext, PTL DEF Spec
<1> QED
  BY <1>1, <1>2, <1>3, PTL DEF Spec, KeepsMessageOnce, Once!Spec

-----------------------------------------------------------------------------
(***************************************************************************)
(* The queue of a thread, and one turn on a thread.                        *)
(*                                                                         *)
(* The head of a queue may be under way, what is behind it waits: Queues   *)
(* is inductive as it stands, whatever times out or dies.                  *)
(* OneTurnPerThread needs that no request of a message times out.  Then a  *)
(* turn that the child runs, or may still start, is kept in sight as long  *)
(* as the child is up: by the call that waits for the response, or by the  *)
(* active map, which no line on its way will clear (InSight).              *)
(***************************************************************************)
Serving == {"connect", "resume", "start", "restart"}

Queues ==
  /\ \A t \in Thread : \A i \in DOMAIN queue[t] :
       /\ CallThread(queue[t][i]) = t
       /\ pc[queue[t][i]] = "queued" \/ (i = 1 /\ pc[queue[t][i]] \in Serving)
       /\ \A j \in DOMAIN queue[t] : queue[t][i] = queue[t][j] => i = j
  /\ \A k \in Call : pc[k] \in Serving \cup {"queued"} =>
       \E i \in DOMAIN queue[CallThread(k)] : queue[CallThread(k)][i] = k

(* What the child runs, or may start.                                      *)
Present(u) == u \in running \/ StartRequest(u) \in inbox

EndLine(t, i) == out[i].type = "turn_completed" /\ TurnThread(out[i].turn) = t
NoEnd(t) == \A i \in 1..Len(out) : ~EndLine(t, i)

(* A child that is gone runs nothing.                                      *)
GoneRunsNothing == proc = "down" => inbox = {} /\ running = {}

(* A turn is reported as ended after it has ended.                         *)
EndsAreTrue ==
  /\ \A i \in 1..Len(out) :
       out[i].type = "turn_completed" => out[i].turn \in accepted \ running
  /\ \A t \in Thread : completed[t] \notin running
  /\ \A t \in Thread : completed[t] \in OwnTurn => completed[t] \in accepted

(* Ends that are reported after the response to a start are not of turns   *)
(* before it.                                                              *)
EndsInOrder ==
  \A u \in running, p \in 1..Len(out) :
    out[p].type = "response" /\ out[p].req = StartRequest(u) =>
      \A i \in 1..Len(out) : EndLine(TurnThread(u), i) => i < p

OnePresent ==
  \A u, w \in OwnTurn : Present(u) /\ Present(w) /\ TurnThread(u) = TurnThread(w) => u = w

(* The call that has sent the start waits for it, or has not looked at its *)
(* result; or the thread is busy.                                          *)
Awaits(u) ==
  /\ pc[u[1]] = "start" /\ try[u[1]] = u[2]
  /\ res[u[1]] = "pending" \/ (res[u[1]] = "ok" /\ NoEnd(TurnThread(u)))
Shows(u) == active[TurnThread(u)] # NoTurn /\ NoEnd(TurnThread(u))

InSight == proc = "up" => \A u \in OwnTurn : Present(u) => Awaits(u) \/ Shows(u)

Tracked == GoneRunsNothing /\ EndsAreTrue /\ EndsInOrder /\ OnePresent /\ InSight

-----------------------------------------------------------------------------
(* The queue of a thread.                                                  *)

LEMMA QueueTypes ==
  ASSUME TypeOK, NEW t \in Thread
  PROVE  /\ queue[t] \in Seq(Call)
         /\ \A i \in DOMAIN queue[t] : i \in Nat /\ i >= 1 /\ queue[t][i] \in Call
         /\ queue[t] # <<>> => 1 \in DOMAIN queue[t] /\ Head(queue[t]) = queue[t][1]
<1>1. queue[t] \in Seq(Call)
  BY DEF TypeOK
<1> QED
  BY <1>1

(* A call that is under way is the head of its queue.                      *)
LEMMA ServingHeads ==
  ASSUME TypeOK, Queues, NEW k \in Call, pc[k] \in Serving
  PROVE  LET q == queue[CallThread(k)] IN
         /\ CallThread(k) \in Thread /\ q \in Seq(Call) /\ 1 \in DOMAIN q /\ q[1] = k
         /\ q # <<>> /\ Head(q) = k
<1>1. CallThread(k) \in Thread
  BY CallThreads DEF Worker
<1>2. PICK i \in DOMAIN queue[CallThread(k)] : queue[CallThread(k)][i] = k
  BY DEF Queues
<1>3. i = 1
  BY <1>1, <1>2 DEF Queues, Serving
<1> QED
  BY <1>1, <1>2, <1>3, QueueTypes

(* A call is of the same use to its queue as before.                       *)
SameUse(k) ==
  \/ pc'[k] = pc[k]
  \/ pc[k] \in Serving /\ pc'[k] \in Serving
  \/ pc[k] \notin Serving \cup {"queued"} /\ pc'[k] \notin Serving \cup {"queued"}

LEMMA QueuesFrame ==
  ASSUME TypeOK, Queues, UNCHANGED queue, \A k \in Call : SameUse(k)
  PROVE  Queues'
<1>1. ASSUME NEW t \in Thread, NEW i \in DOMAIN queue[t]
      PROVE  /\ CallThread(queue[t][i]) = t
             /\ pc'[queue[t][i]] = "queued" \/ (i = 1 /\ pc'[queue[t][i]] \in Serving)
             /\ \A j \in DOMAIN queue[t] : queue[t][i] = queue[t][j] => i = j
  BY <1>1, QueueTypes DEF Queues, SameUse, Serving
<1>2. ASSUME NEW k \in Call, pc'[k] \in Serving \cup {"queued"}
      PROVE  \E i \in DOMAIN queue[CallThread(k)] : queue[CallThread(k)][i] = k
  BY <1>2 DEF Queues, SameUse, Serving
<1> QED
  BY <1>1, <1>2 DEF Queues, CallThread

LEMMA EnqueueQueues ==
  ASSUME TypeOK, Queues, NEW k \in Call, Enqueue(k)
  PROVE  Queues'
<1> DEFINE t == CallThread(k)
<1>0. t \in Thread /\ k \in Worker
  BY CallThreads DEF Worker
<1>1. queue[t] \in Seq(Call) /\ queue'[t] = Append(queue[t], k)
  BY <1>0 DEF Enqueue, TypeOK
<1>2. \A s \in Thread : s # t => queue'[s] = queue[s]
  BY <1>0 DEF Enqueue, TypeOK
<1>3. pc[k] = "input" /\ pc'[k] = "queued" /\ \A j \in Worker : j # k => pc'[j] = pc[j]
  BY <1>0 DEF Enqueue, TypeOK
<1>4. \A s \in Thread : \A i \in DOMAIN queue[s] : queue[s][i] # k
  BY <1>3 DEF Queues, Serving
<1>5. /\ DOMAIN queue'[t] = DOMAIN queue[t] \cup {Len(queue[t]) + 1}
      /\ \A i \in DOMAIN queue[t] : queue'[t][i] = queue[t][i]
      /\ queue'[t][Len(queue[t]) + 1] = k
  BY <1>1
<1>7. \A s \in Thread : \A i \in DOMAIN queue[s] : queue[s][i] \in Call
  BY QueueTypes
<1> HIDE DEF t
<1>8. ASSUME NEW s \in Thread, NEW i \in DOMAIN queue'[s]
      PROVE  /\ CallThread(queue'[s][i]) = s
             /\ pc'[queue'[s][i]] = "queued" \/ (i = 1 /\ pc'[queue'[s][i]] \in Serving)
             /\ \A j \in DOMAIN queue'[s] : queue'[s][i] = queue'[s][j] => i = j
  <2>1. CASE s # t
    BY <1>2, <1>3, <1>4, <1>7, <1>8, <2>1 DEF Queues, Worker
  <2>2. CASE s = t /\ i \in DOMAIN queue[t]
    BY <1>3, <1>4, <1>5, <1>7, <2>2 DEF Queues, Worker
  <2>3. CASE s = t /\ i = Len(queue[t]) + 1
    BY <1>0, <1>3, <1>4, <1>5, <2>3 DEF t
  <2> QED
    BY <1>5, <1>8, <2>1, <2>2, <2>3
<1>9. ASSUME NEW j \in Call, pc'[j] \in Serving \cup {"queued"}
      PROVE  \E i \in DOMAIN queue'[CallThread(j)] : queue'[CallThread(j)][i] = j
  <2>0. CallThread(j) \in Thread
    BY CallThreads DEF Worker
  <2>1. CASE j = k
    BY <1>5, <2>1 DEF t
  <2>2. CASE j # k
    <3>1. PICK i \in DOMAIN queue[CallThread(j)] : queue[CallThread(j)][i] = j
      BY <1>3, <1>9, <2>2 DEF Queues, Worker
    <3> QED
      BY <1>2, <1>5, <2>0, <3>1
  <2> QED
    BY <2>1, <2>2
<1> QED
  BY <1>8, <1>9 DEF Queues, CallThread

LEMMA BeginQueues ==
  ASSUME TypeOK, Queues, NEW k \in Call, Begin(k)
  PROVE  Queues'
<1> DEFINE t == CallThread(k)
<1>0. t \in Thread /\ k \in Worker /\ UNCHANGED queue
  BY CallThreads DEF Begin, Worker, managerVars
<1>1. pc[k] = "queued" /\ pc'[k] = "connect" /\ \A j \in Worker : j # k => pc'[j] = pc[j]
  BY <1>0 DEF Begin, TypeOK
<1>2. queue[t][1] = k /\ 1 \in DOMAIN queue[t]
  <2>1. queue[t] # <<>>
    BY <1>1 DEF Queues
  <2> QED
    BY <1>0, <2>1, QueueTypes DEF Begin
<1>3. ASSUME NEW s \in Thread, NEW i \in DOMAIN queue[s]
      PROVE  pc'[queue[s][i]] = "queued" \/ (i = 1 /\ pc'[queue[s][i]] \in Serving)
  <2>1. queue[s][i] \in Worker
    BY QueueTypes DEF Worker
  <2>2. CASE queue[s][i] = k
    BY <1>0, <1>1, <1>2, <2>2 DEF Queues, Serving
  <2>3. CASE queue[s][i] # k
    BY <1>1, <2>1, <2>3 DEF Queues
  <2> QED
    BY <2>2, <2>3
<1>4. \A j \in Call : pc'[j] \in Serving \cup {"queued"} => pc[j] \in Serving \cup {"queued"}
  BY <1>1 DEF Worker
<1> QED
  BY <1>0, <1>3, <1>4 DEF Queues, CallThread

(* A call that was under way leaves the queue to the next one.             *)
LEMMA ServedQueues ==
  ASSUME TypeOK, Queues, NEW k \in Call, pc[k] \in Serving, queue' = Served(k),
         pc'[k] \notin Serving \cup {"queued"}, \A j \in Call : j # k => pc'[j] = pc[j]
  PROVE  Queues'
<1> DEFINE t == CallThread(k)
<1>0. t \in Thread /\ queue[t] \in Seq(Call) /\ queue[t][1] = k /\ queue[t] # <<>>
  BY ServingHeads
<1>1. queue'[t] = Tail(queue[t]) /\ \A s \in Thread : s # t => queue'[s] = queue[s]
  BY <1>0 DEF Served, TypeOK
<1>2. /\ \A i \in DOMAIN queue'[t] : /\ i \in Nat /\ i >= 1 /\ i + 1 \in DOMAIN queue[t]
                                     /\ queue'[t][i] = queue[t][i + 1]
      /\ \A i \in DOMAIN queue[t] : i # 1 => i - 1 \in DOMAIN queue'[t]
                                             /\ queue'[t][i - 1] = queue[t][i]
  BY <1>0, <1>1
<1>3. 1 \in DOMAIN queue[t] /\ \A s \in Thread : \A i \in DOMAIN queue[s] : queue[s][i] = k => s = t /\ i = 1
  BY <1>0 DEF Queues
<1>4. \A s \in Thread : \A i \in DOMAIN queue[s] : queue[s][i] \in Call /\ i \in Nat /\ i >= 1
  BY QueueTypes
<1> HIDE DEF t
<1>5. ASSUME NEW s \in Thread, NEW i \in DOMAIN queue'[s]
      PROVE  /\ CallThread(queue'[s][i]) = s
             /\ pc'[queue'[s][i]] = "queued" \/ (i = 1 /\ pc'[queue'[s][i]] \in Serving)
             /\ \A j \in DOMAIN queue'[s] : queue'[s][i] = queue'[s][j] => i = j
  <2>1. CASE s # t
    BY <1>1, <1>3, <1>4, <1>5, <2>1 DEF Queues
  <2>2. CASE s = t
    <3>1. i + 1 \in DOMAIN queue[t] /\ queue'[t][i] = queue[t][i + 1] /\ i + 1 # 1
      BY <1>2, <1>5, <2>2
    <3>2. queue[t][i + 1] \in Call \ {k}
      BY <1>0, <1>3, <1>4, <3>1
    <3>3. CallThread(queue[t][i + 1]) = t /\ pc[queue[t][i + 1]] = "queued"
      BY <1>0, <3>1 DEF Queues
    <3>4. ASSUME NEW j \in DOMAIN queue'[t], queue'[t][i] = queue'[t][j] PROVE i = j
      <4>1. j + 1 \in DOMAIN queue[t] /\ queue'[t][j] = queue[t][j + 1]
        BY <1>2
      <4>3. \A a, b \in DOMAIN queue[t] : queue[t][a] = queue[t][b] => a = b
        BY <1>0 DEF Queues
      <4>4. queue[t][i + 1] = queue[t][j + 1]
        BY <3>1, <3>4, <4>1
      <4>2. i + 1 = j + 1
        BY <3>1, <4>1, <4>3, <4>4
      <4> QED
        BY <1>2, <1>5, <2>2, <4>2
    <3> QED
      BY <2>2, <3>1, <3>2, <3>3, <3>4
  <2> QED
    BY <2>1, <2>2
<1>6. ASSUME NEW j \in Call, pc'[j] \in Serving \cup {"queued"}
      PROVE  \E i \in DOMAIN queue'[CallThread(j)] : queue'[CallThread(j)][i] = j
  <2>0. CallThread(j) \in Thread /\ j # k /\ pc'[j] = pc[j]
    BY <1>6, CallThreads DEF Worker
  <2>1. PICK i \in DOMAIN queue[CallThread(j)] : queue[CallThread(j)][i] = j
    BY <1>6, <2>0 DEF Queues
  <2>2. CallThread(j) = t => i # 1
    BY <1>0, <2>0, <2>1
  <2>3. CASE CallThread(j) = t
    <3>1. i - 1 \in DOMAIN queue'[t] /\ queue'[t][i - 1] = j
      BY <1>2, <2>1, <2>2, <2>3
    <3> QED
      BY <2>3, <3>1
  <2> QED
    BY <1>1, <2>0, <2>1, <2>3
<1> QED
  BY <1>5, <1>6 DEF Queues, CallThread

LEMMA QueuesStep ==
  ASSUME IInv, Queues, [Next]_vars
  PROVE  Queues'
<1> USE DEF callVars, managerVars, IInv
<1>1. ASSUME NEW k \in Call, MessageStep(k) PROVE Queues'
  <2>0. k \in Worker
    BY DEF Worker
  <2>1. CASE Enqueue(k) \/ Begin(k)
    BY <2>1, EnqueueQueues, BeginQueues
  <2>2. CASE Started(k) \/ Rejected(k) \/ Unknown(k)
    <3>1. pc[k] \in Serving /\ queue' = Served(k)
      BY <2>2 DEF Started, Rejected, Unknown, Reject, Serving
    <3>2. pc'[k] \in Answers \cup {"lookup"} /\ \A j \in Worker : j # k => pc'[j] = pc[j]
      BY <2>0, <2>2 DEF Started, Rejected, Unknown, Reject, Answer, AcceptedTurn, Answers, TypeOK
    <3> QED
      BY <3>1, <3>2, ServedQueues DEF Serving, Answers, Worker
  <2>3. CASE Connected(k) \/ Resumed(k)
    <3>1. pc[k] \in Serving /\ \A j \in Worker : j # k => pc'[j] = pc[j]
      BY <2>0, <2>3 DEF Connected, Resumed, StartTurn, Reject, Send, Serving, TypeOK
    <3>2. \/ queue' = queue /\ pc'[k] \in {"resume", "start"}
          \/ queue' = Served(k) /\ pc'[k] = "busy"
      BY <2>0, <2>3 DEF Connected, Resumed, StartTurn, Reject, Send, TypeOK
    <3>3. CASE queue' = queue /\ pc'[k] \in {"resume", "start"}
      BY <3>1, <3>3, QueuesFrame DEF SameUse, Serving, Worker
    <3>4. CASE queue' = Served(k) /\ pc'[k] = "busy"
      BY <3>1, <3>4, ServedQueues DEF Serving, Worker
    <3> QED
      BY <3>2, <3>3, <3>4
  <2>4. CASE \/ Admit(k) \/ RefuseInput(k) \/ Restart(k) \/ Restarted(k) \/ LookUp(k) \/ Found(k)
             \/ Unresolved(k)
    <3>1. UNCHANGED queue /\ \A j \in Worker : j # k => pc'[j] = pc[j]
      BY <2>0, <2>4 DEF Admit, RefuseInput, Restart, Restarted, LookUp, Found, Unresolved, Answer,
           AcceptedTurn, Send, Unavailable, TypeOK
    <3>2. SameUse(k)
      BY <2>0, <2>4 DEF Admit, RefuseInput, Restart, Restarted, LookUp, Found, Unresolved, ReadFailed,
           Answer, AcceptedTurn, Send, Serving, SameUse, TypeOK
    <3> QED
      BY <3>1, <3>2, QueuesFrame DEF SameUse, Worker
  <2> QED
    BY <1>1, <2>1, <2>2, <2>3, <2>4 DEF MessageStep
<1>2. ASSUME NEW k \in Worker, Arrive(k) \/ Deny(k) \/ Ready(k) \/ Timeout(k) PROVE Queues'
  <2>1. UNCHANGED queue /\ \A j \in Worker : SameUse(j)
    BY <1>2 DEF Arrive, Deny, Ready, Timeout, SameUse, Serving, TypeOK
  <2> QED
    BY <2>1, QueuesFrame DEF Worker
<1>3. ASSUME NEW i \in Cancel, CancelStep(i) PROVE Queues'
  <2>1. i \in Worker /\ i \notin Call
    BY ConstantsAssumption DEF Worker
  <2>2. UNCHANGED queue /\ \A j \in Worker : j # i => pc'[j] = pc[j]
    BY <1>3, <2>1 DEF CancelStep, AdmitCancel, Interrupt, LookUp, InterruptFound, Interrupted, Send,
         TypeOK
  <2> QED
    BY <2>1, <2>2, QueuesFrame DEF SameUse, Worker
<1>4. ASSUME BridgeRestart PROVE Queues'
  <2>1. \A t \in Thread : queue'[t] = <<>>
    BY <1>4 DEF BridgeRestart
  <2>2. \A k \in Call : pc'[k] \notin Serving \cup {"queued"}
    BY <1>4 DEF BridgeRestart, Serving, Waits, Kinds, Worker
  <2> QED
    BY <2>1, <2>2 DEF Queues
<1>5. ASSUME \/ Initialized \/ (\E o \in {"timeout", "refused"} : InitializeFails(o))
             \/ DeliverResponse \/ DeliverNotice \/ ProcessExit \/ Codex \/ UNCHANGED vars
      PROVE  Queues'
  <2>1. UNCHANGED <<pc, queue>>
    BY <1>5 DEF Initialized, InitializeFails, DeliverResponse, DeliverNotice, ProcessExit,
         Unavailable, Codex, CodexResumes, CodexStarts, CodexReads, CodexInterrupts, CodexRefuses,
         CodexRecords, CodexCompletes, OrphanStarts, ForeignEnds, vars
  <2> QED
    BY <2>1, QueuesFrame DEF SameUse
<1> QED
  BY <1>1, <1>2, <1>3, <1>4, <1>5 DEF Next, Step

(* The calls on their way to a turn are the heads of their queues: nobody  *)
(* waits behind a call that is over and nobody overtakes, for any number   *)
(* of calls and threads, whatever times out, exits or restarts             *)
(* (CodexManager.serial).                                                  *)
THEOREM QueuesServe == Spec => []QueueServes
<1>1. Init => IInv /\ Queues
  <2>1. Init => Queues
    BY DEF Init, Queues, Serving, Worker
  <2> QED
    BY <2>1, IInvInit
<1>2. IInv /\ Queues /\ [Next]_vars => (IInv /\ Queues)'
  BY IInvNext, QueuesStep
<1>3. IInv /\ Queues => QueueServes
  <2> SUFFICES ASSUME IInv, Queues PROVE QueueServes
    OBVIOUS
  <2>1. ASSUME NEW k \in Call, pc[k] \in Serving
        PROVE  queue[CallThread(k)] # <<>> /\ Head(queue[CallThread(k)]) = k
    BY <2>1, ServingHeads DEF IInv
  <2>2. ASSUME NEW t \in Thread, queue[t] # <<>>
        PROVE  pc[Head(queue[t])] \in Serving \cup {"queued"}
    BY <2>2, QueueTypes DEF IInv, Queues
  <2> QED
    BY <2>1, <2>2 DEF QueueServes, Serving
<1> QED
  BY <1>1, <1>2, <1>3, PTL DEF Spec

-----------------------------------------------------------------------------
(* One turn on a thread.                                                   *)

LEMMA OwnTurnFacts ==
  ASSUME NEW u \in OwnTurn
  PROVE  /\ u[1] \in Call /\ u[2] \in {1, 2} /\ u = <<u[1], u[2]>> /\ u[1] \in Worker
         /\ TurnThread(u) = CallThread(u[1]) /\ TurnThread(u) \in Thread
BY CallThreads DEF OwnTurn, TurnThread, TurnClient, CallThread, Worker

(* Lines are added, none of them an end.                                   *)
LinesGrow ==
  /\ Len(out') \in Nat /\ Len(out) <= Len(out')
  /\ \A i \in 1..Len(out) : out'[i] = out[i]
  /\ \A i \in 1..Len(out') : i > Len(out) => out'[i].type # "turn_completed"

LEMMA AppendGrows ==
  ASSUME TypeOK, NEW l, out' = Append(out, l), l.type # "turn_completed"
  PROVE  LinesGrow
<1>1. out \in Seq(Line) /\ Len(out) \in Nat
  BY DEF TypeOK
<1>2. Len(out') = Len(out) + 1 /\ out'[Len(out) + 1] = l /\ \A i \in 1..Len(out) : out'[i] = out[i]
  BY <1>1
<1> QED
  BY <1>1, <1>2 DEF LinesGrow

LEMMA StaysGrows ==
  ASSUME TypeOK, UNCHANGED out PROVE LinesGrow
<1>1. Len(out) \in Nat
  BY DEF TypeOK
<1> QED
  BY <1>1 DEF LinesGrow

LEMMA EndsKept ==
  ASSUME TypeOK, EndsAreTrue, EndsInOrder, LinesGrow, UNCHANGED <<running, completed>>,
         accepted \subseteq accepted'
  PROVE  /\ EndsAreTrue' /\ EndsInOrder'
         /\ \A t \in Thread : NoEnd(t) => NoEnd(t)'
<1>1. Len(out) \in Nat /\ Len(out') \in Nat /\ Len(out) <= Len(out')
  BY DEF TypeOK, LinesGrow
<1>2. \A i \in 1..Len(out') : out'[i].type = "turn_completed" => i \in 1..Len(out) /\ out'[i] = out[i]
  BY <1>1 DEF LinesGrow
<1>3. EndsAreTrue'
  BY <1>2 DEF EndsAreTrue
<1>4. ASSUME NEW u \in running, NEW p \in 1..Len(out'), out'[p].type = "response",
             out'[p].req = StartRequest(u), NEW i \in 1..Len(out'),
             out'[i].type = "turn_completed", TurnThread(out'[i].turn) = TurnThread(u)
      PROVE  i < p
  <2>1. i \in 1..Len(out) /\ EndLine(TurnThread(u), i)
    BY <1>2, <1>4 DEF EndLine
  <2>2. CASE p \in 1..Len(out)
    BY <1>4, <2>1, <2>2 DEF EndsInOrder, LinesGrow
  <2>3. CASE p > Len(out)
    BY <1>1, <2>1, <2>3
  <2> QED
    BY <1>1, <2>2, <2>3
<1>5. EndsInOrder'
  BY <1>4 DEF EndsInOrder, EndLine, StartRequest, TurnThread, TurnClient
<1>6. \A t \in Thread : NoEnd(t) => NoEnd(t)'
  BY <1>2 DEF NoEnd, EndLine, TurnThread, TurnClient
<1> QED
  BY <1>3, <1>5, <1>6

LEMMA SightKept ==
  ASSUME OnePresent, InSight,
         \A u \in OwnTurn : Present(u)' => Present(u),
         proc' = "up" => proc = "up" \/ \A u \in OwnTurn : ~Present(u),
         \A t \in Thread : NoEnd(t) => NoEnd(t)',
         \A t \in Thread : active[t] # NoTurn => active'[t] # NoTurn,
         \A k \in Call : pc[k] = "start" /\ res[k] \in {"pending", "ok"} =>
           pc'[k] = pc[k] /\ res'[k] = res[k] /\ try'[k] = try[k]
  PROVE  OnePresent' /\ InSight'
<1>1. OnePresent'
  BY DEF OnePresent, TurnThread, TurnClient
<1>2. ASSUME NEW u \in OwnTurn, Present(u)', proc' = "up" PROVE Awaits(u)' \/ Shows(u)'
  <2>1. Awaits(u) \/ Shows(u)
    BY <1>2 DEF InSight
  <2>2. CASE Awaits(u)
    BY <2>2, OwnTurnFacts DEF Awaits, TurnThread, TurnClient
  <2>3. CASE Shows(u)
    BY <2>3, OwnTurnFacts DEF Shows, TurnThread, TurnClient
  <2> QED
    BY <2>1, <2>2, <2>3
<1> QED
  BY <1>1, <1>2 DEF InSight

(* Requests that start no turn.                                            *)
LEMMA PresentKept ==
  ASSUME UNCHANGED running, \A q \in inbox' : q \in inbox \/ q.kind # "start"
  PROVE  \A u \in OwnTurn : Present(u)' => Present(u)
BY DEF Present, StartRequest

(* A step that starts and ends no turn, reads no line, and leaves alone    *)
(* the calls that await one.                                               *)
LEMMA TrackFrame ==
  ASSUME IInv, Tracked, LinesGrow, UNCHANGED <<running, completed>>, accepted \subseteq accepted',
         \A q \in inbox' : q \in inbox \/ q.kind # "start",
         proc' # proc => proc = "down" /\ proc' = "up",
         proc' = "down" => inbox' \subseteq inbox,
         \A t \in Thread : active[t] # NoTurn => active'[t] # NoTurn,
         \A k \in Call : pc[k] = "start" /\ res[k] \in {"pending", "ok"} =>
           pc'[k] = pc[k] /\ res'[k] = res[k] /\ try'[k] = try[k]
  PROVE  Tracked'
<1>1. EndsAreTrue' /\ EndsInOrder' /\ \A t \in Thread : NoEnd(t) => NoEnd(t)'
  BY EndsKept DEF IInv, Tracked
<1>2. GoneRunsNothing'
  BY DEF Tracked, GoneRunsNothing
<1>3. proc' = "up" => proc = "up" \/ \A u \in OwnTurn : ~Present(u)
  BY DEF Tracked, GoneRunsNothing, Present
<1>4. \A u \in OwnTurn : Present(u)' => Present(u)
  BY PresentKept
<1>5. OnePresent' /\ InSight'
  BY <1>1, <1>3, <1>4, SightKept DEF Tracked
<1> QED
  BY <1>1, <1>2, <1>5 DEF Tracked

(* A request other than a start; to a child that is gone or ending too.    *)
LEMMA SendFacts ==
  ASSUME TypeOK, NEW k \in Worker, NEW kind \in Kinds, Send(k, kind)
  PROVE  /\ \A q \in inbox' : q \in inbox \/ q = [kind |-> kind, call |-> k, n |-> try[k]]
         /\ proc' # proc => proc = "down" /\ proc' = "up"
         /\ proc' # "down" /\ (proc = "ending" => inbox' = inbox)
         /\ pc'[k] = kind /\ res'[k] = "pending"
         /\ \A j \in Worker : j # k => pc'[j] = pc[j] /\ res'[j] = res[j]
BY DEF Send, TypeOK

(* The steps of calls that start no turn and do not close the connection.  *)
LEMMA OtherCallsTracked ==
  ASSUME IInv, Tracked, NEW k \in Worker,
         \/ Arrive(k) \/ Deny(k) \/ Ready(k)
         \/ k \in Call /\ (Admit(k) \/ RefuseInput(k) \/ Enqueue(k) \/ Begin(k) \/ Restarted(k)
                            \/ Rejected(k) \/ Unknown(k) \/ Found(k) \/ Unresolved(k))
         \/ k \in Cancel /\ (AdmitCancel(k) \/ Interrupted(k) \/ Timeout(k))
  PROVE  Tracked'
<1> USE DEF callVars, storeVars, managerVars, pipeVars, codexVars
<1>0. TypeOK /\ ~(k \in Call /\ k \in Cancel)
  BY ConstantsAssumption DEF IInv
<1>1. UNCHANGED <<running, completed, accepted, inbox, active, out>>
  BY DEF Arrive, Deny, Ready, Admit, RefuseInput, Enqueue, Begin, Restarted, Rejected, Unknown,
       Found, Unresolved, AdmitCancel, Interrupted, Timeout
<1>2. proc' # proc => proc = "down" /\ proc' = "up"
  BY DEF Arrive, Deny, Ready, Admit, RefuseInput, Enqueue, Begin, Restarted, Rejected, Unknown,
       Found, Unresolved, AdmitCancel, Interrupted, Timeout
<1>3. ASSUME NEW j \in Call, pc[j] = "start", res[j] \in {"pending", "ok"}
      PROVE  pc'[j] = pc[j] /\ res'[j] = res[j] /\ try'[j] = try[j]
  <2>1. j \in Worker
    BY DEF Worker
  <2>2. CASE j = k
    BY <1>0, <1>3, <2>1, <2>2 DEF Arrive, Deny, Ready, Admit, RefuseInput, Enqueue, Begin,
         Restarted, Rejected, Unknown, Found, Unresolved, ReadFailed, Errors
  <2>3. CASE j # k
    BY <1>0, <2>1, <2>3 DEF TypeOK, Arrive, Deny, Ready, Admit, RefuseInput, Enqueue, Begin,
         Restarted, Rejected, Unknown, Found, Unresolved, AdmitCancel, Interrupted, Timeout,
         Answer, AcceptedTurn, Reject
  <2> QED
    BY <2>2, <2>3
<1> QED
  BY <1>0, <1>1, <1>2, <1>3, StaysGrows, TrackFrame

LEMMA OtherSendsTracked ==
  ASSUME IInv, Tracked, NEW k \in Worker,
         LookUp(k) \/ (k \in Cancel /\ (Interrupt(k) \/ InterruptFound(k)))
  PROVE  Tracked'
<1> USE DEF callVars, storeVars, managerVars, pipeVars, codexVars
<1>0. TypeOK /\ ~(k \in Call /\ k \in Cancel)
  BY ConstantsAssumption DEF IInv
<1>1. UNCHANGED <<running, completed, accepted, out, try>>
  BY DEF LookUp, Interrupt, InterruptFound
<1>2. \A t \in Thread : active[t] # NoTurn => active'[t] # NoTurn
  BY <1>0 DEF LookUp, Interrupt, InterruptFound, TypeOK
<1>3. \/ \E kind \in Kinds \ {"start"} : Send(k, kind)
      \/ UNCHANGED <<proc, inbox>> /\ \A j \in Worker : j # k => pc'[j] = pc[j] /\ res'[j] = res[j]
  BY <1>0 DEF LookUp, Interrupt, InterruptFound, Kinds, TypeOK
<1>4. /\ \A q \in inbox' : q \in inbox \/ q.kind # "start"
      /\ proc' # proc => proc = "down" /\ proc' = "up"
      /\ proc' = "down" => inbox' \subseteq inbox
      /\ \A j \in Worker : j # k => pc'[j] = pc[j] /\ res'[j] = res[j]
  <2>1. CASE \E kind \in Kinds \ {"start"} : Send(k, kind)
    <3>1. PICK kind \in Kinds \ {"start"} : Send(k, kind)
      BY <2>1
    <3> QED
      BY <1>0, <3>1, SendFacts
  <2> QED
    BY <1>3, <2>1
<1>5. pc[k] # "start" \/ k \notin Call
  BY <1>0 DEF LookUp
<1> QED
  BY <1>0, <1>1, <1>2, <1>4, <1>5, StaysGrows, TrackFrame DEF Worker

LEMMA InitializeTracked ==
  ASSUME IInv, Tracked, Initialized \/ \E o \in {"timeout", "refused"} : InitializeFails(o)
  PROVE  Tracked'
<1>1. UNCHANGED <<pc, try, running, completed, accepted, inbox, proc, active, out>>
  BY DEF Initialized, InitializeFails, storeVars, pipeVars, codexVars
<1>2. \A k \in Call : pc[k] = "start" => res'[k] = res[k]
  BY DEF Initialized, InitializeFails, SettleReady, Worker
<1> QED
  BY <1>1, <1>2, StaysGrows, TrackFrame DEF IInv

(* restartConnection empties the active map of a child that is ending.     *)
LEMMA RestartTracked ==
  ASSUME IInv, Tracked, NEW k \in Call, Restart(k)
  PROVE  Tracked'
<1> USE DEF codexVars
<1>1. UNCHANGED <<running, accepted, inbox, out>>
  BY DEF Restart
<1>2. proc' # "up" /\ (proc' = "down" => proc = "down")
  BY DEF Restart
<1>3. \A t \in Thread : completed'[t] = NoTurn
  BY DEF Restart, Unavailable
<1>4. NoTurn \notin running /\ NoTurn \notin OwnTurn
  BY ConstantsAssumption DEF IInv, TypeOK, Turn
<1>5. EndsAreTrue'
  BY <1>1, <1>3, <1>4 DEF Tracked, EndsAreTrue
<1>6. EndsInOrder' /\ OnePresent'
  BY <1>1 DEF Tracked, EndsInOrder, EndLine, StartRequest, TurnThread, TurnClient, OnePresent,
       Present
<1>7. GoneRunsNothing' /\ InSight'
  BY <1>1, <1>2 DEF Tracked, GoneRunsNothing, InSight
<1> QED
  BY <1>5, <1>6, <1>7 DEF Tracked

(* A child that is gone has nothing left to run.                           *)
LEMMA GoneTracked ==
  ASSUME IInv, Tracked, ProcessExit \/ BridgeRestart
  PROVE  Tracked'
<1>1. running' = {} /\ inbox' = {} /\ proc' = "down" /\ accepted' = accepted
  BY DEF ProcessExit, BridgeRestart
<1>2. \A t \in Thread : completed'[t] = NoTurn
  BY DEF ProcessExit, BridgeRestart, Unavailable
<1>3. \A i \in 1..Len(out') : i \in 1..Len(out) /\ out'[i] = out[i]
  BY DEF ProcessExit, BridgeRestart
<1>4. NoTurn \notin OwnTurn
  BY ConstantsAssumption DEF Turn
<1>5. EndsAreTrue'
  BY <1>1, <1>2, <1>3, <1>4 DEF Tracked, EndsAreTrue
<1> QED
  BY <1>1, <1>5 DEF Tracked, GoneRunsNothing, EndsInOrder, OnePresent, InSight, Present

(* Nobody has a turn, or a start request, on a thread whose head is about  *)
(* to send one.                                                            *)
LEMMA NonePresent ==
  ASSUME IInv, Queues, Tracked, NEW k \in Call, pc[k] \in {"connect", "resume"},
         active[CallThread(k)] = NoTurn, proc # "ending",
         NEW u \in OwnTurn, Present(u), TurnThread(u) = CallThread(k)
  PROVE  FALSE
<1>1. proc = "up"
  BY DEF Tracked, GoneRunsNothing, Present, IInv, TypeOK
<1>2. Awaits(u)
  BY <1>1 DEF Tracked, InSight, Shows
<1>3. u[1] \in Call /\ CallThread(u[1]) = CallThread(k) /\ pc[u[1]] = "start"
  BY <1>2, OwnTurnFacts DEF Awaits
<1>4. u[1] = k
  BY <1>3, ServingHeads DEF Serving, IInv
<1> QED
  BY <1>3, <1>4

(* startTurn sends turn/start where no turn is active: the head of the     *)
(* queue knows that nobody else has one under way.                         *)
LEMMA StartTracked ==
  ASSUME IInv, Queues, Tracked, NEW k \in Call, pc[k] \in {"connect", "resume"},
         active[CallThread(k)] = NoTurn, Send(k, "start"),
         UNCHANGED <<try, running, completed, accepted, active, out>>
  PROVE  Tracked'
<1> DEFINE new == <<k, try[k]>>
<1>0. TypeOK /\ k \in Worker /\ try[k] \in {1, 2} /\ new \in OwnTurn
  BY DEF IInv, TypeOK, RowsOwned, Owning, OwnTurn, Worker
<1>1. /\ \A q \in inbox' : q \in inbox \/ q = StartRequest(new)
      /\ proc' # proc => proc = "down" /\ proc' = "up"
      /\ proc' # "down" /\ (proc = "ending" => inbox' = inbox)
      /\ pc'[k] = "start" /\ res'[k] = "pending"
      /\ \A j \in Worker : j # k => pc'[j] = pc[j] /\ res'[j] = res[j]
  BY <1>0, SendFacts DEF StartRequest, Kinds
<1>2. \A j \in Call : pc[j] = "start" => pc'[j] = pc[j] /\ res'[j] = res[j] /\ try'[j] = try[j]
  BY <1>1 DEF Worker
<1>3. CASE proc = "ending"
  BY <1>0, <1>1, <1>2, <1>3, StaysGrows, TrackFrame
<1>4. CASE proc # "ending"
  <2>1. ASSUME NEW u \in OwnTurn, Present(u), TurnThread(u) = CallThread(k) PROVE FALSE
    BY <1>4, <2>1, NonePresent
  <2>2. ASSUME NEW u \in OwnTurn, Present(u)' PROVE Present(u) \/ u = new
    <3>1. StartRequest(u) = StartRequest(new) => u = new
      BY <1>0, OwnTurnFacts DEF StartRequest
    <3> QED
      BY <1>1, <2>2, <3>1 DEF Present
  <2>3. TurnThread(new) = CallThread(k)
    BY <1>0, OwnTurnFacts
  <2>4. \A t \in Thread : NoEnd(t) => NoEnd(t)'
    BY DEF NoEnd, EndLine, TurnThread, TurnClient
  <2>5. OnePresent'
    <3>1. ASSUME NEW u \in OwnTurn, NEW w \in OwnTurn, Present(u)', Present(w)',
                 TurnThread(u) = TurnThread(w)
          PROVE  u = w
      BY <2>1, <2>2, <2>3, <3>1 DEF Tracked, OnePresent
    <3> QED
      BY <3>1 DEF OnePresent, TurnThread, TurnClient
  <2>6. InSight'
    <3>1. ASSUME NEW u \in OwnTurn, Present(u)' PROVE Awaits(u)' \/ Shows(u)'
      <4>1. CASE u = new
        BY <1>1, <4>1 DEF Awaits
      <4>2. CASE Present(u)
        <5>1. proc = "up"
          BY <1>4, <4>2, <1>0 DEF Tracked, GoneRunsNothing, Present, TypeOK
        <5>2. Awaits(u) \/ Shows(u)
          BY <4>2, <5>1 DEF Tracked, InSight
        <5>3. u[1] \in Call /\ TurnThread(u) \in Thread
          BY OwnTurnFacts
        <5>4. CASE Awaits(u)
          BY <1>2, <2>4, <5>3, <5>4 DEF Awaits, TurnThread, TurnClient
        <5>5. CASE Shows(u)
          BY <2>4, <5>3, <5>5 DEF Shows, TurnThread, TurnClient
        <5> QED
          BY <5>2, <5>4, <5>5
      <4> QED
        BY <2>2, <3>1, <4>1, <4>2
    <3> QED
      BY <3>1 DEF InSight
  <2>7. EndsAreTrue' /\ EndsInOrder'
    BY DEF Tracked, EndsAreTrue, EndsInOrder, EndLine, StartRequest, TurnThread, TurnClient
  <2>8. GoneRunsNothing'
    BY <1>1 DEF GoneRunsNothing
  <2> QED
    BY <2>5, <2>6, <2>7, <2>8 DEF Tracked
<1> QED
  BY <1>3, <1>4

LEMMA ConnectedTracked ==
  ASSUME IInv, Queues, Tracked, NEW k \in Call, Connected(k) \/ Resumed(k)
  PROVE  Tracked'
<1>0. TypeOK /\ k \in Worker
  BY DEF IInv, Worker
<1>1. UNCHANGED <<try, running, completed, accepted, active, out>> /\ pc[k] \in {"connect", "resume"}
  BY DEF Connected, Resumed, codexVars
<1>2. \/ Reject(k, "busy") /\ UNCHANGED <<proc, inbox>>
      \/ active[CallThread(k)] = NoTurn /\ Send(k, "start")
      \/ Send(k, "resume")
  BY DEF Connected, Resumed, StartTurn
<1>3. CASE Reject(k, "busy") /\ UNCHANGED <<proc, inbox>>
  <2>1. \A j \in Worker : j # k => pc'[j] = pc[j] /\ res'[j] = res[j]
    BY <1>0, <1>3 DEF Reject, TypeOK
  <2> QED
    BY <1>0, <1>1, <1>3, <2>1, StaysGrows, TrackFrame DEF Worker
<1>4. CASE active[CallThread(k)] = NoTurn /\ Send(k, "start")
  BY <1>1, <1>4, StartTracked
<1>5. CASE Send(k, "resume")
  <2>1. /\ \A q \in inbox' : q \in inbox \/ q.kind # "start"
        /\ proc' # proc => proc = "down" /\ proc' = "up"
        /\ proc' # "down"
        /\ \A j \in Worker : j # k => pc'[j] = pc[j] /\ res'[j] = res[j]
    BY <1>0, <1>5, SendFacts DEF Kinds
  <2> QED
    BY <1>0, <1>1, <2>1, StaysGrows, TrackFrame DEF Worker
<1> QED
  BY <1>2, <1>3, <1>4, <1>5

(* The response to turn/start is looked at: the turn becomes active.  It   *)
(* cannot have ended if it is running.                                     *)
LEMMA StartedTracked ==
  ASSUME IInv, Tracked, NEW k \in Call, Started(k)
  PROVE  Tracked'
<1> USE DEF codexVars, pipeVars
<1> DEFINE t == CallThread(k)
           u == <<k, try[k]>>
<1>0. TypeOK /\ k \in Worker /\ t \in Thread /\ try[k] \in {1, 2} /\ u \in OwnTurn
  BY CallThreads DEF IInv, TypeOK, RowsOwned, Owning, OwnTurn, Worker, Started
<1>1. pc[k] = "start" /\ res[k] = "ok" /\ val[k] = u /\ u \in accepted
  BY DEF Started, IInv, ResultsTrue
<1>2. UNCHANGED <<try, inbox, running, completed, accepted, proc, out>>
  BY DEF Started
<1>3. \A j \in Worker : j # k => pc'[j] = pc[j] /\ res'[j] = res[j]
  BY <1>0 DEF Started, Answer, TypeOK
<1>4. u # NoTurn
  BY <1>0, ConstantsAssumption DEF Turn
<1>5. \A s \in Thread : active[s] # NoTurn => active'[s] # NoTurn
  BY <1>0, <1>1, <1>4 DEF Started, TypeOK
<1>6. completed[t] # u => active'[t] # NoTurn
  BY <1>0, <1>1, <1>4 DEF Started, TypeOK
<1>7. EndsAreTrue' /\ EndsInOrder' /\ \A s \in Thread : NoEnd(s) => NoEnd(s)'
  BY <1>0, <1>2, StaysGrows, EndsKept DEF Tracked
<1>8. OnePresent' /\ GoneRunsNothing'
  BY <1>2 DEF Tracked, OnePresent, Present, GoneRunsNothing, TurnThread, TurnClient
<1>9. ASSUME proc = "up", NEW w \in OwnTurn, Present(w) PROVE Awaits(w)' \/ Shows(w)'
  <2>0. w[1] \in Call /\ TurnThread(w) \in Thread /\ TurnThread(w) = CallThread(w[1]) /\ w = <<w[1], w[2]>>
    BY OwnTurnFacts
  <2>1. CASE Shows(w)
    BY <1>5, <1>7, <2>0, <2>1 DEF Shows, TurnThread, TurnClient
  <2>2. CASE Awaits(w) /\ w[1] # k
    BY <1>2, <1>3, <1>7, <2>0, <2>2 DEF Awaits, TurnThread, TurnClient, Worker
  <2>3. CASE Awaits(w) /\ w[1] = k
    <3>1. w = u
      BY <2>0, <2>3 DEF Awaits
    <3>2. u \in running
      BY <1>0, <1>1, <1>9, <3>1 DEF Present, IInv, SentOnce
    <3>3. completed[t] # u
      BY <1>0, <3>2 DEF Tracked, EndsAreTrue
    <3>4. NoEnd(TurnThread(w))
      BY <1>1, <2>3 DEF Awaits
    <3> QED
      BY <1>6, <1>7, <2>0, <2>3, <3>3, <3>4 DEF Shows, TurnThread, TurnClient
  <2> QED
    BY <1>9, <2>1, <2>2, <2>3 DEF Tracked, InSight
<1>10. InSight'
  BY <1>2, <1>9 DEF InSight, Present
<1> QED
  BY <1>7, <1>8, <1>10 DEF Tracked

-----------------------------------------------------------------------------
(* Lines are read one by one.                                              *)
LinesTail ==
  /\ Len(out) \in Nat \ {0} /\ Head(out) = out[1]
  /\ Len(out') = Len(out) - 1 /\ \A i \in 1..Len(out') : out'[i] = out[i + 1]

LEMMA TailFacts ==
  ASSUME TypeOK, out # <<>>, out' = Tail(out)
  PROVE  LinesTail
<1>1. out \in Seq(Line)
  BY DEF TypeOK
<1> QED
  BY <1>1 DEF LinesTail

LEMMA EndsRead ==
  ASSUME EndsAreTrue, EndsInOrder, LinesTail, UNCHANGED <<running, accepted>>
  PROVE  /\ \A i \in 1..Len(out') :
              out'[i].type = "turn_completed" => out'[i].turn \in accepted \ running
         /\ EndsInOrder'
         /\ \A t \in Thread : NoEnd(t) => NoEnd(t)'
<1>1. \A i \in 1..Len(out') : i + 1 \in 1..Len(out) /\ out'[i] = out[i + 1]
  BY DEF LinesTail
<1>2. \A i \in 1..Len(out') :
        out'[i].type = "turn_completed" => out'[i].turn \in accepted \ running
  BY <1>1 DEF EndsAreTrue
<1>3. ASSUME NEW u \in running, NEW p \in 1..Len(out'), out'[p].type = "response",
             out'[p].req = StartRequest(u), NEW i \in 1..Len(out'),
             out'[i].type = "turn_completed", TurnThread(out'[i].turn) = TurnThread(u)
      PROVE  i < p
  <2>1. /\ p + 1 \in 1..Len(out) /\ out[p + 1].type = "response" /\ out[p + 1].req = StartRequest(u)
        /\ i + 1 \in 1..Len(out) /\ EndLine(TurnThread(u), i + 1)
    BY <1>1, <1>3 DEF EndLine
  <2>2. i + 1 < p + 1
    BY <2>1 DEF EndsInOrder
  <2> QED
    BY <2>2
<1>4. EndsInOrder'
  BY <1>3 DEF EndsInOrder, EndLine, StartRequest, TurnThread, TurnClient
<1>5. \A t \in Thread : NoEnd(t) => NoEnd(t)'
  BY <1>1 DEF NoEnd, EndLine, TurnThread, TurnClient
<1> QED
  BY <1>2, <1>4, <1>5

LEMMA NoticeTracked ==
  ASSUME IInv, Tracked, DeliverNotice
  PROVE  Tracked'
<1> USE DEF callVars, codexVars
<1> DEFINE l == Head(out)
           s == TurnThread(l.turn)
<1>0. TypeOK /\ LinesTail
  BY TailFacts DEF DeliverNotice, IInv
<1>1. l \in Line /\ l = out[1] /\ 1 \in 1..Len(out) /\ l.type # "response"
  BY <1>0, OutTail DEF DeliverNotice, TypeOK, LinesTail
<1>2. l.turn \in OwnTurn
  BY <1>1 DEF Line, Notice, Response
<1>3. s \in Thread /\ l.turn # NoTurn
  BY <1>2, OwnTurnFacts, ConstantsAssumption DEF Turn
<1>4. UNCHANGED <<pc, res, try, inbox, running, accepted, proc>>
  BY DEF DeliverNotice
<1>5. \A i \in 1..Len(out') : out'[i].type = "turn_completed" => out'[i].turn \in accepted \ running
  BY <1>0, <1>4, EndsRead DEF Tracked
<1>6. EndsInOrder' /\ \A t \in Thread : NoEnd(t) => NoEnd(t)'
  BY <1>0, <1>4, EndsRead DEF Tracked
<1>7. \A t \in Thread : completed'[t] \notin running /\ (completed'[t] \in OwnTurn => completed'[t] \in accepted)
  <2>1. CASE l.type = "turn_completed"
    <3>1. l.turn \in accepted \ running
      BY <1>1, <2>1 DEF Tracked, EndsAreTrue
    <3>2. completed' = [completed EXCEPT ![s] = l.turn]
      BY <2>1 DEF DeliverNotice
    <3> QED
      BY <1>0, <3>1, <3>2 DEF Tracked, EndsAreTrue, TypeOK
  <2>2. CASE l.type # "turn_completed"
    BY <2>2 DEF DeliverNotice, Tracked, EndsAreTrue
  <2> QED
    BY <2>1, <2>2
<1>8. \A t \in Thread : active[t] # NoTurn /\ NoEnd(t) => active'[t] # NoTurn
  <2>1. CASE l.type = "turn_completed"
    <3>1. ~NoEnd(s)
      BY <1>1, <2>1 DEF NoEnd, EndLine
    <3> QED
      BY <1>0, <1>3, <2>1, <3>1 DEF DeliverNotice, TypeOK
  <2>2. CASE l.type # "turn_completed"
    BY <1>0, <1>3, <2>2 DEF DeliverNotice, TypeOK
  <2> QED
    BY <2>1, <2>2
<1>9. OnePresent' /\ GoneRunsNothing'
  BY <1>4 DEF Tracked, OnePresent, Present, GoneRunsNothing, TurnThread, TurnClient
<1>10. ASSUME proc = "up", NEW u \in OwnTurn, Present(u) PROVE Awaits(u)' \/ Shows(u)'
  <2>1. TurnThread(u) \in Thread /\ (Awaits(u) \/ Shows(u))
    BY <1>10, OwnTurnFacts DEF Tracked, InSight
  <2>2. CASE Awaits(u)
    BY <1>4, <1>6, <2>1, <2>2 DEF Awaits, TurnThread, TurnClient
  <2>3. CASE Shows(u)
    BY <1>6, <1>8, <2>1, <2>3 DEF Shows, TurnThread, TurnClient
  <2> QED
    BY <2>1, <2>2, <2>3
<1>11. InSight'
  BY <1>4, <1>10 DEF InSight, Present
<1>12. EndsAreTrue'
  BY <1>4, <1>5, <1>7 DEF EndsAreTrue
<1> QED
  BY <1>6, <1>9, <1>11, <1>12 DEF Tracked

LEMMA ResponseTracked ==
  ASSUME IInv, Tracked, DeliverResponse
  PROVE  Tracked'
<1> USE DEF storeVars, managerVars, codexVars
<1> DEFINE l == Head(out)
<1>0. TypeOK /\ LinesTail
  BY TailFacts DEF DeliverResponse, IInv
<1>1. /\ l \in Response /\ l.type = "response" /\ l = out[1] /\ 1 \in 1..Len(out)
      /\ l \in Responses
  BY <1>0, OutTail DEF DeliverResponse, TypeOK, LinesTail, Line, Notice, Response, Responses
<1>2. UNCHANGED <<pc, try, inbox, running, accepted, proc, active, completed>>
  BY DEF DeliverResponse
<1>3. EndsInOrder' /\ EndsAreTrue' /\ \A t \in Thread : NoEnd(t) => NoEnd(t)'
  <2>1. EndsAreTrue'
    BY <1>0, <1>2, EndsRead DEF Tracked, EndsAreTrue
  <2> QED
    BY <1>0, <1>2, <2>1, EndsRead DEF Tracked
<1>4. OnePresent' /\ GoneRunsNothing'
  BY <1>2 DEF Tracked, OnePresent, Present, GoneRunsNothing, TurnThread, TurnClient
<1>5. ASSUME proc = "up", NEW u \in OwnTurn, Present(u) PROVE Awaits(u)' \/ Shows(u)'
  <2>0. /\ u[1] \in Call /\ u[1] \in Worker /\ TurnThread(u) \in Thread
        /\ Awaits(u) \/ Shows(u)
    BY <1>5, OwnTurnFacts DEF Tracked, InSight
  <2>1. CASE Shows(u)
    BY <1>2, <1>3, <2>0, <2>1 DEF Shows, TurnThread, TurnClient
  <2>2. CASE Awaits(u) /\ ~(Awaited(l.req) /\ l.req.call = u[1])
    <3>1. res'[u[1]] = res[u[1]]
      BY <1>0, <2>0, <2>2 DEF DeliverResponse, TypeOK
    <3> QED
      BY <1>2, <1>3, <2>0, <2>2, <3>1 DEF Awaits, TurnThread, TurnClient
  <2>3. CASE Awaits(u) /\ Awaited(l.req) /\ l.req.call = u[1]
    <3>1. l.req = StartRequest(u)
      <4>1. l.req.kind = "start" /\ l.req.n = u[2]
        BY <2>3 DEF Awaits, Awaited
      <4>2. l.req \in StartRequests
        BY <1>1, <4>1 DEF Response, Request
      <4> QED
        BY <2>3, <4>1, <4>2 DEF StartRequests, StartRequest
    <3>2. u \in accepted \/ StartRequest(u) \in inbox \cup orphaned
      BY <1>0, <1>5 DEF Present, TypeOK
    <3>3. l.outcome = "ok"
      BY <1>1, <3>1, <3>2 DEF IInv, RefusedNeverRuns, Possible
    <3>4. u \in accepted
      BY <1>1, <2>0, <3>1, <3>3, OwnTurnFacts DEF IInv, LinesTrue, StartRequest
    <3>5. u \in running
      BY <1>5, <3>4 DEF Present, IInv, SentOnce
    <3>6. NoEnd(TurnThread(u))
      <4>1. \A i \in 1..Len(out) : EndLine(TurnThread(u), i) => i < 1
        BY <1>1, <3>1, <3>5 DEF Tracked, EndsInOrder
      <4> QED
        BY <1>0, <4>1 DEF NoEnd, LinesTail
    <3>7. res'[u[1]] = "ok"
      BY <1>0, <2>0, <2>3, <3>3 DEF DeliverResponse, TypeOK
    <3> QED
      BY <1>2, <1>3, <2>0, <2>3, <3>6, <3>7 DEF Awaits, TurnThread, TurnClient
  <2> QED
    BY <2>0, <2>1, <2>2, <2>3
<1>6. InSight'
  BY <1>2, <1>5 DEF InSight, Present
<1> QED
  BY <1>3, <1>4, <1>6 DEF Tracked

-----------------------------------------------------------------------------
(* What the app-server does.                                               *)

LEMMA CodexQuietTracked ==
  ASSUME IInv, Tracked,
         \/ \E q \in inbox : \/ CodexResumes(q) \/ CodexReads(q)
                             \/ \E o \in Errors : o \in Outcomes /\ CodexRefuses(q, o)
         \/ \E u \in running : CodexRecords(u)
         \/ \E q \in orphaned : OrphanStarts(q)
         \/ \E u \in foreign : ForeignEnds(u)
  PROVE  Tracked'
<1> USE DEF callVars, managerVars, pipeVars
<1>1. /\ UNCHANGED <<pc, res, try, active, completed, proc, running>>
      /\ accepted \subseteq accepted' /\ inbox' \subseteq inbox
  BY DEF CodexResumes, CodexReads, CodexRefuses, CodexRecords, OrphanStarts, ForeignEnds, codexVars
<1>2. UNCHANGED out \/ \E m : out' = Append(out, m) /\ m.type # "turn_completed"
  <2>1. ASSUME NEW q, NEW o, NEW u PROVE Reply(q, o, u).type # "turn_completed"
    BY DEF Reply
  <2>2. ASSUME NEW u PROVE Note("user_message", u).type # "turn_completed"
    BY DEF Note
  <2> QED
    BY <2>1, <2>2 DEF CodexResumes, CodexReads, CodexRefuses, CodexRecords, OrphanStarts, ForeignEnds
<1>3. LinesGrow
  BY <1>2, AppendGrows, StaysGrows DEF IInv
<1> QED
  BY <1>1, <1>3, TrackFrame

(* A start request becomes a turn: the response and the notice of it come  *)
(* after every end that is on its way.                                     *)
LEMMA CodexStartsTracked ==
  ASSUME IInv, Tracked, NEW q \in inbox, CodexStarts(q)
  PROVE  Tracked'
<1> USE DEF callVars, managerVars
<1> DEFINE u == <<q.call, q.n>>
<1>0. /\ TypeOK /\ q \in StartRequests /\ u \in OwnTurn /\ q = StartRequest(u)
      /\ out \in Seq(Line) /\ Len(out) \in Nat
  BY DEF CodexStarts, IInv, TypeOK, Request, StartRequests, OwnTurn, StartRequest
<1>1. /\ UNCHANGED <<pc, res, try, active, completed, proc>>
      /\ running' = running \cup {u} /\ accepted' = accepted \cup {u} /\ inbox' = inbox \ {q}
  BY DEF CodexStarts
<1>2. u \notin accepted
  BY <1>0 DEF IInv, SentOnce
<1>3. /\ Len(out') = Len(out) + 2
      /\ \A i \in 1..Len(out) : out'[i] = out[i]
      /\ out'[Len(out) + 1].type # "turn_completed" /\ out'[Len(out) + 2].type # "turn_completed"
  <2>1. CASE out' = out \o <<Reply(q, "ok", u), Note("turn_started", u)>>
    BY <1>0, <2>1 DEF Reply, Note
  <2>2. CASE out' = out \o <<Note("turn_started", u), Reply(q, "ok", u)>>
    BY <1>0, <2>2 DEF Reply, Note
  <2> QED
    BY <2>1, <2>2 DEF CodexStarts
<1>4. LinesGrow
  BY <1>0, <1>3 DEF LinesGrow
<1>5. \A i \in 1..Len(out') : out'[i].type = "turn_completed" => i \in 1..Len(out) /\ out'[i] = out[i]
  BY <1>0, <1>3
<1>6. EndsAreTrue'
  BY <1>0, <1>1, <1>2, <1>5 DEF Tracked, EndsAreTrue
<1>7. \A i \in 1..Len(out) : ~(out[i].type = "response" /\ out[i].req = StartRequest(u))
  <2> SUFFICES ASSUME NEW i \in 1..Len(out), out[i].type = "response", out[i].req = StartRequest(u)
               PROVE  FALSE
    OBVIOUS
  <2>1. out[i] \in Responses
    BY DEF Responses, Lines
  <2>2. out[i].outcome = "ok"
    BY <1>0, <2>1 DEF IInv, RefusedNeverRuns, Possible
  <2>3. u \in accepted
    BY <1>0, <2>1, <2>2, OwnTurnFacts DEF IInv, LinesTrue, StartRequest
  <2> QED
    BY <1>2, <2>3
<1>8. ASSUME NEW w \in running', NEW p \in 1..Len(out'), out'[p].type = "response",
             out'[p].req = StartRequest(w), NEW i \in 1..Len(out'),
             out'[i].type = "turn_completed", TurnThread(out'[i].turn) = TurnThread(w)
      PROVE  i < p
  <2>1. i \in 1..Len(out) /\ EndLine(TurnThread(w), i)
    BY <1>5, <1>8 DEF EndLine
  <2>2. CASE p \in 1..Len(out) /\ w \in running
    BY <1>3, <1>8, <2>1, <2>2 DEF Tracked, EndsInOrder
  <2>3. CASE p \in 1..Len(out) /\ w = u
    BY <1>3, <1>7, <1>8, <2>3
  <2>4. CASE p > Len(out)
    BY <1>0, <2>1, <2>4
  <2> QED
    BY <1>0, <1>1, <1>3, <1>8, <2>2, <2>3, <2>4
<1>9. EndsInOrder'
  BY <1>8 DEF EndsInOrder, EndLine, StartRequest, TurnThread, TurnClient
<1>10. \A t \in Thread : NoEnd(t) => NoEnd(t)'
  BY <1>5 DEF NoEnd, EndLine, TurnThread, TurnClient
<1>11. \A w \in OwnTurn : Present(w)' => Present(w)
  BY <1>0, <1>1 DEF Present
<1>12. OnePresent' /\ InSight'
  BY <1>1, <1>10, <1>11, SightKept DEF Tracked
<1>13. GoneRunsNothing'
  BY <1>1 DEF Tracked, GoneRunsNothing
<1> QED
  BY <1>6, <1>9, <1>12, <1>13 DEF Tracked

(* A turn ends, by itself or by an interrupt: the notice is the last line. *)
EndOf(u) ==
  /\ UNCHANGED <<pc, res, try, active, completed, proc, accepted, endEvents>>
  /\ running' = running \ {u} /\ inbox' \subseteq inbox
  /\ Len(out') \in Nat /\ Len(out) < Len(out')
  /\ \A i \in 1..Len(out) : out'[i] = out[i]
  /\ \A i \in 1..Len(out') : i > Len(out) =>
       \/ out'[i].type = "turn_completed" /\ out'[i].turn = u /\ i = Len(out')
       \/ out'[i].type = "response" /\ out'[i].req.kind # "start"

LEMMA CodexEnds ==
  ASSUME TypeOK,
         \/ \E q \in inbox : CodexInterrupts(q)
         \/ \E v \in running : CodexCompletes(v)
  PROVE  \E u \in running : EndOf(u)
<1> USE DEF callVars, managerVars, storeVars
<1>0. out \in Seq(Line) /\ Len(out) \in Nat
  BY DEF TypeOK
<1>1. CASE \E v \in running : CodexCompletes(v)
  <2>1. PICK v \in running : CodexCompletes(v)
    BY <1>1
  <2>2. /\ Len(out') = Len(out) + 1 /\ \A i \in 1..Len(out) : out'[i] = out[i]
        /\ out'[Len(out) + 1] = Note("turn_completed", v)
    BY <1>0, <2>1 DEF CodexCompletes
  <2>3. \A i \in 1..Len(out') : i > Len(out) => i = Len(out) + 1
    BY <1>0, <2>2
  <2>4. Len(out') \in Nat /\ Len(out) < Len(out')
    BY <1>0, <2>2
  <2>5. /\ UNCHANGED <<pc, res, try, active, completed, proc, accepted, endEvents>>
        /\ running' = running \ {v} /\ inbox' \subseteq inbox
    BY <2>1 DEF CodexCompletes
  <2> QED
    BY <2>2, <2>3, <2>4, <2>5 DEF EndOf, Note
<1>2. CASE \E q \in inbox : CodexInterrupts(q)
  <2>1. PICK q \in inbox : CodexInterrupts(q)
    BY <1>2
  <2>2. val[q.call] \in running /\ q.kind = "interrupt"
    BY <2>1 DEF CodexInterrupts
  <2>3. out' = out \o <<Reply(q, "ok", val[q.call]), Note("turn_completed", val[q.call])>>
    BY <2>1 DEF CodexInterrupts
  <2>4. /\ Len(out') = Len(out) + 2 /\ \A i \in 1..Len(out) : out'[i] = out[i]
        /\ out'[Len(out) + 1] = Reply(q, "ok", val[q.call])
        /\ out'[Len(out) + 2] = Note("turn_completed", val[q.call])
    BY <1>0, <2>3
  <2>5. \A i \in 1..Len(out') : i > Len(out) => i = Len(out) + 1 \/ i = Len(out) + 2
    BY <1>0, <2>4
  <2>6. /\ out'[Len(out) + 1].type = "response" /\ out'[Len(out) + 1].req.kind = "interrupt"
        /\ out'[Len(out) + 2].type = "turn_completed" /\ out'[Len(out) + 2].turn = val[q.call]
    BY <2>2, <2>4 DEF Reply, Note
  <2>7. /\ UNCHANGED <<pc, res, try, active, completed, proc, accepted, endEvents>>
        /\ running' = running \ {val[q.call]} /\ inbox' \subseteq inbox
    BY <2>1 DEF CodexInterrupts
  <2>8. Len(out') \in Nat /\ Len(out) < Len(out')
    BY <1>0, <2>4
  <2> QED
    BY <2>2, <2>4, <2>5, <2>6, <2>7, <2>8 DEF EndOf
<1> QED
  BY <1>1, <1>2

(* The thread of a turn that has ended has none.                           *)
LEMMA CodexEndsTracked ==
  ASSUME IInv, Tracked,
         \/ \E q \in inbox : CodexInterrupts(q)
         \/ \E v \in running : CodexCompletes(v)
  PROVE  Tracked'
<1> USE DEF callVars, managerVars
<1>0. TypeOK /\ out \in Seq(Line) /\ Len(out) \in Nat
  BY DEF IInv, TypeOK
<1>1. PICK u \in running :
        /\ UNCHANGED <<pc, res, try, active, completed, proc, accepted>>
        /\ running' = running \ {u} /\ inbox' \subseteq inbox
        /\ Len(out') \in Nat /\ Len(out) < Len(out')
        /\ \A i \in 1..Len(out) : out'[i] = out[i]
        /\ \A i \in 1..Len(out') : i > Len(out) /\ out'[i].type = "turn_completed" => out'[i].turn = u
        /\ \A i \in 1..Len(out') : i > Len(out) /\ out'[i].type = "response" => out'[i].req.kind # "start"
  BY <1>0, CodexEnds DEF EndOf
<1>2. u \in OwnTurn /\ u \in accepted
  BY <1>0 DEF TypeOK
<1>3. \A w \in OwnTurn : Present(w)' => Present(w) /\ w # u
  BY <1>1, <1>2 DEF Present, IInv, SentOnce
<1>4. \A w \in OwnTurn : Present(w)' => TurnThread(w) # TurnThread(u)
  BY <1>2, <1>3 DEF Tracked, OnePresent, Present
<1>5. \A t \in Thread : t # TurnThread(u) /\ NoEnd(t) => NoEnd(t)'
  <2> SUFFICES ASSUME NEW t \in Thread, t # TurnThread(u), NoEnd(t), NEW i \in 1..Len(out'),
                      out'[i].type = "turn_completed", TurnThread(out'[i].turn) = t
               PROVE  FALSE
    BY DEF NoEnd, EndLine, TurnThread, TurnClient
  <2>1. i \in 1..Len(out)
    BY <1>0, <1>1
  <2> QED
    BY <1>1, <2>1 DEF NoEnd, EndLine
<1>6. EndsAreTrue'
  <2>1. ASSUME NEW i \in 1..Len(out'), out'[i].type = "turn_completed"
        PROVE  out'[i].turn \in accepted \ running'
    <3>1. CASE i \in 1..Len(out)
      BY <1>1, <2>1, <3>1 DEF Tracked, EndsAreTrue
    <3>2. CASE i > Len(out)
      BY <1>1, <1>2, <2>1, <3>2
    <3> QED
      BY <1>0, <1>1, <3>1, <3>2
  <2> QED
    BY <1>1, <2>1 DEF Tracked, EndsAreTrue
<1>7. EndsInOrder'
  <2>1. ASSUME NEW w \in running', NEW p \in 1..Len(out'), out'[p].type = "response",
               out'[p].req = StartRequest(w), NEW i \in 1..Len(out'),
               out'[i].type = "turn_completed", TurnThread(out'[i].turn) = TurnThread(w)
        PROVE  i < p
    <3>1. w \in OwnTurn /\ w \in running /\ TurnThread(w) # TurnThread(u)
      BY <1>0, <1>1, <1>4, <2>1 DEF TypeOK, Present
    <3>2. i \in 1..Len(out) /\ p \in 1..Len(out)
      BY <1>0, <1>1, <2>1, <3>1 DEF StartRequest
    <3> QED
      BY <1>1, <2>1, <3>1, <3>2 DEF Tracked, EndsInOrder, EndLine
  <2> QED
    BY <2>1 DEF EndsInOrder, EndLine, StartRequest, TurnThread, TurnClient
<1>8. GoneRunsNothing' /\ OnePresent'
  BY <1>1, <1>3 DEF Tracked, GoneRunsNothing, OnePresent, TurnThread, TurnClient
<1>9. ASSUME proc = "up", NEW w \in OwnTurn, Present(w)' PROVE Awaits(w)' \/ Shows(w)'
  <2>1. Present(w) /\ TurnThread(w) # TurnThread(u) /\ TurnThread(w) \in Thread
    BY <1>3, <1>4, <1>9, OwnTurnFacts
  <2>2. Awaits(w) \/ Shows(w)
    BY <1>9, <2>1 DEF Tracked, InSight
  <2> QED
    BY <1>1, <1>5, <2>1, <2>2 DEF Awaits, Shows, TurnThread, TurnClient
<1>10. InSight'
  BY <1>1, <1>9 DEF InSight
<1> QED
  BY <1>6, <1>7, <1>8, <1>10 DEF Tracked

LEMMA TrackedStep ==
  ASSUME Slow \cap Call = {}, IInv, Queues, Tracked, [Next]_vars
  PROVE  Tracked'
<1>1. ASSUME NEW k \in Call, MessageStep(k) PROVE Tracked'
  <2>1. k \in Worker
    BY DEF Worker
  <2> QED
    BY <1>1, <2>1, OtherCallsTracked, OtherSendsTracked, ConnectedTracked, StartedTracked,
       RestartTracked DEF MessageStep
<1>2. ASSUME NEW k \in Worker, Arrive(k) \/ Deny(k) \/ Ready(k) \/ Timeout(k) PROVE Tracked'
  <2>1. Timeout(k) => k \in Cancel
    BY DEF Timeout, Worker
  <2> QED
    BY <1>2, <2>1, OtherCallsTracked
<1>3. ASSUME NEW i \in Cancel, CancelStep(i) PROVE Tracked'
  <2>1. i \in Worker
    BY DEF Worker
  <2> QED
    BY <1>3, <2>1, OtherCallsTracked, OtherSendsTracked DEF CancelStep
<1>4. CASE Codex
  BY <1>4, CodexQuietTracked, CodexStartsTracked, CodexEndsTracked DEF Codex
<1>5. CASE UNCHANGED vars
  <2>1. UNCHANGED <<pc, res, try, active, completed, proc, running, accepted, inbox, out>>
    BY <1>5 DEF vars, callVars, managerVars, pipeVars, codexVars
  <2> QED
    BY <2>1, StaysGrows, TrackFrame DEF IInv
<1> QED
  BY <1>1, <1>2, <1>3, <1>4, <1>5, InitializeTracked, NoticeTracked, ResponseTracked,
     GoneTracked DEF Next, Step

(* If no request of a message times out, two turns of this bridge never    *)
(* run at the same time on one thread, whatever exits, restarts, conflicts *)
(* and is cancelled, and for any number of calls and threads: the queue    *)
(* and the active map keep a second turn/start back (manager.ts:53, 69).     *)
THEOREM TurnsAreSerial ==
  ASSUME Slow \cap Call = {}
  PROVE  Spec => []OneTurnPerThread
<1>1. Init => IInv /\ Queues /\ Tracked
  <2> SUFFICES ASSUME Init PROVE IInv /\ Queues /\ Tracked
    OBVIOUS
  <2>1. Len(out) = 0 /\ running = {} /\ inbox = {} /\ proc = "down"
    BY DEF Init
  <2>2. \A t \in Thread : completed[t] = NoTurn /\ NoTurn \notin OwnTurn
    BY ConstantsAssumption DEF Init, Turn
  <2>3. Queues
    BY DEF Init, Queues, Serving, Worker
  <2>4. Tracked
    BY <2>1, <2>2 DEF Tracked, GoneRunsNothing, EndsAreTrue, EndsInOrder, OnePresent, InSight,
         Present
  <2> QED
    BY <2>3, <2>4, IInvInit
<1>2. IInv /\ Queues /\ Tracked /\ [Next]_vars => (IInv /\ Queues /\ Tracked)'
  BY IInvNext, QueuesStep, TrackedStep
<1>3. IInv /\ Tracked => OneTurnPerThread
  BY DEF IInv, TypeOK, Tracked, OnePresent, Present, OneTurnPerThread
<1> QED
  BY <1>1, <1>2, <1>3, PTL DEF Spec

-----------------------------------------------------------------------------
(***************************************************************************)
(* The active turn has not ended, as long as no cancel has come in and the *)
(* connection to the app-server is not lost.  A turn is announced before   *)
(* its end is (StartsInOrder).  While a call waits for the response to its *)
(* start, only its own turn can run on its thread (OnlyOwn), and if that   *)
(* has ended, completed still says so when the call goes on (OwnEnd).      *)
(***************************************************************************)
ConnectionLost == ProcessExit \/ \E k \in Call : Restart(k)

NoneCancelled == \A i \in Cancel : pc[i] = "idle"

EndedRunNot == \A u \in OwnTurn : u \in endEvents => u \in accepted /\ u \notin running

StartsInOrder ==
  \A i \in 1..Len(out) : out[i].type = "turn_started" =>
    /\ out[i].turn \notin endEvents
    /\ \A j \in 1..Len(out) :
         out[j].type = "turn_completed" /\ out[j].turn = out[i].turn => i < j

OnlyOwn ==
  \A k \in Call : pc[k] = "start" =>
    \A w \in OwnTurn : Present(w) /\ TurnThread(w) = CallThread(k) => w = <<k, try[k]>>

OwnEnd ==
  \A k \in Call : pc[k] = "start" =>
    /\ \A i, j \in 1..Len(out) :
         EndLine(CallThread(k), i) /\ out[j].type = "turn_completed" /\ out[j].turn = <<k, try[k]>>
         => i <= j
    /\ <<k, try[k]>> \in endEvents =>
         NoEnd(CallThread(k)) /\ completed[CallThread(k)] = <<k, try[k]>>

Reports == proc # "ending" /\ EndedRunNot /\ StartsInOrder /\ OnlyOwn /\ OwnEnd

ActiveCurrent ==
  \A t \in Thread : active[t] # NoTurn =>
    active[t] \in OwnTurn /\ TurnThread(active[t]) = t /\ active[t] \notin endEvents

Reported == Reports /\ (NoneCancelled => ActiveCurrent)

(* A cancel that has come in stays so.                                     *)
LEMMA IdleStep ==
  ASSUME TypeOK, [Next]_vars, NoneCancelled'
  PROVE  NoneCancelled
<1> USE DEF callVars
<1>1. SUFFICES ASSUME NEW i \in Cancel, pc'[i] = "idle" PROVE pc[i] = "idle"
  BY DEF NoneCancelled
<1>0. i \in Worker /\ i \notin Call
  BY ConstantsAssumption DEF Worker
<1>2. ASSUME NEW k \in Call, MessageStep(k) PROVE pc[i] = "idle"
  <2>1. k # i /\ k \in Worker
    BY <1>0 DEF Worker
  <2> QED
    BY <1>0, <1>1, <1>2, <2>1 DEF TypeOK, MessageStep, Admit, RefuseInput, Enqueue, Begin,
         Connected, Resumed, StartTurn, Send, Reject, Started, Restart, Restarted, Rejected,
         Unknown, LookUp, Found, Unresolved, Answer, AcceptedTurn
<1>3. ASSUME NEW k \in Cancel, CancelStep(k) PROVE pc[i] = "idle"
  <2>1. k \in Worker
    BY DEF Worker
  <2> QED
    BY <1>0, <1>1, <1>3, <2>1 DEF TypeOK, CancelStep, AdmitCancel, Interrupt, LookUp,
         InterruptFound, Interrupted, CancelAnswer, Send
<1>4. ASSUME NEW k \in Worker, Arrive(k) \/ Deny(k) \/ Ready(k) \/ Timeout(k)
      PROVE  pc[i] = "idle"
  BY <1>0, <1>1, <1>4 DEF TypeOK, Arrive, Deny, Ready, Timeout
<1>5. CASE BridgeRestart
  BY <1>0, <1>1, <1>5 DEF BridgeRestart
<1>6. ASSUME \/ Initialized \/ (\E o \in {"timeout", "refused"} : InitializeFails(o))
             \/ DeliverResponse \/ DeliverNotice \/ ProcessExit \/ Codex \/ UNCHANGED vars
      PROVE  UNCHANGED pc
  BY <1>6 DEF Initialized, InitializeFails, DeliverResponse, DeliverNotice, ProcessExit,
       Unavailable, Codex, CodexResumes, CodexStarts, CodexReads, CodexInterrupts, CodexRefuses,
       CodexRecords, CodexCompletes, OrphanStarts, ForeignEnds, vars
<1> QED
  BY <1>1, <1>2, <1>3, <1>4, <1>5, <1>6 DEF Next, Step

(* A step that starts and ends no turn and reads no line.                  *)
LEMMA ReportFrame ==
  ASSUME TypeOK, Reports, LinesGrow,
         \A i \in 1..Len(out') : i > Len(out) => out'[i].type # "turn_started",
         UNCHANGED <<running, completed, endEvents>>, accepted \subseteq accepted',
         \A q \in inbox' : q \in inbox \/ q.kind # "start", proc' # "ending",
         \A k \in Call : pc'[k] = "start" => pc[k] = "start" /\ try'[k] = try[k]
  PROVE  Reports'
<1>0. Len(out) \in Nat /\ Len(out') \in Nat /\ Len(out) <= Len(out')
  BY DEF TypeOK, LinesGrow
<1>1. \A i \in 1..Len(out') :
        out'[i].type \in {"turn_started", "turn_completed"} => i \in 1..Len(out) /\ out'[i] = out[i]
  BY <1>0 DEF LinesGrow
<1>2. EndedRunNot' /\ StartsInOrder'
  <2>1. EndedRunNot'
    BY DEF Reports, EndedRunNot
  <2>2. StartsInOrder'
    BY <1>1 DEF Reports, StartsInOrder
  <2> QED
    BY <2>1, <2>2
<1>3. OnlyOwn'
  <2>1. \A w \in OwnTurn : Present(w)' => Present(w)
    BY PresentKept
  <2> QED
    BY <2>1 DEF Reports, OnlyOwn, TurnThread, TurnClient, CallThread
<1>4. OwnEnd'
  <2>1. ASSUME NEW k \in Call, pc[k] = "start",
               NEW i \in 1..Len(out'), NEW j \in 1..Len(out'), EndLine(CallThread(k), i)',
               out'[j].type = "turn_completed", out'[j].turn = <<k, try[k]>>
        PROVE  i <= j
    <3>1. i \in 1..Len(out) /\ j \in 1..Len(out) /\ EndLine(CallThread(k), i)
      BY <1>1, <2>1 DEF EndLine, TurnThread, TurnClient, CallThread
    <3> QED
      BY <1>1, <2>1, <3>1 DEF Reports, OwnEnd
  <2>2. \A t \in Thread : NoEnd(t) => NoEnd(t)'
    BY <1>1 DEF NoEnd, EndLine, TurnThread, TurnClient
  <2>3. \A k \in Call : CallThread(k) \in Thread
    BY CallThreads DEF Worker
  <2> QED
    BY <2>1, <2>2, <2>3 DEF Reports, OwnEnd, CallThread
<1> QED
  BY <1>2, <1>3, <1>4 DEF Reports

(* Steps that leave the active map and the events alone.                   *)
LEMMA CurrentKept ==
  ASSUME TypeOK, [Next]_vars, Reported, Reports', UNCHANGED <<active, endEvents>>
  PROVE  Reported'
<1>1. NoneCancelled' => ActiveCurrent
  BY IdleStep DEF Reported
<1> QED
  BY <1>1 DEF Reported, ActiveCurrent, TurnThread, TurnClient

LEMMA OtherCallsReported ==
  ASSUME IInv, Reported, [Next]_vars, NEW k \in Worker,
         \/ Arrive(k) \/ Deny(k) \/ Ready(k)
         \/ k \in Call /\ (Admit(k) \/ RefuseInput(k) \/ Enqueue(k) \/ Begin(k) \/ Restarted(k)
                            \/ Rejected(k) \/ Unknown(k) \/ Found(k) \/ Unresolved(k))
         \/ k \in Cancel /\ (AdmitCancel(k) \/ Interrupted(k) \/ Timeout(k))
  PROVE  Reported'
<1> USE DEF callVars, storeVars, managerVars, pipeVars, codexVars
<1>0. TypeOK /\ ~(k \in Call /\ k \in Cancel)
  BY ConstantsAssumption DEF IInv
<1>1. UNCHANGED <<running, completed, accepted, inbox, active, out, endEvents>>
  BY DEF Arrive, Deny, Ready, Admit, RefuseInput, Enqueue, Begin, Restarted, Rejected, Unknown,
       Found, Unresolved, AdmitCancel, Interrupted, Timeout
<1>2. proc' # "ending"
  BY DEF Reported, Reports, Arrive, Deny, Ready, Admit, RefuseInput, Enqueue, Begin, Restarted,
       Rejected, Unknown, Found, Unresolved, AdmitCancel, Interrupted, Timeout
<1>3. ASSUME NEW j \in Call, pc'[j] = "start" PROVE pc[j] = "start" /\ try'[j] = try[j]
  <2>1. j \in Worker
    BY DEF Worker
  <2>2. CASE j = k
    BY <1>0, <1>3, <2>1, <2>2 DEF TypeOK, Arrive, Deny, Ready, Admit, RefuseInput, Enqueue, Begin,
         Restarted, Rejected, Unknown, Found, Unresolved, Answer, AcceptedTurn, Reject
  <2>3. CASE j # k
    BY <1>0, <1>3, <2>1, <2>3 DEF TypeOK, Arrive, Deny, Ready, Admit, RefuseInput, Enqueue, Begin,
         Restarted, Rejected, Unknown, Found, Unresolved, AdmitCancel, Interrupted, Timeout,
         Answer, AcceptedTurn, Reject
  <2> QED
    BY <2>2, <2>3
<1>4. LinesGrow /\ \A i \in 1..Len(out') : ~(i > Len(out))
  <2>1. Len(out) \in Nat
    BY <1>0 DEF TypeOK
  <2> QED
    BY <1>0, <1>1, <2>1, StaysGrows
<1>5. Reports'
  BY <1>0, <1>1, <1>2, <1>3, <1>4, ReportFrame DEF Reported
<1> QED
  BY <1>0, <1>1, <1>5, CurrentKept

LEMMA OtherSendsReported ==
  ASSUME IInv, Reported, [Next]_vars, NEW k \in Worker,
         \/ LookUp(k) \/ (k \in Cancel /\ (Interrupt(k) \/ InterruptFound(k)))
         \/ k \in Call /\ (Connected(k) \/ Resumed(k)) /\ ~Send(k, "start")
  PROVE  Reported'
<1> USE DEF callVars, storeVars, managerVars, pipeVars, codexVars
<1>0. TypeOK /\ ~(k \in Call /\ k \in Cancel)
  BY ConstantsAssumption DEF IInv
<1>1. UNCHANGED <<running, completed, accepted, out, try, endEvents>>
  BY DEF LookUp, Interrupt, InterruptFound, Connected, Resumed
<1>2. \/ \E kind \in Kinds \ {"start"} : Send(k, kind)
      \/ /\ UNCHANGED <<proc, inbox>> /\ pc'[k] # "start"
         /\ \A j \in Worker : j # k => pc'[j] = pc[j]
  BY <1>0 DEF LookUp, Interrupt, InterruptFound, Connected, Resumed, StartTurn, Reject, Kinds, TypeOK
<1>3. /\ \A q \in inbox' : q \in inbox \/ q.kind # "start"
      /\ proc' # "ending" /\ pc'[k] # "start"
      /\ \A j \in Worker : j # k => pc'[j] = pc[j]
  <2>1. CASE \E kind \in Kinds \ {"start"} : Send(k, kind)
    <3>1. PICK kind \in Kinds \ {"start"} : Send(k, kind)
      BY <2>1
    <3> QED
      BY <1>0, <3>1, SendFacts DEF Reported, Reports
  <2> QED
    BY <1>2, <2>1 DEF Reported, Reports
<1>4. LinesGrow /\ \A i \in 1..Len(out') : ~(i > Len(out))
  <2>1. Len(out) \in Nat
    BY <1>0 DEF TypeOK
  <2> QED
    BY <1>0, <1>1, <2>1, StaysGrows
<1>5. Reports'
  BY <1>0, <1>1, <1>3, <1>4, ReportFrame DEF Reported, Worker
<1>6. CASE UNCHANGED active
  BY <1>0, <1>1, <1>5, <1>6, CurrentKept
<1>7. CASE k \in Cancel /\ InterruptFound(k)
  <2>1. pc'[k] = "interrupt"
    BY <1>0, <1>7 DEF InterruptFound, Send, TypeOK
  <2> QED
    BY <1>5, <1>7, <2>1 DEF Reported, NoneCancelled
<1> QED
  BY <1>6, <1>7 DEF LookUp, Interrupt, Connected, Resumed

LEMMA InitializeReported ==
  ASSUME IInv, Reported, [Next]_vars,
         \/ Initialized \/ (\E o \in {"timeout", "refused"} : InitializeFails(o)) \/ UNCHANGED vars
  PROVE  Reported'
<1>1. /\ UNCHANGED <<pc, try, running, completed, accepted, inbox, active, out, endEvents>>
      /\ UNCHANGED proc
  BY DEF Initialized, InitializeFails, storeVars, pipeVars, codexVars, vars, callVars, managerVars
<1>2. Len(out) \in Nat
  BY DEF IInv, TypeOK
<1>3. Reports'
  BY <1>1, <1>2, StaysGrows, ReportFrame DEF IInv, Reported, Reports
<1> QED
  BY <1>1, <1>3, CurrentKept DEF IInv

LEMMA StartReported ==
  ASSUME IInv, Queues, Tracked, Reported, [Next]_vars, NEW k \in Call,
         Connected(k) \/ Resumed(k), Send(k, "start")
  PROVE  Reported'
<1> USE DEF storeVars, managerVars, pipeVars, codexVars
<1> DEFINE new == <<k, try[k]>>
<1>0. TypeOK /\ k \in Worker /\ try[k] \in {1, 2} /\ new \in OwnTurn /\ TurnThread(new) = CallThread(k)
  <2>1. TypeOK /\ k \in Worker /\ try[k] \in {1, 2} /\ new \in OwnTurn
    BY DEF IInv, TypeOK, RowsOwned, Owning, OwnTurn, Worker, Connected, Resumed
  <2> QED
    BY <2>1, OwnTurnFacts
<1>1. /\ UNCHANGED <<try, running, completed, accepted, active, out, endEvents>>
      /\ pc[k] \in {"connect", "resume"}
  BY DEF Connected, Resumed
<1>2. /\ \A q \in inbox' : q \in inbox \/ q = StartRequest(new)
      /\ proc' # proc => proc = "down" /\ proc' = "up"
      /\ pc'[k] = "start" /\ \A j \in Worker : j # k => pc'[j] = pc[j]
  BY <1>0, SendFacts DEF StartRequest, Kinds
<1>3. active[CallThread(k)] = NoTurn
  BY <1>0, <1>2 DEF Connected, Resumed, StartTurn, Reject, Send, TypeOK
<1>4. new \notin accepted /\ new \notin endEvents
  <2>1. Fresh(new)
    BY <1>1 DEF Fresh, Unsent, Owning
  <2> QED
    BY <1>0, <2>1 DEF IInv, FreshUnseen, Possible, Reported, Reports, EndedRunNot
<1>5. proc' # "ending" /\ EndedRunNot' /\ StartsInOrder'
  BY <1>1, <1>2 DEF Reported, Reports, EndedRunNot, StartsInOrder
<1>6. ASSUME NEW w \in OwnTurn, Present(w)' PROVE Present(w) \/ w = new
  <2>1. StartRequest(w) = StartRequest(new) => w = new
    BY <1>0, OwnTurnFacts DEF StartRequest
  <2> QED
    BY <1>1, <1>2, <1>6, <2>1 DEF Present
<1>7. \A w \in OwnTurn : Present(w) => TurnThread(w) # CallThread(k)
  BY <1>1, <1>3, NonePresent DEF Reported, Reports
<1>8. OnlyOwn'
  <2>1. ASSUME NEW j \in Call, pc'[j] = "start", NEW w \in OwnTurn, Present(w)',
               TurnThread(w) = CallThread(j)
        PROVE  w = <<j, try[j]>>
    <3>1. CASE j = k
      BY <1>6, <1>7, <2>1, <3>1
    <3>2. CASE j # k
      <4>1. pc[j] = "start"
        BY <1>2, <2>1, <3>2 DEF Worker
      <4>2. CallThread(j) # CallThread(k)
        BY <1>0, <1>1, <3>2, <4>1, ServingHeads DEF Serving
      <4> QED
        BY <1>0, <1>6, <2>1, <4>1, <4>2 DEF Reported, Reports, OnlyOwn
    <3> QED
      BY <3>1, <3>2
  <2> QED
    BY <1>1, <2>1 DEF OnlyOwn, TurnThread, TurnClient, CallThread
<1>9. OwnEnd'
  <2>1. \A i \in 1..Len(out) : out[i].type = "turn_completed" => out[i].turn # new
    BY <1>4 DEF Tracked, EndsAreTrue
  <2>2. \A j \in Call : pc'[j] = "start" => pc[j] = "start" \/ j = k
    BY <1>2 DEF Worker
  <2> QED
    BY <1>1, <1>4, <2>1, <2>2 DEF Reported, Reports, OwnEnd, NoEnd, EndLine, TurnThread,
         TurnClient, CallThread
<1>10. Reports'
  BY <1>5, <1>8, <1>9 DEF Reports
<1> QED
  BY <1>0, <1>1, <1>10, CurrentKept

LEMMA StartedReported ==
  ASSUME IInv, Reported, [Next]_vars, NEW k \in Call, Started(k)
  PROVE  Reported'
<1> USE DEF codexVars, pipeVars
<1> DEFINE t == CallThread(k)
           u == <<k, try[k]>>
<1>0. TypeOK /\ k \in Worker /\ t \in Thread /\ u \in OwnTurn /\ TurnThread(u) = t
  <2>1. TypeOK /\ k \in Worker /\ u \in OwnTurn
    BY DEF IInv, TypeOK, RowsOwned, Owning, OwnTurn, Worker, Started
  <2> QED
    BY <2>1, OwnTurnFacts
<1>1. pc[k] = "start" /\ val[k] = u
  BY DEF Started, IInv, ResultsTrue
<1>2. UNCHANGED <<try, inbox, running, completed, accepted, proc, out, endEvents>>
  BY DEF Started
<1>3. pc'[k] = "ok" /\ \A j \in Worker : j # k => pc'[j] = pc[j]
  BY <1>0 DEF Started, Answer, TypeOK
<1>4. LinesGrow /\ \A i \in 1..Len(out') : ~(i > Len(out))
  <2>1. Len(out) \in Nat
    BY <1>0 DEF TypeOK
  <2> QED
    BY <1>0, <1>2, <2>1, StaysGrows
<1>5. Reports'
  BY <1>0, <1>2, <1>3, <1>4, ReportFrame DEF Reported, Reports, Worker
<1>6. completed[t] # u => u \notin endEvents
  BY <1>1 DEF Reported, Reports, OwnEnd
<1>7. NoneCancelled' => ActiveCurrent
  BY <1>0, IdleStep DEF Reported
<1>8. \A s \in Thread : active'[s] = active[s] \/ (s = t /\ active'[s] = u /\ completed[t] # u)
  BY <1>0, <1>1 DEF Started, TypeOK
<1>9. ActiveCurrent => ActiveCurrent'
  BY <1>0, <1>2, <1>6, <1>8 DEF ActiveCurrent, TurnThread, TurnClient
<1> QED
  BY <1>5, <1>7, <1>9 DEF Reported

(* What is announced and has not been read has not ended.                  *)
LEMMA StartsRead ==
  ASSUME StartsInOrder, LinesTail,
         \A u \in endEvents' : u \in endEvents \/ (out[1].type = "turn_completed" /\ u = out[1].turn)
  PROVE  StartsInOrder'
<1>1. \A i \in 1..Len(out') : i + 1 \in 1..Len(out) /\ out'[i] = out[i + 1] /\ i \in Nat /\ i >= 1
  BY DEF LinesTail
<1>2. 1 \in 1..Len(out)
  BY DEF LinesTail
<1>3. ASSUME NEW i \in 1..Len(out'), out'[i].type = "turn_started"
      PROVE  /\ out'[i].turn \notin endEvents'
             /\ \A j \in 1..Len(out') :
                  out'[j].type = "turn_completed" /\ out'[j].turn = out'[i].turn => i < j
  <2>1. i + 1 \in 1..Len(out) /\ out[i + 1].type = "turn_started" /\ out[i + 1].turn = out'[i].turn
    BY <1>1, <1>3
  <2>2. /\ out[i + 1].turn \notin endEvents
        /\ \A j \in 1..Len(out) :
             out[j].type = "turn_completed" /\ out[j].turn = out[i + 1].turn => i + 1 < j
    BY <2>1 DEF StartsInOrder
  <2>3. ~(out[1].type = "turn_completed" /\ out[1].turn = out[i + 1].turn)
    BY <1>1, <1>2, <1>3, <2>2
  <2>4. ASSUME NEW j \in 1..Len(out'), out'[j].type = "turn_completed", out'[j].turn = out'[i].turn
        PROVE  i < j
    <3>1. j + 1 \in 1..Len(out) /\ out[j + 1].type = "turn_completed"
          /\ out[j + 1].turn = out[i + 1].turn
      BY <1>1, <2>1, <2>4
    <3>2. i + 1 < j + 1
      BY <2>2, <3>1
    <3> QED
      BY <3>2
  <2> QED
    BY <2>1, <2>2, <2>3, <2>4
<1> QED
  BY <1>3 DEF StartsInOrder

LEMMA ResponseReported ==
  ASSUME IInv, Reported, [Next]_vars, DeliverResponse
  PROVE  Reported'
<1> USE DEF storeVars, managerVars, codexVars
<1>0. TypeOK /\ LinesTail
  BY TailFacts DEF DeliverResponse, IInv
<1>1. \A i \in 1..Len(out') : i + 1 \in 1..Len(out) /\ out'[i] = out[i + 1]
  BY <1>0 DEF LinesTail
<1>2. UNCHANGED <<pc, try, inbox, running, accepted, proc, active, completed, endEvents>>
  BY DEF DeliverResponse
<1>3. EndedRunNot' /\ OnlyOwn' /\ proc' # "ending"
  BY <1>2 DEF Reported, Reports, EndedRunNot, OnlyOwn, Present, TurnThread, TurnClient, CallThread
<1>4. StartsInOrder'
  BY <1>0, <1>2, StartsRead DEF Reported, Reports
<1>5. OwnEnd'
  <2>1. \A t \in Thread, i \in 1..Len(out') : EndLine(t, i)' => EndLine(t, i + 1)
    BY <1>1 DEF EndLine, TurnThread, TurnClient
  <2>2. \A t \in Thread : NoEnd(t) => NoEnd(t)'
    BY <1>1, <2>1 DEF NoEnd
  <2>3. ASSUME NEW k \in Call, pc[k] = "start", NEW i \in 1..Len(out'), NEW j \in 1..Len(out'),
               EndLine(CallThread(k), i)', out'[j].type = "turn_completed",
               out'[j].turn = <<k, try[k]>>
        PROVE  i <= j
    <3>1. i + 1 \in 1..Len(out) /\ EndLine(CallThread(k), i + 1)
      BY <1>1, <2>3 DEF EndLine, TurnThread, TurnClient, CallThread
    <3>2. j + 1 \in 1..Len(out) /\ out[j + 1].type = "turn_completed" /\ out[j + 1].turn = <<k, try[k]>>
      BY <1>1, <2>3
    <3>3. i + 1 <= j + 1
      BY <2>3, <3>1, <3>2 DEF Reported, Reports, OwnEnd
    <3> QED
      BY <3>3
  <2>4. \A k \in Call : CallThread(k) \in Thread
    BY CallThreads DEF Worker
  <2> QED
    BY <1>2, <2>2, <2>3, <2>4 DEF Reported, Reports, OwnEnd, CallThread
<1>6. Reports'
  BY <1>3, <1>4, <1>5 DEF Reports
<1> QED
  BY <1>0, <1>2, <1>6, CurrentKept

(* The end of a turn is read after the notice of its start, and of a turn  *)
(* whose start is awaited it is the last end on that thread.               *)
LEMMA NoticeReported ==
  ASSUME IInv, Tracked, Reported, [Next]_vars, DeliverNotice
  PROVE  Reported'
<1> USE DEF callVars, codexVars
<1> DEFINE l == Head(out)
           s == TurnThread(l.turn)
<1>0. TypeOK /\ LinesTail
  BY TailFacts DEF DeliverNotice, IInv
<1>1. \A i \in 1..Len(out') : i + 1 \in 1..Len(out) /\ out'[i] = out[i + 1] /\ i \in Nat /\ i >= 1
  BY <1>0 DEF LinesTail
<1>2. l \in Line /\ l = out[1] /\ 1 \in 1..Len(out) /\ l.type # "response"
  BY <1>0, OutTail DEF DeliverNotice, TypeOK, LinesTail
<1>3. l.turn \in OwnTurn /\ s \in Thread /\ l.turn # NoTurn
  <2>1. l.turn \in OwnTurn
    BY <1>2 DEF Line, Notice, Response
  <2> QED
    BY <2>1, OwnTurnFacts, ConstantsAssumption DEF Turn
<1>4. UNCHANGED <<pc, try, inbox, running, accepted, proc>>
  BY DEF DeliverNotice
<1>5. l.type = "turn_completed" => l.turn \in accepted \ running
  BY <1>2 DEF Tracked, EndsAreTrue
<1>6. /\ l.type = "turn_completed" =>
           /\ endEvents' = endEvents \cup {l.turn} /\ completed' = [completed EXCEPT ![s] = l.turn]
           /\ active' = IF active[s] = l.turn THEN [active EXCEPT ![s] = NoTurn] ELSE active
      /\ l.type # "turn_completed" => UNCHANGED <<endEvents, completed>>
      /\ l.type = "turn_started" => active' = [active EXCEPT ![s] = l.turn]
      /\ l.type \notin {"turn_completed", "turn_started"} => active' = active
  BY DEF DeliverNotice
<1> HIDE DEF l, s
<1>7. EndedRunNot' /\ OnlyOwn' /\ proc' # "ending"
  <2>1. EndedRunNot'
    BY <1>4, <1>5, <1>6 DEF Reported, Reports, EndedRunNot
  <2> QED
    BY <1>4, <2>1 DEF Reported, Reports, OnlyOwn, Present, TurnThread, TurnClient, CallThread
<1>8. StartsInOrder'
  BY <1>0, <1>2, <1>6, StartsRead DEF Reported, Reports
<1>9. \A t \in Thread : NoEnd(t) => NoEnd(t)'
  BY <1>1 DEF NoEnd, EndLine, TurnThread, TurnClient
<1>10. ASSUME NEW k \in Call, pc[k] = "start"
       PROVE  /\ \A i, j \in 1..Len(out') :
                   /\ EndLine(CallThread(k), i)'
                   /\ out'[j].type = "turn_completed" /\ out'[j].turn = <<k, try[k]>>
                   => i <= j
              /\ <<k, try[k]>> \in endEvents' =>
                   NoEnd(CallThread(k))' /\ completed'[CallThread(k)] = <<k, try[k]>>
  <2> DEFINE u == <<k, try[k]>>
             t == CallThread(k)
  <2>0. t \in Thread
    BY CallThreads DEF Worker
  <2>a. CallThread(k)' = t
    BY DEF CallThread
  <2>1. /\ \A i, j \in 1..Len(out) :
             EndLine(t, i) /\ out[j].type = "turn_completed" /\ out[j].turn = u => i <= j
        /\ u \in endEvents => NoEnd(t) /\ completed[t] = u
    BY <1>10 DEF Reported, Reports, OwnEnd
  <2> HIDE DEF t, u
  <2>2. ASSUME NEW i \in 1..Len(out'), EndLine(t, i)' PROVE i + 1 \in 1..Len(out) /\ EndLine(t, i + 1)
    BY <1>1, <2>2 DEF EndLine, TurnThread, TurnClient, t, CallThread
  <2>3. ASSUME NEW i \in 1..Len(out'), NEW j \in 1..Len(out'), EndLine(t, i)',
               out'[j].type = "turn_completed", out'[j].turn = u
        PROVE  i <= j
    <3>1. i + 1 \in 1..Len(out) /\ EndLine(t, i + 1)
      BY <2>2, <2>3
    <3>2. j + 1 \in 1..Len(out) /\ out[j + 1].type = "turn_completed" /\ out[j + 1].turn = u
      BY <1>1, <2>3
    <3>3. i + 1 <= j + 1
      BY <2>1, <3>1, <3>2
    <3> QED
      BY <3>3
  <2>4. ASSUME u \in endEvents' PROVE NoEnd(t)' /\ completed'[t] = u
    <3>1. CASE l.type = "turn_completed" /\ l.turn = u
      <4>1. s = t
        BY <3>1 DEF s, t, u, TurnThread, TurnClient, CallThread
      <4>2. ~\E i \in 1..Len(out') : EndLine(t, i)'
        <5> SUFFICES ASSUME NEW i \in 1..Len(out'), EndLine(t, i)' PROVE FALSE
          OBVIOUS
        <5>1. i + 1 \in 1..Len(out) /\ EndLine(t, i + 1)
          BY <2>2
        <5>2. i + 1 <= 1
          BY <1>2, <2>1, <3>1, <5>1
        <5> QED
          BY <1>1, <5>2
      <4>3. NoEnd(t)'
        BY <4>2 DEF NoEnd, t, CallThread
      <4> QED
        BY <1>0, <1>6, <2>0, <3>1, <4>1, <4>3 DEF TypeOK
    <3>2. CASE u \in endEvents
      <4>1. NoEnd(t) /\ completed[t] = u
        BY <2>1, <3>2
      <4>2. NoEnd(t)'
        BY <1>1, <4>1 DEF NoEnd, EndLine, TurnThread, TurnClient, t, CallThread
      <4>3. ~(l.type = "turn_completed" /\ s = t)
        BY <1>2, <4>1 DEF NoEnd, EndLine, s
      <4>4. completed'[t] = completed[t]
        BY <1>0, <1>6, <2>0, <4>3 DEF TypeOK
      <4> QED
        BY <4>1, <4>2, <4>4
    <3> QED
      BY <1>6, <2>4, <3>1, <3>2
  <2> QED
    BY <2>a, <2>3, <2>4 DEF t, u
<1>11. OwnEnd'
  BY <1>4, <1>10 DEF OwnEnd
<1>12. Reports'
  BY <1>7, <1>8, <1>11 DEF Reports
<1>13. ASSUME ActiveCurrent PROVE ActiveCurrent'
  <2> SUFFICES ASSUME NEW t \in Thread, active'[t] # NoTurn
               PROVE  active'[t] \in OwnTurn /\ TurnThread(active'[t]) = t /\ active'[t] \notin endEvents'
    BY DEF ActiveCurrent, TurnThread, TurnClient
  <2>1. CASE l.type = "turn_started"
    <3>1. l.turn \notin endEvents
      BY <1>2, <2>1 DEF Reported, Reports, StartsInOrder
    <3> QED
      BY <1>0, <1>3, <1>6, <1>13, <2>1, <3>1 DEF ActiveCurrent, TypeOK, s
  <2>2. CASE l.type = "turn_completed"
    <3>1. active'[t] = active[t] /\ ~(t = s /\ active[t] = l.turn)
      BY <1>0, <1>3, <1>6, <2>2 DEF TypeOK
    <3>2. active[t] \in OwnTurn /\ TurnThread(active[t]) = t /\ active[t] \notin endEvents
      BY <1>13, <3>1 DEF ActiveCurrent
    <3>3. active[t] # l.turn
      BY <3>1, <3>2 DEF s
    <3> QED
      BY <1>6, <2>2, <3>1, <3>2, <3>3
  <2>3. CASE l.type \notin {"turn_started", "turn_completed"}
    BY <1>6, <1>13, <2>3 DEF ActiveCurrent
  <2> QED
    BY <2>1, <2>2, <2>3
<1>14. NoneCancelled' => ActiveCurrent
  BY <1>0, IdleStep DEF Reported
<1> QED
  BY <1>12, <1>13, <1>14 DEF Reported

LEMMA RestartReported ==
  ASSUME IInv, Reported, BridgeRestart
  PROVE  Reported'
<1>1. /\ \A k \in Worker : pc'[k] # "start"
      /\ out' = <<>> /\ running' = {} /\ proc' = "down" /\ UNCHANGED <<accepted, endEvents>>
      /\ \A t \in Thread : active'[t] = NoTurn
  BY DEF BridgeRestart, Waits, Kinds
<1> QED
  BY <1>1 DEF Reported, Reports, EndedRunNot, StartsInOrder, OnlyOwn, OwnEnd, ActiveCurrent, Worker

LEMMA CodexQuietReported ==
  ASSUME IInv, Reported, [Next]_vars,
         \/ \E q \in inbox : \/ CodexResumes(q) \/ CodexReads(q)
                             \/ \E o \in Errors : o \in Outcomes /\ CodexRefuses(q, o)
         \/ \E u \in running : CodexRecords(u)
         \/ \E q \in orphaned : OrphanStarts(q)
         \/ \E u \in foreign : ForeignEnds(u)
  PROVE  Reported'
<1> USE DEF callVars, managerVars, pipeVars, storeVars
<1>0. TypeOK /\ out \in Seq(Line) /\ Len(out) \in Nat
  BY DEF IInv, TypeOK
<1>1. /\ UNCHANGED <<pc, try, active, completed, proc, running, endEvents>>
      /\ accepted \subseteq accepted' /\ inbox' \subseteq inbox
  BY DEF CodexResumes, CodexReads, CodexRefuses, CodexRecords, OrphanStarts, ForeignEnds, codexVars
<1>2. UNCHANGED out \/ \E m : out' = Append(out, m) /\ m.type \in {"response", "user_message"}
  <2>1. ASSUME NEW q, NEW o, NEW u PROVE Reply(q, o, u).type = "response"
    BY DEF Reply
  <2>2. ASSUME NEW u PROVE Note("user_message", u).type = "user_message"
    BY DEF Note
  <2> QED
    BY <2>1, <2>2 DEF CodexResumes, CodexReads, CodexRefuses, CodexRecords, OrphanStarts, ForeignEnds
<1>3. LinesGrow /\ \A i \in 1..Len(out') : i > Len(out) => out'[i].type # "turn_started"
  <2>1. CASE UNCHANGED out
    BY <1>0, <2>1, StaysGrows
  <2>2. CASE \E m : out' = Append(out, m) /\ m.type \in {"response", "user_message"}
    <3>1. PICK m : out' = Append(out, m) /\ m.type \in {"response", "user_message"}
      BY <2>2
    <3>2. Len(out') = Len(out) + 1 /\ out'[Len(out) + 1] = m
      BY <1>0, <3>1
    <3> QED
      BY <1>0, <3>1, <3>2, AppendGrows
  <2> QED
    BY <1>2, <2>1, <2>2
<1>4. Reports'
  BY <1>0, <1>1, <1>3, ReportFrame DEF Reported, Reports
<1> QED
  BY <1>0, <1>1, <1>4, CurrentKept

LEMMA CodexStartsReported ==
  ASSUME IInv, Tracked, Reported, [Next]_vars, NEW q \in inbox, CodexStarts(q)
  PROVE  Reported'
<1> USE DEF callVars, managerVars, storeVars
<1> DEFINE u == <<q.call, q.n>>
<1>0. /\ TypeOK /\ q \in StartRequests /\ u \in OwnTurn /\ q = StartRequest(u)
      /\ out \in Seq(Line) /\ Len(out) \in Nat
  BY DEF CodexStarts, IInv, TypeOK, Request, StartRequests, OwnTurn, StartRequest
<1>1. /\ UNCHANGED <<pc, try, active, completed, proc, endEvents>>
      /\ running' = running \cup {u} /\ accepted' = accepted \cup {u} /\ inbox' = inbox \ {q}
  BY DEF CodexStarts
<1>2. u \notin accepted /\ u \notin endEvents
  BY <1>0 DEF IInv, SentOnce, Reported, Reports, EndedRunNot
<1>3. /\ Len(out') = Len(out) + 2
      /\ \A i \in 1..Len(out) : out'[i] = out[i]
      /\ \A i \in {Len(out) + 1, Len(out) + 2} :
           /\ out'[i].type # "turn_completed"
           /\ out'[i].type = "turn_started" => out'[i].turn = u
  <2>1. CASE out' = out \o <<Reply(q, "ok", u), Note("turn_started", u)>>
    BY <1>0, <2>1 DEF Reply, Note
  <2>2. CASE out' = out \o <<Note("turn_started", u), Reply(q, "ok", u)>>
    BY <1>0, <2>2 DEF Reply, Note
  <2> QED
    BY <2>1, <2>2 DEF CodexStarts
<1>4. \A i \in 1..Len(out') : \/ i \in 1..Len(out) /\ out'[i] = out[i]
                              \/ i \in {Len(out) + 1, Len(out) + 2}
  BY <1>0, <1>3
<1>5. EndedRunNot'
  BY <1>1, <1>2 DEF Reported, Reports, EndedRunNot
<1>6. StartsInOrder'
  <2>1. ASSUME NEW i \in 1..Len(out'), out'[i].type = "turn_started"
        PROVE  /\ out'[i].turn \notin endEvents
               /\ \A j \in 1..Len(out') :
                    out'[j].type = "turn_completed" /\ out'[j].turn = out'[i].turn => i < j
    <3>1. CASE i \in 1..Len(out)
      BY <1>3, <1>4, <2>1, <3>1 DEF Reported, Reports, StartsInOrder
    <3>2. CASE i \in {Len(out) + 1, Len(out) + 2}
      <4>1. out'[i].turn = u
        BY <1>3, <2>1, <3>2
      <4>2. \A j \in 1..Len(out') : out'[j].type = "turn_completed" => out'[j].turn # u
        BY <1>2, <1>3, <1>4 DEF Tracked, EndsAreTrue
      <4> QED
        BY <1>2, <4>1, <4>2
    <3> QED
      BY <1>4, <3>1, <3>2
  <2> QED
    BY <1>1, <2>1 DEF StartsInOrder
<1>7. OnlyOwn'
  <2>1. \A w \in OwnTurn : Present(w)' => Present(w)
    BY <1>0, <1>1 DEF Present
  <2> QED
    BY <1>1, <2>1 DEF Reported, Reports, OnlyOwn, TurnThread, TurnClient, CallThread
<1>8. OwnEnd'
  <2>1. ASSUME NEW i \in 1..Len(out'), out'[i].type = "turn_completed"
        PROVE  i \in 1..Len(out) /\ out'[i] = out[i]
    BY <1>3, <1>4, <2>1
  <2>2. \A k \in Call, i \in 1..Len(out') :
          EndLine(CallThread(k), i)' => i \in 1..Len(out) /\ EndLine(CallThread(k), i)
    BY <2>1 DEF EndLine, TurnThread, TurnClient, CallThread
  <2>3. ASSUME NEW k \in Call, pc[k] = "start", NEW i \in 1..Len(out'), NEW j \in 1..Len(out'),
               EndLine(CallThread(k), i)', out'[j].type = "turn_completed",
               out'[j].turn = <<k, try[k]>>
        PROVE  i <= j
    BY <2>1, <2>2, <2>3 DEF Reported, Reports, OwnEnd
  <2>4. \A k \in Call : NoEnd(CallThread(k)) => NoEnd(CallThread(k))'
    BY <2>2 DEF NoEnd
  <2> QED
    BY <1>1, <2>3, <2>4 DEF Reported, Reports, OwnEnd, CallThread
<1>9. Reports'
  BY <1>1, <1>5, <1>6, <1>7, <1>8 DEF Reported, Reports
<1> QED
  BY <1>0, <1>1, <1>9, CurrentKept

(* A turn that is running ends; it is the turn of the call that awaits its *)
(* start, if there is one on the thread.                                   *)
LEMMA CodexEndsReported ==
  ASSUME IInv, Tracked, Reported, [Next]_vars,
         \/ \E q \in inbox : CodexInterrupts(q)
         \/ \E v \in running : CodexCompletes(v)
  PROVE  Reported'
<1>0. TypeOK /\ Len(out) \in Nat
  BY DEF IInv, TypeOK
<1>1. PICK u \in running : EndOf(u)
  BY <1>0, CodexEnds
<1>2. /\ UNCHANGED <<pc, try, active, completed, proc, accepted, endEvents>>
      /\ running' = running \ {u} /\ inbox' \subseteq inbox
      /\ Len(out') \in Nat /\ Len(out) < Len(out')
      /\ \A i \in 1..Len(out) : out'[i] = out[i]
      /\ \A i \in 1..Len(out') : i > Len(out) /\ out'[i].type = "turn_completed" =>
           out'[i].turn = u /\ i = Len(out')
      /\ \A i \in 1..Len(out') : i > Len(out) => out'[i].type # "turn_started"
  BY <1>1 DEF EndOf
<1>3. u \in OwnTurn /\ u \in accepted /\ u \notin endEvents
  BY <1>0 DEF TypeOK, Reported, Reports, EndedRunNot
<1>4. \A i \in 1..Len(out') : i \in 1..Len(out) \/ i > Len(out)
  BY <1>0, <1>2
<1>5. EndedRunNot'
  BY <1>2 DEF Reported, Reports, EndedRunNot
<1>6. StartsInOrder'
  <2>1. ASSUME NEW i \in 1..Len(out'), out'[i].type = "turn_started",
               NEW j \in 1..Len(out'), out'[j].type = "turn_completed", out'[j].turn = out'[i].turn
        PROVE  i < j
    <3>1. i \in 1..Len(out)
      BY <1>2, <1>4, <2>1
    <3>2. CASE j \in 1..Len(out)
      BY <1>2, <2>1, <3>1, <3>2 DEF Reported, Reports, StartsInOrder
    <3>3. CASE j > Len(out)
      BY <1>0, <1>2, <3>1, <3>3
    <3> QED
      BY <1>4, <3>2, <3>3
  <2>2. \A i \in 1..Len(out') : out'[i].type = "turn_started" => out'[i].turn \notin endEvents
    BY <1>2, <1>4 DEF Reported, Reports, StartsInOrder
  <2> QED
    BY <1>2, <2>1, <2>2 DEF StartsInOrder
<1>7. OnlyOwn'
  <2>1. \A w \in OwnTurn : Present(w)' => Present(w)
    BY <1>2 DEF Present
  <2> QED
    BY <1>2, <2>1 DEF Reported, Reports, OnlyOwn, TurnThread, TurnClient, CallThread
<1>8. ASSUME NEW k \in Call, pc[k] = "start"
      PROVE  /\ \A i, j \in 1..Len(out') :
                  /\ EndLine(CallThread(k), i)'
                  /\ out'[j].type = "turn_completed" /\ out'[j].turn = <<k, try[k]>>
                  => i <= j
             /\ <<k, try[k]>> \in endEvents =>
                  NoEnd(CallThread(k))' /\ completed[CallThread(k)] = <<k, try[k]>>
  <2>1. TurnThread(u) = CallThread(k) => u = <<k, try[k]>>
    BY <1>3, <1>8 DEF Reported, Reports, OnlyOwn, Present
  <2>2. ASSUME NEW i \in 1..Len(out'), EndLine(CallThread(k), i)'
        PROVE  \/ i \in 1..Len(out) /\ EndLine(CallThread(k), i)
               \/ i = Len(out') /\ u = <<k, try[k]>>
    <3>1. out'[i].type = "turn_completed" /\ TurnThread(out'[i].turn) = CallThread(k)
      BY <2>2 DEF EndLine, TurnThread, TurnClient, CallThread
    <3> QED
      BY <1>2, <1>4, <2>1, <3>1 DEF EndLine
  <2>3. ASSUME NEW i \in 1..Len(out'), NEW j \in 1..Len(out'), EndLine(CallThread(k), i)',
               out'[j].type = "turn_completed", out'[j].turn = <<k, try[k]>>
        PROVE  i <= j
    <3>1. CASE j \in 1..Len(out)
      <4>1. out[j].type = "turn_completed" /\ out[j].turn = <<k, try[k]>>
        BY <1>2, <2>3, <3>1
      <4>2. u # <<k, try[k]>>
        BY <3>1, <4>1 DEF Tracked, EndsAreTrue
      <4>3. i \in 1..Len(out) /\ EndLine(CallThread(k), i)
        BY <2>2, <2>3, <4>2
      <4> QED
        BY <1>8, <3>1, <4>1, <4>3 DEF Reported, Reports, OwnEnd
    <3>2. CASE j > Len(out)
      BY <1>2, <2>3, <3>2
    <3> QED
      BY <1>4, <3>1, <3>2
  <2>4. ASSUME <<k, try[k]>> \in endEvents
        PROVE  NoEnd(CallThread(k))' /\ completed[CallThread(k)] = <<k, try[k]>>
    <3>1. NoEnd(CallThread(k)) /\ completed[CallThread(k)] = <<k, try[k]>>
      BY <1>8, <2>4 DEF Reported, Reports, OwnEnd
    <3>2. \A i \in 1..Len(out') : ~EndLine(CallThread(k), i)'
      BY <1>3, <2>2, <2>4, <3>1 DEF NoEnd
    <3> QED
      BY <3>1, <3>2 DEF NoEnd
  <2> QED
    BY <2>3, <2>4
<1>9. OwnEnd'
  BY <1>2, <1>8 DEF OwnEnd, CallThread
<1>10. Reports'
  BY <1>2, <1>5, <1>6, <1>7, <1>9 DEF Reported, Reports
<1> QED
  BY <1>0, <1>2, <1>10, CurrentKept

LEMMA ReportedStep ==
  ASSUME Slow \cap Call = {}, IInv, Queues, Tracked, Reported, [Next]_vars, ~ConnectionLost
  PROVE  Reported'
<1>1. ASSUME NEW k \in Call, MessageStep(k) PROVE Reported'
  <2>1. k \in Worker /\ ~Restart(k)
    BY DEF Worker, ConnectionLost
  <2> QED
    BY <1>1, <2>1, OtherCallsReported, OtherSendsReported, StartReported, StartedReported
       DEF MessageStep
<1>2. ASSUME NEW k \in Worker, Arrive(k) \/ Deny(k) \/ Ready(k) \/ Timeout(k) PROVE Reported'
  <2>1. Timeout(k) => k \in Cancel
    BY DEF Timeout, Worker
  <2> QED
    BY <1>2, <2>1, OtherCallsReported
<1>3. ASSUME NEW i \in Cancel, CancelStep(i) PROVE Reported'
  <2>1. i \in Worker
    BY DEF Worker
  <2> QED
    BY <1>3, <2>1, OtherCallsReported, OtherSendsReported DEF CancelStep
<1>4. CASE Codex
  BY <1>4, CodexQuietReported, CodexStartsReported, CodexEndsReported DEF Codex
<1>5. ~ProcessExit
  BY DEF ConnectionLost
<1> QED
  BY <1>1, <1>2, <1>3, <1>4, <1>5, InitializeReported, NoticeReported, ResponseReported,
     RestartReported DEF Next, Step

(* If no request of a message times out and the connection to the          *)
(* app-server is not lost, the active turn of a thread is never one whose  *)
(* end is stored, until a cancel comes in: for any number of calls and     *)
(* threads, across restarts of the bridge, and in whatever order the       *)
(* response to turn/start, turn/started and turn/completed are handled     *)
(* (manager.ts:53, 70).                                                   *)
THEOREM ActiveIsCurrent ==
  ASSUME Slow \cap Call = {}
  PROVE  Spec /\ [][~ConnectionLost]_vars => []ActiveNotEnded
<1>1. Init => IInv /\ Queues /\ Tracked /\ Reported
  <2> SUFFICES ASSUME Init PROVE IInv /\ Queues /\ Tracked /\ Reported
    OBVIOUS
  <2>1. Len(out) = 0 /\ running = {} /\ inbox = {} /\ proc = "down" /\ endEvents = {}
    BY DEF Init
  <2>2. \A t \in Thread : completed[t] = NoTurn /\ active[t] = NoTurn /\ NoTurn \notin OwnTurn
    BY ConstantsAssumption DEF Init, Turn
  <2>3. Queues
    BY DEF Init, Queues, Serving, Worker
  <2>4. Tracked
    BY <2>1, <2>2 DEF Tracked, GoneRunsNothing, EndsAreTrue, EndsInOrder, OnePresent, InSight,
         Present
  <2>5. Reported
    BY <2>1, <2>2 DEF Init, Worker, Reported, Reports, EndedRunNot, StartsInOrder, OnlyOwn,
         OwnEnd, ActiveCurrent
  <2> QED
    BY <2>3, <2>4, <2>5, IInvInit
<1>2. /\ IInv /\ Queues /\ Tracked /\ Reported
      /\ [Next]_vars /\ [~ConnectionLost]_vars
      => (IInv /\ Queues /\ Tracked /\ Reported)'
  <2> SUFFICES ASSUME IInv, Queues, Tracked, Reported, [Next]_vars, [~ConnectionLost]_vars
               PROVE  (IInv /\ Queues /\ Tracked /\ Reported)'
    OBVIOUS
  <2>1. CASE ~ConnectionLost
    BY <2>1, IInvNext, QueuesStep, TrackedStep, ReportedStep
  <2>2. CASE UNCHANGED vars
    BY <2>2, IInvNext, QueuesStep, TrackedStep, InitializeReported
  <2> QED
    BY <2>1, <2>2
<1>3. IInv /\ Reported => ActiveNotEnded
  <2>1. TypeOK => NoTurn \notin endEvents
    BY ConstantsAssumption DEF TypeOK
  <2> QED
    BY <2>1 DEF IInv, Reported, NoneCancelled, ActiveCurrent, ActiveNotEnded
<1> QED
  BY <1>1, <1>2, <1>3, PTL DEF Spec
=============================================================================
