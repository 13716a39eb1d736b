-------------------------- MODULE EventSyncProofs ---------------------------
(***************************************************************************)
(* Proofs about EventSync: the types of its variables, that two runs of    *)
(* syncAll never overlap, whatever fails and however often, and that up to *)
(* a first failure the client's copy has no gap behind its cursor and is   *)
(* filled in the order of the log.                                         *)
(***************************************************************************)
EXTENDS EventSync, Integers, TLAPS

(* The run in progress is the one syncInFlight names.                      *)
Active(g) == sync[g].pc \in {"begin", "fetch", "page", "apply", "stream"}
InFlightIsActive == \A g \in Generation : Active(g) => g = syncInFlight

IInv == TypeOK /\ InFlightIsActive

-----------------------------------------------------------------------------
(* Types.                                                                  *)

LEMMA NoRunType == NoRun \in Run
BY SyncAssumption DEF NoRun, NoPage, Run, Page, Event

(* A page is typed, and its cursor is within the log.                      *)
LEMMA SyncPageType ==
  ASSUME TypeOK, NEW c \in 0..MaxSeq, NEW s \in 0..MaxStream
  PROVE  SyncPage(c, s) \in Page
<1> DEFINE reset == \/ s # 0 /\ s # stream
                    \/ s = 0 /\ c > 0
                    \/ c > latest
           start == IF reset THEN 0 ELSE c
           end == IF start + PageSize < latest THEN start + PageSize ELSE latest
<1>1. reset \in BOOLEAN /\ start \in 0..MaxSeq
  BY SyncAssumption
<1>2. end \in 0..MaxSeq
  BY <1>1, SyncAssumption DEF TypeOK
<1>3. Visible(start + 1, end) \subseteq Event
  BY DEF Visible
<1>4. (end < latest) \in BOOLEAN
  BY <1>2
<1>5. SyncPage(c, s) = [stream |-> stream, reset |-> reset, cursor |-> end,
                        more |-> end < latest, events |-> Visible(start + 1, end)]
  BY DEF SyncPage
<1> HIDE DEF reset, start, end
<1> QED
  BY <1>1, <1>2, <1>3, <1>4, <1>5 DEF Page, TypeOK

LEMMA AdvancedType ==
  ASSUME TypeOK, NEW g \in Generation
  PROVE  Advanced(g) \in 0..MaxSeq
<1>1. sync[g] \in Run
  BY DEF TypeOK
<1>2. sync[g].page \in Page /\ sync[g].current \in 0..MaxSeq
  BY <1>1 DEF Run
<1>3. sync[g].page.cursor \in 0..MaxSeq
  BY <1>2 DEF Page
<1> QED
  BY <1>2, <1>3 DEF Advanced

LEMMA EnqueueType ==
  ASSUME TypeOK, NEW e \in Event, NEW g \in Generation, NEW of \in {"sync", "live"},
         Enqueue(e, g, of)
  PROVE  projectQueue' \in Seq(Task) /\ projectQueue' # <<>>
<1>1. [event |-> e, gen |-> g, of |-> of] \in Task
  BY DEF Task
<1>2. projectQueue \in Seq(Task)
  BY DEF TypeOK
<1>3. projectQueue' = Append(projectQueue, [event |-> e, gen |-> g, of |-> of])
  BY DEF Enqueue
<1> QED
  BY <1>1, <1>2, <1>3

(* Settling a run leaves the runs typed and one at most in flight.         *)
LEMMA SettleFacts ==
  ASSUME IInv, NEW g \in Generation, NEW ok \in BOOLEAN, Active(g), Settle(g, ok)
  PROVE  /\ sync' \in [Generation -> Run]
         /\ syncInFlight' \in {0} \cup Generation
         /\ phase' = phase \/ (phase = "opening" /\ phase' \in {"draining", "closed"})
         /\ InFlightIsActive'
<1> DEFINE waiting == {h \in Generation : sync[h].pc = "wait"}
           settled == {g} \cup {h \in Generation : sync[h].pc = "join"}
           isNext(h) == h \in waiting /\ \A k \in waiting : h <= k
           new(h) == IF h \in settled THEN NoRun
                     ELSE IF isNext(h) THEN [sync[h] EXCEPT !.pc = "begin"]
                     ELSE IF h \in waiting THEN [sync[h] EXCEPT !.pc = "join"]
                     ELSE sync[h]
<1>1. /\ sync' = [h \in Generation |-> new(h)]
      /\ \/ waiting = {} /\ syncInFlight' = 0
         \/ \E h \in waiting : isNext(h) /\ syncInFlight' = h
      /\ phase' = phase \/ (phase = "opening" /\ phase' \in {"draining", "closed"})
  BY DEF Settle
<1>2. ASSUME NEW h \in Generation
      PROVE  /\ new(h) \in Run
             /\ new(h).pc \in {"begin", "fetch", "page", "apply", "stream"} => isNext(h)
  <2>1. sync[h] \in Run
    BY DEF IInv, TypeOK
  <2>2. CASE h \in settled
    BY <2>2, NoRunType DEF NoRun
  <2>3. CASE h \notin settled /\ isNext(h)
    BY <2>1, <2>3 DEF Run
  <2>4. CASE h \notin settled /\ ~isNext(h) /\ h \in waiting
    BY <2>1, <2>4 DEF Run
  <2>5. CASE h \notin settled /\ ~isNext(h) /\ h \notin waiting
    BY <2>1, <2>5 DEF IInv, InFlightIsActive, Active
  <2> QED
    BY <2>2, <2>3, <2>4, <2>5
<1>3. \A h, k \in Generation : isNext(h) /\ isNext(k) => h = k
  BY DEF Generation
<1>4. waiting \subseteq Generation
  OBVIOUS
<1> HIDE DEF new
<1>5. sync' \in [Generation -> Run]
  BY <1>1, <1>2
<1>6. syncInFlight' \in {0} \cup Generation
  BY <1>1, <1>4
<1>7. ASSUME NEW h \in Generation, Active(h)'
      PROVE  h = syncInFlight'
  BY <1>1, <1>2, <1>3, <1>4, <1>7 DEF Active
<1> QED
  BY <1>1, <1>5, <1>6, <1>7 DEF InFlightIsActive

-----------------------------------------------------------------------------
(* Every step preserves IInv.                                              *)

LEMMA ConstantTypes ==
  /\ Generation \subseteq Nat
  /\ MaxSeq \in Nat /\ MaxStream \in Nat /\ MaxDrop \in Nat
  /\ 1 \in 1..MaxStream
BY SyncAssumption DEF Generation

LEMMA InitIInv == Init => IInv
<1> SUFFICES ASSUME Init PROVE IInv
  OBVIOUS
<1>1. sync \in [Generation -> Run]
  BY NoRunType DEF Init
<1>2. TypeOK
  BY <1>1, ConstantTypes DEF Init, TypeOK
<1>3. InFlightIsActive
  BY DEF Init, InFlightIsActive, Active, NoRun
<1> QED
  BY <1>2, <1>3 DEF IInv

(* Actions that leave the runs alone.                                      *)
LEMMA QuietStep ==
  ASSUME IInv, UNCHANGED syncVars, TypeOK'
  PROVE  IInv'
BY DEF IInv, InFlightIsActive, Active, syncVars

LEMMA ServerStep ==
  ASSUME IInv, Record \/ Publish
  PROVE  IInv'
<1> USE DEF IInv
<1>1. ASSUME Record PROVE IInv'
  <2>1. [stream |-> stream, seq |-> latest + 1] \in Event
    BY <1>1, ConstantTypes DEF Record, TypeOK, Event
  <2>2. publishQueue' \in Seq(Event)
    BY <1>1, <2>1 DEF Record, TypeOK
  <2>3. latest' \in 0..MaxSeq
    BY <1>1, ConstantTypes DEF Record, TypeOK
  <2>4. TypeOK'
    BY <1>1, <2>2, <2>3 DEF Record, TypeOK, dbVars, socketVars, taskVars, syncVars
  <2> QED
    BY <1>1, <2>4, QuietStep DEF Record
<1>2. ASSUME Publish PROVE IInv'
  <2>1. publishQueue' \in Seq(Event) /\ Head(publishQueue) \in Event
    BY <1>2 DEF Publish, TypeOK
  <2>2. wire' \in Seq(Event)
    BY <1>2, <2>1 DEF Publish, TypeOK
  <2>3. TypeOK'
    BY <1>2, <2>1, <2>2 DEF Publish, TypeOK, dbVars, taskVars, syncVars
  <2> QED
    BY <1>2, <2>3, QuietStep DEF Publish
<1> QED
  BY <1>1, <1>2

LEMMA SocketStep ==
  ASSUME IInv, Reopen \/ Replace \/ Accept \/ Receive \/ DrainBuffered
  PROVE  IInv'
<1> USE DEF IInv
<1>1. ASSUME OpenSocket, drops' \in 0..MaxDrop PROVE IInv'
  <2>1. wsGeneration' \in 0..(MaxDrop + 1)
    BY <1>1, ConstantTypes DEF OpenSocket, TypeOK
  <2>2. wire' \in Seq(Event) /\ buffered' \in Seq(Event)
    BY <1>1 DEF OpenSocket
  <2>3. TypeOK'
    BY <1>1, <2>1, <2>2
       DEF OpenSocket, TypeOK, serverVars, dbVars, taskVars, syncVars
  <2> QED
    BY <1>1, <2>3, QuietStep DEF OpenSocket
<1>2. ASSUME Reopen PROVE IInv'
  BY <1>1, <1>2 DEF Reopen, TypeOK
<1>3. ASSUME Replace PROVE IInv'
  <2>1. drops' \in 0..MaxDrop
    BY <1>3, ConstantTypes DEF Replace, TypeOK
  <2> QED
    BY <1>1, <1>3, <2>1 DEF Replace
<1>4. ASSUME Accept PROVE IInv'
  <2>1. TypeOK'
    BY <1>4 DEF Accept, TypeOK, serverVars, dbVars, taskVars, syncVars
  <2> QED
    BY <1>4, <2>1, QuietStep DEF Accept
<1>5. ASSUME phase # "none" PROVE wsGeneration \in Generation
  BY <1>5, ConstantTypes DEF TypeOK, Generation
<1>6. ASSUME Receive PROVE IInv'
  <2>1. wsGeneration \in Generation /\ wire' \in Seq(Event) /\ Head(wire) \in Event
    BY <1>5, <1>6 DEF Receive, TypeOK
  <2>2. projectQueue' \in Seq(Task) /\ (projecting # "idle" => projectQueue' # <<>>)
    BY <1>6, <2>1, EnqueueType DEF Receive, TypeOK
  <2>3. buffered' \in Seq(Event)
    <3>1. buffered' = buffered \/ buffered' = Append(buffered, Head(wire))
      BY <1>6 DEF Receive
    <3>2. buffered \in Seq(Event)
      BY DEF TypeOK
    <3> QED
      BY <2>1, <3>1, <3>2
  <2>4. TypeOK'
    BY <1>6, <2>1, <2>2, <2>3 DEF Receive, TypeOK, serverVars, dbVars, syncVars
  <2> QED
    BY <1>6, <2>4, QuietStep DEF Receive
<1>7. ASSUME DrainBuffered PROVE IInv'
  <2>1. wsGeneration \in Generation
    BY <1>5, <1>7 DEF DrainBuffered
  <2>2. /\ projectQueue' \in Seq(Task) /\ (projecting # "idle" => projectQueue' # <<>>)
        /\ buffered' \in Seq(Event)
        /\ phase' \in {phase, "live"}
    <3>1. CASE buffered # <<>>
      <4>1. Head(buffered) \in Event /\ Tail(buffered) \in Seq(Event)
        BY <3>1 DEF TypeOK
      <4> QED
        BY <1>7, <2>1, <3>1, <4>1, EnqueueType DEF DrainBuffered
    <3>2. CASE buffered = <<>>
      BY <1>7, <3>2 DEF DrainBuffered, TypeOK
    <3> QED
      BY <3>1, <3>2
  <2>3. TypeOK'
    BY <1>7, <2>1, <2>2 DEF DrainBuffered, TypeOK, serverVars, dbVars, syncVars, Generation
  <2> QED
    BY <1>7, <2>3, QuietStep DEF DrainBuffered
<1> QED
  BY <1>2, <1>3, <1>4, <1>6, <1>7

LEMMA ProjectStep ==
  ASSUME IInv, Project \/ ProjectRead \/ ProjectWrite
  PROVE  IInv'
<1> USE DEF IInv
<1>1. ASSUME projectQueue # <<>>
      PROVE  Head(projectQueue).event \in Event /\ Tail(projectQueue) \in Seq(Task)
  <2>1. Head(projectQueue) \in Task /\ Tail(projectQueue) \in Seq(Task)
    BY <1>1 DEF TypeOK
  <2> QED
    BY <2>1 DEF Task
<1>2. ASSUME Project PROVE IInv'
  <2>1. projectQueue # <<>>
    BY <1>2 DEF Project
  <2>2. /\ cache' \subseteq Event
        /\ projectQueue' \in Seq(Task)
        /\ projecting' \in {"idle", "put", "read"}
        /\ (projecting' # "idle" => projectQueue' # <<>>)
    BY <1>1, <1>2, <2>1 DEF Project, TypeOK
  <2>3. TypeOK'
    BY <1>2, <2>2 DEF Project, TypeOK, serverVars, socketVars, syncVars
  <2> QED
    BY <1>2, <2>3, QuietStep DEF Project
<1>3. ASSUME ProjectRead PROVE IInv'
  <2>1. TypeOK'
    BY <1>3 DEF ProjectRead, TypeOK, serverVars, dbVars, socketVars, syncVars
  <2> QED
    BY <1>3, <2>1, QuietStep DEF ProjectRead
<1>4. ASSUME ProjectWrite PROVE IInv'
  <2>1. projectQueue # <<>>
    BY <1>4 DEF ProjectWrite, TypeOK
  <2>2. Head(projectQueue).event.seq \in 0..MaxSeq
    BY <1>1, <2>1, ConstantTypes DEF Event
  <2>3. cursor' \in 0..MaxSeq /\ projectQueue' \in Seq(Task)
    BY <1>1, <1>4, <2>1, <2>2 DEF ProjectWrite, TypeOK
  <2>4. readCursor' \in 0..MaxSeq
    BY <1>4, ConstantTypes DEF ProjectWrite
  <2>5. TypeOK'
    BY <1>4, <2>3, <2>4 DEF ProjectWrite, TypeOK, serverVars, socketVars, syncVars
  <2> QED
    BY <1>4, <2>5, QuietStep DEF ProjectWrite
<1> QED
  BY <1>2, <1>3, <1>4

(* A run of g moves from one active state to another.                      *)
LEMMA RunMoves ==
  ASSUME IInv, NEW g \in Generation, Active(g), NEW r \in Run,
         sync' = [sync EXCEPT ![g] = r], UNCHANGED syncInFlight
  PROVE  sync' \in [Generation -> Run] /\ InFlightIsActive'
BY DEF IInv, TypeOK, InFlightIsActive, Active

(* A run enters.                                                           *)
LEMMA OpenedStep ==
  ASSUME IInv, Opened
  PROVE  IInv'
<1> USE DEF IInv
<1> DEFINE g == wsGeneration
<1>1. g \in Generation
  BY ConstantTypes DEF TypeOK, Opened, Generation
<1>2. sync[g] \in Run
  BY <1>1 DEF TypeOK
<1>3. CASE syncInFlight = 0
  <2>1. sync' = [sync EXCEPT ![g] = [sync[g] EXCEPT !.pc = "begin"]] /\ syncInFlight' = g
    BY <1>3 DEF Opened, EnterSync
  <2>2. [sync[g] EXCEPT !.pc = "begin"] \in Run
    BY <1>2 DEF Run
  <2>3. sync' \in [Generation -> Run] /\ InFlightIsActive'
    BY <1>1, <1>3, <2>1, <2>2, ConstantTypes
       DEF TypeOK, InFlightIsActive, Active, Generation
  <2>4. TypeOK'
    BY <1>1, <2>1, <2>3
       DEF Opened, TypeOK, serverVars, dbVars, taskVars, Generation
  <2> QED
    BY <2>3, <2>4
<1>4. CASE syncInFlight # 0
  <2>1. sync' = [sync EXCEPT ![g] = [sync[g] EXCEPT !.pc = "wait"]]
        /\ UNCHANGED syncInFlight
    BY <1>4 DEF Opened, EnterSync
  <2>2. [sync[g] EXCEPT !.pc = "wait"] \in Run /\ [sync[g] EXCEPT !.pc = "wait"].pc = "wait"
    BY <1>2 DEF Run
  <2>3. sync' \in [Generation -> Run] /\ InFlightIsActive'
    BY <1>1, <2>1, <2>2 DEF TypeOK, InFlightIsActive, Active
  <2>4. TypeOK'
    BY <1>1, <2>1, <2>3
       DEF Opened, TypeOK, serverVars, dbVars, taskVars, Generation
  <2> QED
    BY <2>3, <2>4
<1> QED
  BY <1>3, <1>4
(* The steps of a run that end it.                                         *)
LEMMA SettlingStep ==
  ASSUME IInv, NEW g \in Generation,
         \/ TakeSecondReset(g) \/ AbandonRun(g) \/ StoreStream(g) \/ LoseRequest(g)
  PROVE  IInv'
<1> USE DEF IInv
<1>1. ASSUME NEW ok \in BOOLEAN, Active(g), Settle(g, ok),
             UNCHANGED <<serverVars, cursor, cache, wire, wsGeneration, buffered, taskVars>>,
             streamId' \in 0..MaxStream, drops' \in 0..MaxDrop
      PROVE  IInv'
  <2>1. /\ sync' \in [Generation -> Run]
        /\ syncInFlight' \in {0} \cup Generation
        /\ phase' = phase \/ (phase = "opening" /\ phase' \in {"draining", "closed"})
        /\ InFlightIsActive'
    BY <1>1, SettleFacts
  <2>2. TypeOK'
    BY <1>1, <2>1 DEF TypeOK, serverVars, taskVars
  <2> QED
    BY <2>1, <2>2
<1>2. streamId \in 0..MaxStream /\ drops \in 0..MaxDrop
  BY DEF TypeOK
<1>3. CASE TakeSecondReset(g)
  <2>1. Active(g) /\ Settle(g, FALSE)
        /\ UNCHANGED <<serverVars, dbVars, wire, wsGeneration, buffered, taskVars, drops>>
    BY <1>3 DEF TakeSecondReset, Active
  <2> QED
    BY <1>1, <1>2, <2>1 DEF dbVars
<1>4. CASE AbandonRun(g)
  <2>1. Active(g) /\ Settle(g, TRUE)
        /\ UNCHANGED <<serverVars, dbVars, wire, wsGeneration, buffered, taskVars, drops>>
    BY <1>4 DEF AbandonRun, PageApplied, Active
  <2> QED
    BY <1>1, <1>2, <2>1 DEF dbVars
<1>5. CASE StoreStream(g)
  <2>1. sync[g] \in Run
    BY DEF TypeOK
  <2>2. streamId' \in 0..MaxStream
    BY <1>5, <2>1 DEF StoreStream, Run
  <2>3. Active(g) /\ Settle(g, TRUE)
        /\ UNCHANGED <<serverVars, cursor, cache, wire, wsGeneration, buffered, taskVars, drops>>
    BY <1>5 DEF StoreStream, Active
  <2> QED
    BY <1>1, <1>2, <2>2, <2>3
<1>6. CASE LoseRequest(g)
  <2>1. drops' \in 0..MaxDrop
    BY <1>2, <1>6, ConstantTypes DEF LoseRequest, Drop
  <2>2. Active(g) /\ Settle(g, FALSE)
        /\ UNCHANGED <<serverVars, dbVars, wire, wsGeneration, buffered, taskVars>>
    BY <1>6 DEF LoseRequest, Active
  <2> QED
    BY <1>1, <1>2, <2>1, <2>2 DEF dbVars
<1> QED
  BY <1>3, <1>4, <1>5, <1>6

(* The steps of a run that goes on.                                        *)
LEMMA RunStep ==
  ASSUME IInv, NEW g \in Generation,
         \/ BeginSync(g) \/ ServeSync(g) \/ TakePage(g) \/ ApplyEvent(g)
         \/ NextPage(g) \/ StoreCursor(g)
  PROVE  IInv'
<1> USE DEF IInv
<1> DEFINE r == sync[g]
<1>1. /\ r \in Run /\ r.page \in Page /\ r.page.events \subseteq Event
      /\ r.current \in 0..MaxSeq /\ r.requested \in 0..MaxStream
      /\ r.page.stream \in 0..MaxStream
  <2>1. r \in Run
    BY DEF TypeOK
  <2>2. r.page \in Page
    BY <2>1 DEF Run
  <2> QED
    BY <2>1, <2>2 DEF Run, Page
<1>2. CASE BeginSync(g)
  <2> DEFINE n == [r EXCEPT !.pc = "fetch", !.current = cursor, !.requested = streamId]
  <2>1. n \in Run
    BY <1>1 DEF Run, TypeOK
  <2>2. sync' = [sync EXCEPT ![g] = n] /\ Active(g)
    BY <1>2 DEF BeginSync, Active
  <2>3. sync' \in [Generation -> Run] /\ InFlightIsActive'
    BY <1>2, <2>1, <2>2, RunMoves DEF BeginSync
  <2>4. TypeOK'
    BY <1>2, <2>3 DEF BeginSync, TypeOK, serverVars, dbVars, socketVars, taskVars
  <2> QED
    BY <2>3, <2>4
<1>3. CASE ServeSync(g)
  <2> DEFINE n == [r EXCEPT !.pc = "page", !.page = SyncPage(r.current, r.requested)]
  <2>1. SyncPage(r.current, r.requested) \in Page
    BY <1>1, SyncPageType
  <2>2. n \in Run
    BY <1>1, <2>1 DEF Run
  <2>3. sync' = [sync EXCEPT ![g] = n] /\ Active(g)
    BY <1>3 DEF ServeSync, Active
  <2>4. sync' \in [Generation -> Run] /\ InFlightIsActive'
    BY <1>3, <2>2, <2>3, RunMoves DEF ServeSync
  <2>5. TypeOK'
    BY <1>3, <2>4 DEF ServeSync, TypeOK, serverVars, dbVars, socketVars, taskVars
  <2> QED
    BY <2>4, <2>5
<1>4. CASE TakePage(g)
  <2> DEFINE n == [r EXCEPT !.pc = "apply", !.requested = r.page.stream,
                            !.resetApplied = r.resetApplied \/ r.page.reset,
                            !.current = IF r.page.reset THEN 0 ELSE r.current]
  <2>1. (r.resetApplied \/ r.page.reset) \in BOOLEAN
        /\ (IF r.page.reset THEN 0 ELSE r.current) \in 0..MaxSeq
    BY <1>1, ConstantTypes
  <2>2. n \in Run
    BY <1>1, <2>1 DEF Run
  <2>3. sync' = [sync EXCEPT ![g] = n] /\ Active(g)
    BY <1>4 DEF TakePage, Active
  <2>4. sync' \in [Generation -> Run] /\ InFlightIsActive'
    BY <1>4, <2>2, <2>3, RunMoves DEF TakePage
  <2>5. cache' \subseteq Event /\ cursor' \in 0..MaxSeq /\ streamId' \in 0..MaxStream
    BY <1>4, ConstantTypes DEF TakePage, ResetSyncState, dbVars, TypeOK
  <2>6. TypeOK'
    BY <1>4, <2>4, <2>5 DEF TakePage, TypeOK, serverVars, socketVars, taskVars
  <2> QED
    BY <2>4, <2>6
<1>5. CASE ApplyEvent(g)
  <2>1. PICK e \in r.page.events :
          /\ sync' = [sync EXCEPT ![g].page.events = r.page.events \ {e}]
          /\ IF g = wsGeneration THEN Enqueue(e, g, "sync") ELSE UNCHANGED projectQueue
    BY <1>5 DEF ApplyEvent
  <2> DEFINE p == [r.page EXCEPT !.events = r.page.events \ {e}]
             n == [r EXCEPT !.page = p]
  <2>2. p \in Page
    BY <1>1 DEF Page
  <2>3. n \in Run
    BY <1>1, <2>2 DEF Run
  <2>4. sync' = [sync EXCEPT ![g] = n] /\ Active(g)
    BY <1>5, <2>1 DEF ApplyEvent, Active
  <2>5. sync' \in [Generation -> Run] /\ InFlightIsActive'
    BY <1>5, <2>3, <2>4, RunMoves DEF ApplyEvent
  <2>6. projectQueue' \in Seq(Task) /\ (projecting # "idle" => projectQueue' # <<>>)
    BY <1>1, <2>1, EnqueueType DEF TypeOK
  <2>7. TypeOK'
    BY <1>5, <2>5, <2>6 DEF ApplyEvent, TypeOK, serverVars, dbVars, socketVars
  <2> QED
    BY <2>5, <2>7
<1>6. CASE NextPage(g)
  <2> DEFINE n == [r EXCEPT !.pc = "fetch", !.current = Advanced(g), !.page = NoPage]
  <2>1. NoPage \in Page
    BY ConstantTypes DEF NoPage, Page
  <2>2. n \in Run
    BY <1>1, <2>1, AdvancedType DEF Run
  <2>3. sync' = [sync EXCEPT ![g] = n] /\ Active(g)
    BY <1>6 DEF NextPage, PageApplied, Active
  <2>4. sync' \in [Generation -> Run] /\ InFlightIsActive'
    BY <1>6, <2>2, <2>3, RunMoves DEF NextPage
  <2>5. TypeOK'
    BY <1>6, <2>4 DEF NextPage, TypeOK, serverVars, dbVars, socketVars, taskVars
  <2> QED
    BY <2>4, <2>5
<1>7. CASE StoreCursor(g)
  <2> DEFINE n == [r EXCEPT !.pc = "stream"]
  <2>1. n \in Run /\ cursor' \in 0..MaxSeq
    BY <1>1, <1>7, AdvancedType DEF Run, StoreCursor
  <2>2. sync' = [sync EXCEPT ![g] = n] /\ Active(g)
    BY <1>7 DEF StoreCursor, PageApplied, Active
  <2>3. sync' \in [Generation -> Run] /\ InFlightIsActive'
    BY <1>7, <2>1, <2>2, RunMoves DEF StoreCursor
  <2>4. TypeOK'
    BY <1>7, <2>1, <2>3 DEF StoreCursor, TypeOK, serverVars, socketVars, taskVars
  <2> QED
    BY <2>3, <2>4
<1> QED
  BY <1>2, <1>3, <1>4, <1>5, <1>6, <1>7

(* Failures.                                                               *)
LEMMA FailureStep ==
  ASSUME IInv, LoseSocket \/ Reload \/ \E s \in 1..MaxStream : RestartBridge(s)
  PROVE  IInv'
<1> USE DEF IInv
<1>1. ASSUME Drop PROVE drops' \in 0..MaxDrop
  BY <1>1, ConstantTypes DEF Drop, TypeOK
<1>2. CASE LoseSocket
  <2>1. drops' \in 0..MaxDrop
    BY <1>1, <1>2 DEF LoseSocket
  <2>2. TypeOK'
    BY <1>2, <2>1 DEF LoseSocket, TypeOK, serverVars, dbVars, taskVars, syncVars
  <2> QED
    BY <1>2, <2>2, QuietStep DEF LoseSocket
<1>3. CASE Reload
  <2>1. drops' \in 0..MaxDrop
    BY <1>1, <1>3 DEF Reload
  <2>2. sync' \in [Generation -> Run]
    BY <1>3, NoRunType DEF Reload
  <2>3. InFlightIsActive'
    BY <1>3 DEF Reload, InFlightIsActive, Active, NoRun
  <2>4. TypeOK'
    BY <1>3, <2>1, <2>2, ConstantTypes DEF Reload, TypeOK, serverVars, dbVars
  <2> QED
    BY <2>3, <2>4
<1>4. ASSUME NEW s \in 1..MaxStream, RestartBridge(s) PROVE IInv'
  <2>1. drops' \in 0..MaxDrop
    BY <1>1, <1>4 DEF RestartBridge
  <2>2. /\ stream' \in 1..MaxStream /\ latest' \in 0..MaxSeq
        /\ phase' \in {phase, "closed"} /\ (phase' # "none" => wsGeneration # 0)
    BY <1>4, ConstantTypes DEF RestartBridge, TypeOK
  <2>3. TypeOK'
    BY <1>4, <2>1, <2>2 DEF RestartBridge, TypeOK, dbVars, taskVars, syncVars
  <2> QED
    BY <1>4, <2>3, QuietStep DEF RestartBridge
<1> QED
  BY <1>2, <1>3, <1>4

LEMMA StepIInv == IInv /\ [Next]_vars => IInv'
<1> SUFFICES ASSUME IInv, [Next]_vars PROVE IInv'
  OBVIOUS
<1>1. CASE UNCHANGED vars
  <2>1. TypeOK'
    BY <1>1 DEF IInv, TypeOK, vars, serverVars, dbVars, socketVars, taskVars, syncVars
  <2> QED
    BY <1>1, <2>1, QuietStep DEF vars
<1>2. ASSUME NEW g \in Generation, SyncStep(g) PROVE IInv'
  BY <1>2, SettlingStep, RunStep DEF SyncStep
<1>3. CASE Progress
  BY <1>2, <1>3, ServerStep, SocketStep, OpenedStep, ProjectStep DEF Progress
<1>4. CASE Next
  BY <1>3, <1>4, ServerStep, SocketStep, FailureStep, SettlingStep DEF Next
<1> QED
  BY <1>1, <1>4

-----------------------------------------------------------------------------
(* Every variable of the bridge and of the client keeps its type.          *)
THEOREM TypeCorrect == Spec => []TypeOK
<1>1. IInv => TypeOK
  BY DEF IInv
<1> QED
  BY <1>1, InitIInv, StepIInv, PTL DEF Spec

(* For any number of sockets, losses and restarts, at most one run of      *)
(* syncAll is under way: syncInFlight names it, so a run that begins       *)
(* while another is active cannot be.                                      *)
THEOREM RunsDoNotOverlap == Spec => []OneRunAtATime
<1>1. IInv => OneRunAtATime
  <2> SUFFICES ASSUME IInv, NEW g \in Generation, NEW h \in Generation,
                      {sync[g].pc, sync[h].pc} \cap {"none", "wait", "join"} = {}
               PROVE  g = h
    BY DEF OneRunAtATime
  <2>1. sync[g] \in Run /\ sync[h] \in Run
    BY DEF IInv, TypeOK
  <2>2. Active(g) /\ Active(h)
    BY <2>1 DEF Run, Active
  <2> QED
    BY <2>2 DEF IInv, InFlightIsActive
<1> QED
  BY <1>1, InitIInv, StepIInv, PTL DEF Spec
-----------------------------------------------------------------------------
(***************************************************************************)
(* The copy, up to a first failure.                                        *)
(*                                                                         *)
(* What the cursor passes the client has.  The argument follows an event   *)
(* from the log to IndexedDB: Log says where it is on its way to the       *)
(* socket, Flow that a synchronized client has it or will be given it,     *)
(* Fetching to Storing what the run of the current socket has in hand, and *)
(* Leads that tasks of this socket are in the order of the log.            *)
(* CursorTask to StreamStored say why the cursor may be written from three *)
(* places: by a task, by a run, and by a run of a socket that has been     *)
(* replaced.                                                               *)
(***************************************************************************)
At(m) == [stream |-> stream, seq |-> m]
Has(m) == m \in Hidden \/ At(m) \in cache
Held(c) == c <= latest /\ \A m \in 1..c : Has(m)

(* What has left publishQueue.                                             *)
Published == latest - Len(publishQueue)

Among(e, s) == \E i \in DOMAIN s : s[i] = e
Ascending(s) == \A i, j \in DOMAIN s : i < j => s[i].seq < s[j].seq
QueuedBy(e, q, g) == \E i \in DOMAIN q : q[i].gen = g /\ q[i].event = e

(* A failure, or a socket replaced, is what makes room for another socket  *)
(* and another database.  Before the first one is open nothing is stored.  *)
Sockets ==
  /\ stream <= 1 + drops /\ wsGeneration <= 1 + drops
  /\ phase \in {"none", "closed"} => wsGeneration <= drops
  /\ wsGeneration = 0 \/ (wsGeneration = 1 /\ phase \in {"connecting", "accepted"})
       => streamId = 0

(* With two sockets, only the second can wait, and none has to join.       *)
Runs ==
  /\ \A g \in Generation :
       /\ sync[g].pc # "none" => g <= wsGeneration
       /\ sync[g].pc # "join"
       /\ sync[g].pc = "wait" => g = wsGeneration /\ g # 1
       /\ sync[g].pc \in {"none", "wait", "begin"} => ~sync[g].resetApplied
       /\ g = wsGeneration /\ sync[g].pc # "none" => phase \in {"opening", "closed"}
  /\ syncInFlight # 0 => syncInFlight \in Generation /\ Active(syncInFlight)
  /\ phase \in {"draining", "live"} => syncInFlight = 0

(* Events on their way to the socket, in the order of the log.             *)
Log ==
  /\ Len(publishQueue) <= latest
  /\ \A i \in DOMAIN publishQueue : publishQueue[i] = At(Published + i)
  /\ \A i \in DOMAIN wire : wire[i].stream = stream /\ wire[i].seq <= Published
  /\ \A i \in DOMAIN buffered : buffered[i].stream = stream /\ buffered[i].seq <= Published
  /\ Ascending(wire) /\ Ascending(buffered)
  /\ \A i \in DOMAIN buffered, j \in DOMAIN wire : buffered[i].seq < wire[j].seq
  /\ phase = "live" => buffered = <<>>

(* Nobody knows of a database before it is there.                          *)
Known ==
  /\ streamId <= stream
  /\ \A i \in DOMAIN projectQueue : projectQueue[i].event.stream <= stream
  /\ \A g \in Generation :
       /\ sync[g].requested <= stream /\ sync[g].page.stream <= stream
       /\ \A e \in sync[g].page.events : e.stream = sync[g].page.stream
       /\ sync[g].pc \in {"apply", "stream"} => sync[g].requested = sync[g].page.stream

(* A sync task belongs to a run that is applying, a live one to a socket   *)
(* whose run is over.                                                      *)
Tasks ==
  \A i \in DOMAIN projectQueue :
    LET k == projectQueue[i] IN
    /\ k.gen <= wsGeneration
    /\ k.of = "sync" => sync[k.gen].pc = "apply"
    /\ k.of = "live" => sync[k.gen].pc = "none"
    /\ k.of = "live" /\ k.gen = wsGeneration => phase \in {"draining", "live", "closed"}

(* What precedes the event of a task is stored, or queued before it.       *)
Leads ==
  /\ \A i \in DOMAIN projectQueue :
       LET k == projectQueue[i] IN
       k.gen = wsGeneration /\ k.event.stream = stream =>
         /\ k.event.seq <= latest
         /\ \A m \in 1..(k.event.seq - 1) :
              \/ Has(m)
              \/ \E j \in 1..(i - 1) :
                   projectQueue[j].gen = wsGeneration /\ projectQueue[j].event = At(m)
  /\ projecting # "idle" =>
       LET k == projectQueue[1] IN
       k.gen = wsGeneration /\ k.event.stream = stream => k.event \in cache

Coming(m) == m \in Hidden \/ Among(At(m), wire) \/ Among(At(m), buffered)

(* A client that has read its pages misses nothing that was published.     *)
Flow ==
  phase \in {"draining", "live"} =>
    \A m \in 1..Published :
      Has(m) \/ Coming(m) \/ QueuedBy(At(m), projectQueue, wsGeneration)

(* After the last page come the live events.                               *)
Final(page) ==
  ~page.more /\ phase = "opening" => \A m \in (page.cursor + 1)..Published : Coming(m)

Fetching ==
  \A g \in Generation : g = wsGeneration /\ sync[g].pc = "fetch" =>
    /\ sync[g].requested = stream => Held(sync[g].current)
    /\ sync[g].resetApplied /\ phase = "opening" => sync[g].requested = stream

Start(r) == IF r.page.reset THEN 0 ELSE r.current

Paged ==
  \A g \in Generation : g = wsGeneration /\ sync[g].pc = "page" =>
    LET r == sync[g]
        page == r.page
    IN
    /\ page.reset /\ phase = "opening" => ~r.resetApplied
    /\ phase = "opening" => page.stream = stream
    /\ page.stream = stream =>
         /\ Start(r) <= page.cursor /\ page.cursor <= latest
         /\ ~page.reset => Held(r.current)
         /\ \A e \in page.events : e.seq <= page.cursor
         /\ \A m \in (Start(r) + 1)..page.cursor : m \in Hidden \/ At(m) \in page.events
         /\ Final(page)

Applying ==
  \A g \in Generation : g = wsGeneration /\ sync[g].pc = "apply" =>
    LET r == sync[g]
        page == r.page
    IN
    /\ phase = "opening" => page.stream = stream
    /\ page.stream = stream =>
         /\ r.current <= page.cursor /\ page.cursor <= latest
         /\ \A e \in page.events : e.seq <= page.cursor
         /\ \A m \in 1..page.cursor :
              \/ Has(m) \/ At(m) \in page.events
              \/ QueuedBy(At(m), projectQueue, wsGeneration)
         /\ Final(page)

Storing ==
  \A g \in Generation : g = wsGeneration /\ sync[g].pc = "stream" =>
    LET page == sync[g].page IN
    /\ phase = "opening" => page.stream = stream
    /\ page.stream = stream => Held(page.cursor) /\ Final(page) /\ ~page.more

(* In the first database the cursor and what is about to be written to it  *)
(* are held.                                                               *)
CursorTask ==
  stream = 1 =>
    /\ Held(cursor)
    /\ projecting # "idle" => Held(projectQueue[1].event.seq)
    /\ projecting = "read" => Held(readCursor)

(* There a reset comes only before a stream id is stored, and live events  *)
(* only after: no task is under way that a reset could disturb.            *)
FirstReset ==
  stream = 1 =>
    /\ phase \in {"draining", "live"} => streamId = 1
    /\ \A i \in DOMAIN projectQueue : projectQueue[i].of = "live" => streamId = 1
    /\ \A g \in Generation :
         /\ sync[g].pc \in {"fetch", "page"} /\ sync[g].requested = 0 => streamId = 0
         /\ g = wsGeneration /\ sync[g].pc = "fetch" => sync[g].current <= latest
         /\ g = wsGeneration /\ sync[g].pc = "page" /\ sync[g].page.reset => streamId = 0

NotBegun ==
  \/ phase \in {"none", "closed", "connecting", "accepted"}
  \/ \E g \in Generation : g = wsGeneration /\ sync[g].pc \in {"wait", "begin"}

(* In the second one, what the next run will start from is held.           *)
SecondStart ==
  stream = 2 =>
    /\ Active(1) => streamId # 2
    /\ NotBegun /\ streamId = 2 => Held(cursor) /\ projectQueue = <<>>

StreamStored ==
  sync[1].pc = "stream" =>
    projectQueue = <<>> /\ (sync[1].page.stream = stream => Held(cursor))

Copy ==
  /\ Sockets /\ Runs /\ Log /\ Known /\ Tasks /\ Leads /\ Flow
  /\ Fetching /\ Paged /\ Applying /\ Storing
  /\ CursorTask /\ FirstReset /\ SecondStart /\ StreamStored
Copying == OneFailure => Copy
-----------------------------------------------------------------------------
(* Sequences.                                                              *)

LEMMA TailItems ==
  ASSUME NEW S, NEW s \in Seq(S), s # <<>>
  PROVE  /\ Tail(s) \in Seq(S) /\ Head(s) = s[1] /\ 1 \in DOMAIN s /\ s[1] \in S
         /\ Len(s) \in Nat /\ Len(s) >= 1 /\ Len(Tail(s)) = Len(s) - 1
         /\ \A i \in DOMAIN Tail(s) :
              /\ i \in Nat /\ i >= 1
              /\ i + 1 \in DOMAIN s /\ Tail(s)[i] = s[i + 1]
         /\ \A i \in DOMAIN s :
              /\ i \in Nat /\ i >= 1
              /\ i # 1 => i - 1 \in DOMAIN Tail(s) /\ Tail(s)[i - 1] = s[i]
OBVIOUS

LEMMA AppendItems ==
  ASSUME NEW S, NEW s \in Seq(S), NEW x \in S
  PROVE  /\ Append(s, x) \in Seq(S) /\ Len(s) \in Nat /\ Len(Append(s, x)) = Len(s) + 1
         /\ Len(s) + 1 \in DOMAIN Append(s, x) /\ Append(s, x)[Len(s) + 1] = x
         /\ \A i \in DOMAIN s :
              /\ i \in Nat /\ i >= 1 /\ i <= Len(s)
              /\ i \in DOMAIN Append(s, x) /\ Append(s, x)[i] = s[i]
         /\ \A i \in DOMAIN Append(s, x) :
              i \in Nat /\ i >= 1 /\ (i = Len(s) + 1 \/ (i \in DOMAIN s /\ i <= Len(s)))
OBVIOUS

LEMMA AmongTail ==
  ASSUME NEW S, NEW s \in Seq(S), s # <<>>, NEW e
  PROVE  Among(e, s) <=> e = Head(s) \/ Among(e, Tail(s))
<1>1. ASSUME Among(e, s) PROVE e = Head(s) \/ Among(e, Tail(s))
  <2>1. PICK i \in DOMAIN s : s[i] = e
    BY <1>1 DEF Among
  <2>2. Head(s) = s[1] /\ (i # 1 => i - 1 \in DOMAIN Tail(s) /\ Tail(s)[i - 1] = s[i])
    BY TailItems
  <2> QED
    BY <2>1, <2>2 DEF Among
<1>2. ASSUME Among(e, Tail(s)) PROVE Among(e, s)
  <2>1. PICK i \in DOMAIN Tail(s) : Tail(s)[i] = e
    BY <1>2 DEF Among
  <2>2. i + 1 \in DOMAIN s /\ Tail(s)[i] = s[i + 1]
    BY TailItems
  <2> QED
    BY <2>1, <2>2 DEF Among
<1>3. ASSUME e = Head(s) PROVE Among(e, s)
  BY <1>3, TailItems DEF Among
<1> QED
  BY <1>1, <1>2, <1>3

LEMMA AmongAppend ==
  ASSUME NEW S, NEW s \in Seq(S), NEW x \in S, NEW e
  PROVE  Among(e, Append(s, x)) <=> e = x \/ Among(e, s)
BY AppendItems DEF Among

LEMMA QueuedTail ==
  ASSUME NEW q \in Seq(Task), q # <<>>, NEW g, NEW e
  PROVE  QueuedBy(e, q, g) =>
           (Head(q).gen = g /\ Head(q).event = e) \/ QueuedBy(e, Tail(q), g)
<1> SUFFICES ASSUME QueuedBy(e, q, g)
             PROVE  (Head(q).gen = g /\ Head(q).event = e) \/ QueuedBy(e, Tail(q), g)
  OBVIOUS
<1>1. PICK i \in DOMAIN q : q[i].gen = g /\ q[i].event = e
  BY DEF QueuedBy
<1>2. Head(q) = q[1] /\ (i # 1 => i - 1 \in DOMAIN Tail(q) /\ Tail(q)[i - 1] = q[i])
  BY TailItems
<1> QED
  BY <1>1, <1>2 DEF QueuedBy

LEMMA QueuedAppend ==
  ASSUME NEW q \in Seq(Task), NEW k \in Task, NEW g, NEW e
  PROVE  /\ QueuedBy(e, q, g) => QueuedBy(e, Append(q, k), g)
         /\ k.gen = g /\ k.event = e => QueuedBy(e, Append(q, k), g)
BY AppendItems DEF QueuedBy

LEMMA AscendingTail ==
  ASSUME NEW s \in Seq(Event), s # <<>>, Ascending(s)
  PROVE  /\ Ascending(Tail(s))
         /\ \A i \in DOMAIN Tail(s) : Head(s).seq < Tail(s)[i].seq
<1>1. /\ Head(s) = s[1] /\ 1 \in DOMAIN s
      /\ \A i \in DOMAIN Tail(s) :
           i \in Nat /\ i >= 1 /\ i + 1 \in DOMAIN s /\ Tail(s)[i] = s[i + 1]
  BY TailItems
<1>2. ASSUME NEW i \in DOMAIN Tail(s) PROVE Head(s).seq < Tail(s)[i].seq
  BY <1>1 DEF Ascending
<1>3. ASSUME NEW i \in DOMAIN Tail(s), NEW j \in DOMAIN Tail(s), i < j
      PROVE  Tail(s)[i].seq < Tail(s)[j].seq
  BY <1>1, <1>3 DEF Ascending
<1> QED
  BY <1>2, <1>3 DEF Ascending

LEMMA AscendingAppend ==
  ASSUME NEW s \in Seq(Event), NEW x \in Event, Ascending(s),
         \A i \in DOMAIN s : s[i].seq < x.seq
  PROVE  Ascending(Append(s, x))
<1> SUFFICES ASSUME NEW i \in DOMAIN Append(s, x), NEW j \in DOMAIN Append(s, x), i < j
             PROVE  Append(s, x)[i].seq < Append(s, x)[j].seq
  BY DEF Ascending
<1>1. i \in DOMAIN s /\ (j \in DOMAIN s \/ j = Len(s) + 1)
  BY AppendItems
<1> QED
  BY <1>1, AppendItems DEF Ascending

LEMMA NothingAscends == Ascending(<<>>) /\ DOMAIN <<>> = {}
BY DEF Ascending

-----------------------------------------------------------------------------
(* What the types say.                                                     *)

LEMMA EventFields ==
  ASSUME NEW e \in Event
  PROVE  /\ e.stream \in Nat /\ e.stream >= 1
         /\ e.seq \in Nat /\ e.seq >= 1 /\ e.seq <= MaxSeq
         /\ e = [stream |-> e.stream, seq |-> e.seq]
BY ConstantTypes DEF Event

LEMMA TaskFields ==
  ASSUME NEW k \in Task
  PROVE  k.event \in Event /\ k.gen \in Generation /\ k.of \in {"sync", "live"}
BY DEF Task

LEMMA RunFields ==
  ASSUME TypeOK, NEW g \in Generation
  PROVE  /\ sync[g] \in Run /\ sync[g].page \in Page
         /\ sync[g].pc \in {"none", "wait", "join", "begin", "fetch", "page", "apply",
                            "stream"}
         /\ sync[g].current \in Nat /\ sync[g].requested \in Nat
         /\ sync[g].resetApplied \in BOOLEAN
         /\ sync[g].page.stream \in Nat /\ sync[g].page.stream >= 1
         /\ sync[g].page.cursor \in Nat
         /\ sync[g].page.reset \in BOOLEAN /\ sync[g].page.more \in BOOLEAN
         /\ sync[g].page.events \subseteq Event
<1>1. sync[g] \in Run
  BY DEF TypeOK
<1>2. sync[g].page \in Page
  BY <1>1 DEF Run
<1> QED
  BY <1>1, <1>2, ConstantTypes DEF Run, Page

LEMMA Numbers ==
  ASSUME TypeOK
  PROVE  /\ stream \in Nat /\ stream >= 1 /\ latest \in Nat /\ cursor \in Nat
         /\ readCursor \in Nat /\ streamId \in Nat /\ wsGeneration \in Nat
         /\ drops \in Nat /\ latest <= MaxSeq /\ MaxSeq \in Nat
         /\ Len(publishQueue) \in Nat /\ Published <= latest
         /\ \A g \in Generation : g \in Nat /\ g >= 1
         /\ \A g \in Nat : g >= 1 /\ g <= MaxDrop + 1 => g \in Generation
         /\ wsGeneration # 0 => wsGeneration \in Generation
         /\ 1 \in Generation /\ MaxDrop \in Nat /\ wsGeneration <= MaxDrop + 1
<1>1. publishQueue \in Seq(Event)
  BY DEF TypeOK
<1>2. Len(publishQueue) \in Nat
  BY <1>1
<1> QED
  BY <1>2, ConstantTypes DEF TypeOK, Published, Generation

LEMMA Items ==
  ASSUME TypeOK
  PROVE  /\ \A i \in DOMAIN wire : wire[i] \in Event
         /\ \A i \in DOMAIN buffered : buffered[i] \in Event
         /\ \A i \in DOMAIN publishQueue : publishQueue[i] \in Event
         /\ \A i \in DOMAIN projectQueue :
              /\ i \in Nat /\ i >= 1
              /\ projectQueue[i] \in Task /\ projectQueue[i].event \in Event
              /\ projectQueue[i].gen \in Generation
              /\ projectQueue[i].of \in {"sync", "live"}
<1>1. wire \in Seq(Event) /\ buffered \in Seq(Event) /\ publishQueue \in Seq(Event)
      /\ projectQueue \in Seq(Task)
  BY DEF TypeOK
<1> QED
  BY <1>1, TaskFields

-----------------------------------------------------------------------------
(* What each step of a run does to it.                                     *)

Others(g) == \A h \in Generation : h # g => sync'[h] = sync[h]
Aside == <<stream, latest, publishQueue, wire, wsGeneration, phase, buffered, projecting,
           readCursor, syncInFlight, drops>>

LEMMA BeginFacts ==
  ASSUME TypeOK, NEW g \in Generation, BeginSync(g)
  PROVE  /\ Active(g) /\ sync[g].pc = "begin" /\ Others(g)
         /\ sync'[g].pc = "fetch" /\ sync'[g].current = cursor
         /\ sync'[g].requested = streamId
         /\ sync'[g].resetApplied = sync[g].resetApplied /\ sync'[g].page = sync[g].page
         /\ UNCHANGED Aside /\ UNCHANGED <<cursor, streamId, cache, projectQueue>>
<1>1. sync[g] \in Run /\ sync \in [Generation -> Run]
  BY DEF TypeOK
<1> QED
  BY <1>1 DEF BeginSync, Active, Others, Aside, Run, serverVars, dbVars, socketVars,
              taskVars

LEMMA ServeFacts ==
  ASSUME TypeOK, NEW g \in Generation, ServeSync(g)
  PROVE  /\ Active(g) /\ sync[g].pc = "fetch" /\ Others(g)
         /\ sync'[g].pc = "page" /\ sync'[g].current = sync[g].current
         /\ sync'[g].requested = sync[g].requested
         /\ sync'[g].resetApplied = sync[g].resetApplied
         /\ sync'[g].page = SyncPage(sync[g].current, sync[g].requested)
         /\ UNCHANGED Aside /\ UNCHANGED <<cursor, streamId, cache, projectQueue>>
<1>1. sync[g] \in Run /\ sync \in [Generation -> Run]
  BY DEF TypeOK
<1> QED
  BY <1>1 DEF ServeSync, Active, Others, Aside, Run, serverVars, dbVars, socketVars,
              taskVars

LEMMA TakeFacts ==
  ASSUME TypeOK, NEW g \in Generation, TakePage(g)
  PROVE  /\ Active(g) /\ sync[g].pc = "page" /\ Others(g)
         /\ sync'[g].pc = "apply"
         /\ sync'[g].current = Start(sync[g])
         /\ sync'[g].requested = sync[g].page.stream
         /\ sync'[g].page = sync[g].page
         /\ IF sync[g].page.reset /\ g = wsGeneration
            THEN cache' = {} /\ cursor' = 0 /\ streamId' = 0
            ELSE UNCHANGED <<cursor, streamId, cache>>
         /\ UNCHANGED Aside /\ UNCHANGED projectQueue
<1>1. sync[g] \in Run /\ sync \in [Generation -> Run]
  BY DEF TypeOK
<1> QED
  BY <1>1 DEF TakePage, ResetSyncState, Active, Others, Aside, Run, Start, serverVars,
              dbVars, socketVars, taskVars

LEMMA ApplyFacts ==
  ASSUME TypeOK, NEW g \in Generation, ApplyEvent(g)
  PROVE  /\ Active(g) /\ sync[g].pc = "apply" /\ Others(g) /\ ~Awaited(g, "sync")
         /\ sync'[g].pc = "apply" /\ sync'[g].current = sync[g].current
         /\ sync'[g].requested = sync[g].requested
         /\ sync'[g].page.stream = sync[g].page.stream
         /\ sync'[g].page.cursor = sync[g].page.cursor
         /\ sync'[g].page.more = sync[g].page.more
         /\ \E e \in sync[g].page.events :
              /\ \A f \in sync[g].page.events : e.seq <= f.seq
              /\ sync'[g].page.events = sync[g].page.events \ {e}
              /\ IF g = wsGeneration
                 THEN projectQueue' =
                        Append(projectQueue, [event |-> e, gen |-> g, of |-> "sync"])
                 ELSE UNCHANGED projectQueue
         /\ UNCHANGED Aside /\ UNCHANGED <<cursor, streamId, cache>>
<1>1. sync[g] \in Run /\ sync \in [Generation -> Run] /\ sync[g].page \in Page
  BY RunFields DEF TypeOK
<1>2. PICK e \in sync[g].page.events :
        /\ \A f \in sync[g].page.events : e.seq <= f.seq
        /\ sync' = [sync EXCEPT ![g].page.events = sync[g].page.events \ {e}]
        /\ IF g = wsGeneration THEN Enqueue(e, g, "sync") ELSE UNCHANGED projectQueue
  BY DEF ApplyEvent
<1>3. /\ Others(g)
      /\ sync'[g].pc = sync[g].pc /\ sync'[g].current = sync[g].current
      /\ sync'[g].requested = sync[g].requested
      /\ sync'[g].page.stream = sync[g].page.stream
      /\ sync'[g].page.cursor = sync[g].page.cursor
      /\ sync'[g].page.more = sync[g].page.more
      /\ sync'[g].page.events = sync[g].page.events \ {e}
  BY <1>1, <1>2 DEF Run, Page, Others
<1>4. /\ sync[g].pc = "apply" /\ ~Awaited(g, "sync")
      /\ UNCHANGED Aside /\ UNCHANGED <<cursor, streamId, cache>>
  BY DEF ApplyEvent, Aside, serverVars, dbVars, socketVars
<1> QED
  BY <1>2, <1>3, <1>4 DEF Active, Enqueue

LEMMA NextFacts ==
  ASSUME TypeOK, NEW g \in Generation, NextPage(g)
  PROVE  /\ Active(g) /\ PageApplied(g) /\ Others(g)
         /\ sync'[g].pc = "fetch" /\ sync'[g].current = Advanced(g)
         /\ sync'[g].requested = sync[g].requested
         /\ sync'[g].page = NoPage
         /\ UNCHANGED Aside /\ UNCHANGED <<cursor, streamId, cache, projectQueue>>
<1>1. sync[g] \in Run /\ sync \in [Generation -> Run]
  BY DEF TypeOK
<1> QED
  BY <1>1 DEF NextPage, PageApplied, Active, Others, Aside, Run, serverVars, dbVars,
              socketVars, taskVars

LEMMA StoreFacts ==
  ASSUME TypeOK, NEW g \in Generation, StoreCursor(g)
  PROVE  /\ Active(g) /\ PageApplied(g) /\ Others(g) /\ g = wsGeneration
         /\ ~sync[g].page.more
         /\ sync'[g].pc = "stream" /\ cursor' = Advanced(g)
         /\ sync'[g].requested = sync[g].requested
         /\ sync'[g].page = sync[g].page
         /\ UNCHANGED Aside /\ UNCHANGED <<streamId, cache, projectQueue>>
<1>1. sync[g] \in Run /\ sync \in [Generation -> Run]
  BY DEF TypeOK
<1> QED
  BY <1>1 DEF StoreCursor, PageApplied, Active, Others, Aside, Run, serverVars,
              socketVars, taskVars

(* A run ends: its promise settles, and the run that waited begins.        *)
Settled(g, ok) ==
  /\ Active(g) /\ sync'[g] = NoRun
  /\ \A h \in Generation : h # g =>
       /\ sync[h].pc # "wait" => sync'[h] = sync[h]
       /\ sync[h].pc = "wait" =>
            /\ h = wsGeneration /\ sync'[h].pc = "begin"
            /\ sync'[h].current = sync[h].current
            /\ sync'[h].requested = sync[h].requested
            /\ sync'[h].resetApplied = sync[h].resetApplied
            /\ sync'[h].page = sync[h].page
  /\ syncInFlight' # 0 =>
       /\ syncInFlight' \in Generation /\ syncInFlight' = wsGeneration
       /\ wsGeneration # g /\ sync[wsGeneration].pc = "wait"
  /\ phase' = IF g = wsGeneration /\ phase = "opening"
              THEN IF ok THEN "draining" ELSE "closed"
              ELSE phase

LEMMA SettledFacts ==
  ASSUME IInv, Runs, NEW g \in Generation, NEW ok \in BOOLEAN, Active(g), Settle(g, ok)
  PROVE  Settled(g, ok)
<1> DEFINE waiting == {h \in Generation : sync[h].pc = "wait"}
           settled == {g} \cup {h \in Generation : sync[h].pc = "join"}
           isNext(h) == h \in waiting /\ \A k \in waiting : h <= k
<1>1. /\ sync' = [h \in Generation |->
                    IF h \in settled THEN NoRun
                    ELSE IF isNext(h) THEN [sync[h] EXCEPT !.pc = "begin"]
                    ELSE IF h \in waiting THEN [sync[h] EXCEPT !.pc = "join"]
                    ELSE sync[h]]
      /\ \/ waiting = {} /\ syncInFlight' = 0
         \/ \E h \in waiting : isNext(h) /\ syncInFlight' = h
      /\ phase' = IF wsGeneration \in settled /\ phase = "opening"
                  THEN IF ok THEN "draining" ELSE "closed"
                  ELSE phase
  BY DEF Settle
<1>2. settled = {g}
  BY DEF Runs
<1>3. \A h \in waiting : h \in Generation /\ h = wsGeneration /\ h # g /\ isNext(h)
  <2>1. \A h \in waiting : h \in Generation /\ h = wsGeneration /\ h # g
    BY DEF Runs, Active
  <2>2. wsGeneration \in Nat
    BY Numbers DEF IInv
  <2> QED
    BY <2>1, <2>2
<1>4. \A h \in Generation : h # g /\ sync[h].pc # "wait" => sync'[h] = sync[h]
  BY <1>1, <1>2
<1>5. sync'[g] = NoRun
  BY <1>1, <1>2
<1>6. ASSUME NEW h \in Generation, h # g, sync[h].pc = "wait"
      PROVE  /\ h = wsGeneration /\ sync'[h].pc = "begin"
             /\ sync'[h].current = sync[h].current
             /\ sync'[h].requested = sync[h].requested
             /\ sync'[h].resetApplied = sync[h].resetApplied
             /\ sync'[h].page = sync[h].page
  <2>1. h \in waiting
    BY <1>6
  <2>2. sync'[h] = [sync[h] EXCEPT !.pc = "begin"]
    BY <1>1, <1>2, <1>3, <1>6, <2>1
  <2>3. sync[h] \in Run
    BY DEF IInv, TypeOK
  <2> QED
    BY <1>3, <2>1, <2>2, <2>3 DEF Run
<1>7. syncInFlight' # 0 =>
        /\ syncInFlight' \in Generation /\ syncInFlight' = wsGeneration
        /\ wsGeneration # g /\ sync[wsGeneration].pc = "wait"
  BY <1>1, <1>3
<1>8. phase' = IF g = wsGeneration /\ phase = "opening"
               THEN IF ok THEN "draining" ELSE "closed"
               ELSE phase
  BY <1>1, <1>2
<1> QED
  BY <1>4, <1>5, <1>6, <1>7, <1>8 DEF Settled

EndsAside == <<stream, latest, publishQueue, cursor, cache, wire, wsGeneration, buffered,
               projectQueue, projecting, readCursor>>

Ends(g) == TakeSecondReset(g) \/ AbandonRun(g) \/ StoreStream(g) \/ LoseRequest(g)

LEMMA EndFacts ==
  ASSUME IInv, Copy, NEW g \in Generation, Ends(g)
  PROVE  /\ UNCHANGED EndsAside
         /\ \/ /\ sync[g].pc \in {"fetch", "page"} /\ Settled(g, FALSE)
               /\ streamId' = streamId /\ drops' = drops + 1
            \/ /\ sync[g].pc = "page" /\ Settled(g, FALSE)
               /\ g = wsGeneration => phase = "closed"
               /\ UNCHANGED <<streamId, drops>>
            \/ /\ sync[g].pc = "apply" /\ g # wsGeneration /\ Settled(g, TRUE)
               /\ ~Awaited(g, "sync")
               /\ UNCHANGED <<streamId, drops>>
            \/ /\ sync[g].pc = "stream" /\ Settled(g, TRUE)
               /\ streamId' = sync[g].requested /\ drops' = drops
<1> USE DEF Ends, EndsAside, serverVars, dbVars, taskVars
<1>1. CASE LoseRequest(g)
  <2>1. Active(g) /\ Settle(g, FALSE)
    BY <1>1 DEF LoseRequest, Active
  <2>2. Settled(g, FALSE)
    BY <2>1, SettledFacts DEF Copy
  <2> QED
    BY <1>1, <2>2 DEF LoseRequest, Drop
<1>2. CASE TakeSecondReset(g)
  <2>1. Active(g) /\ Settle(g, FALSE)
    BY <1>2 DEF TakeSecondReset, Active
  <2>2. Settled(g, FALSE)
    BY <2>1, SettledFacts DEF Copy
  <2>3. g = wsGeneration => phase = "closed"
    BY <1>2 DEF TakeSecondReset, Copy, Paged, Runs
  <2> QED
    BY <1>2, <2>2, <2>3 DEF TakeSecondReset
<1>3. CASE AbandonRun(g)
  <2>1. Active(g) /\ Settle(g, TRUE)
    BY <1>3 DEF AbandonRun, PageApplied, Active
  <2>2. Settled(g, TRUE)
    BY <2>1, SettledFacts DEF Copy
  <2> QED
    BY <1>3, <2>2 DEF AbandonRun, PageApplied
<1>4. CASE StoreStream(g)
  <2>1. Active(g) /\ Settle(g, TRUE)
    BY <1>4 DEF StoreStream, Active
  <2>2. Settled(g, TRUE)
    BY <2>1, SettledFacts DEF Copy
  <2> QED
    BY <1>4, <2>2 DEF StoreStream
<1> QED
  BY <1>1, <1>2, <1>3, <1>4

(* A run goes on: what changes is the run, IndexedDB and projectQueue.     *)
Moves(g) ==
  BeginSync(g) \/ ServeSync(g) \/ TakePage(g) \/ ApplyEvent(g) \/ NextPage(g) \/ StoreCursor(g)

LEMMA MoveFacts ==
  ASSUME TypeOK, NEW g \in Generation, Moves(g)
  PROVE  /\ Active(g) /\ Others(g) /\ UNCHANGED Aside
         /\ sync'[g].pc \in {"fetch", "page", "apply", "stream"}
         /\ streamId' \in {streamId, 0}
         /\ UNCHANGED projectQueue \/ ApplyEvent(g)
         /\ UNCHANGED cursor \/ TakePage(g) \/ StoreCursor(g)
         /\ UNCHANGED <<cache, streamId>> \/ TakePage(g)
BY BeginFacts, ServeFacts, TakeFacts, ApplyFacts, NextFacts, StoreFacts DEF Moves

LEMMA StepCases ==
  ASSUME Next
  PROVE  \/ Record \/ Publish \/ Reopen \/ Replace \/ Accept \/ Opened \/ Receive
         \/ DrainBuffered \/ Project \/ ProjectRead \/ ProjectWrite
         \/ LoseSocket \/ Reload
         \/ \E s \in 1..MaxStream : RestartBridge(s)
         \/ \E g \in Generation : Moves(g) \/ Ends(g)
BY DEF Next, Progress, SyncStep, Moves, Ends

-----------------------------------------------------------------------------
(* One lemma per part of Copy: a step keeps it.                            *)

LEMMA SocketsKept ==
  ASSUME IInv, IInv', Copy, OneFailure', Next
  PROVE  Sockets'
<1> USE DEF IInv, Copy, OneFailure
<1>1. CASE Record \/ Publish \/ Receive \/ Project \/ ProjectRead \/ ProjectWrite
  BY <1>1 DEF Record, Publish, Receive, Project, ProjectRead, ProjectWrite, Sockets,
              dbVars, socketVars, serverVars
<1>2. CASE Reopen \/ Replace
  BY <1>2, Numbers DEF Reopen, Replace, OpenSocket, Sockets, dbVars, serverVars
<1>3. CASE Accept \/ Opened \/ DrainBuffered
  BY <1>3 DEF Accept, Opened, DrainBuffered, Sockets, dbVars, serverVars
<1>4. CASE LoseSocket \/ Reload
  BY <1>4, Numbers DEF LoseSocket, Reload, Drop, Sockets, dbVars, serverVars
<1>5. ASSUME NEW s \in 1..MaxStream, RestartBridge(s) PROVE Sockets'
  BY <1>5, Numbers DEF RestartBridge, Drop, Sockets, dbVars
<1>6. ASSUME NEW g \in Generation, Moves(g) PROVE Sockets'
  BY <1>6, MoveFacts DEF Aside, Sockets
<1>7. ASSUME NEW g \in Generation, Ends(g) PROVE Sockets'
  <2>1. phase' # phase => phase = "opening" /\ g = wsGeneration
        /\ phase' \in {"draining", "closed"} /\ (phase' = "closed" => drops' = drops + 1)
    BY <1>7, EndFacts DEF Settled
  <2>2. stream' = stream /\ wsGeneration' = wsGeneration /\ drops' \in {drops, drops + 1}
    BY <1>7, EndFacts DEF EndsAside
  <2>3. streamId' = streamId \/ (sync[g].pc = "stream" /\ g <= wsGeneration)
    BY <1>7, EndFacts DEF Runs
  <2>4. sync[g].pc = "stream" /\ g <= wsGeneration =>
          wsGeneration # 0 /\ (wsGeneration = 1 => phase \in {"opening", "closed"})
    BY Numbers DEF Runs
  <2> QED
    BY <2>1, <2>2, <2>3, <2>4, Numbers DEF Sockets
<1> QED
  BY <1>1, <1>2, <1>3, <1>4, <1>5, <1>6, <1>7, StepCases

LEMMA RunsKept ==
  ASSUME IInv, IInv', Copy, OneFailure', Next
  PROVE  Runs'
<1> USE DEF IInv, Copy, OneFailure
<1>1. CASE Record \/ Publish \/ Receive \/ Project \/ ProjectRead \/ ProjectWrite
  BY <1>1 DEF Record, Publish, Receive, Project, ProjectRead, ProjectWrite, Runs, Active,
              socketVars, syncVars
<1>2. CASE Reopen \/ Replace
  <2>1. /\ wsGeneration' = wsGeneration + 1 /\ phase' = "connecting"
        /\ UNCHANGED <<sync, syncInFlight>> /\ phase \in {"none", "closed", "live"}
    BY <1>2 DEF Reopen, Replace, OpenSocket, syncVars
  <2>2. wsGeneration \in Nat /\ \A g \in Generation : g \in Nat /\ g >= 1
    BY Numbers
  <2>3. drops <= 1 /\ drops \in Nat
    BY <1>2, Numbers DEF Reopen, Replace
  <2>4. \A g \in Generation : sync[g].pc # "wait"
    BY <2>1, <2>2, <2>3 DEF Runs, Sockets
  <2>5. \A g \in Generation : sync[g].pc # "none" => g # wsGeneration + 1
    BY <2>2 DEF Runs
  <2>6. ASSUME NEW g \in Generation
        PROVE  /\ sync[g].pc # "none" => g <= wsGeneration + 1
               /\ sync[g].pc # "join"
               /\ sync[g].pc \in {"none", "wait", "begin"} => ~sync[g].resetApplied
    BY <2>2 DEF Runs
  <2>7. syncInFlight # 0 => syncInFlight \in Generation /\ Active(syncInFlight)
    BY DEF Runs
  <2> QED
    BY <2>1, <2>4, <2>5, <2>6, <2>7 DEF Runs, Active
<1>3. CASE Accept
  BY <1>3 DEF Accept, Runs, Active, syncVars
<1>4. CASE Opened
  <2> DEFINE w == wsGeneration
  <2>1. w \in Generation /\ w \in Nat /\ w >= 1
    BY <1>4, Numbers DEF Opened, TypeOK
  <2>2. sync[w].pc = "none" /\ ~sync[w].resetApplied /\ phase = "accepted"
        /\ phase' = "opening" /\ w' = w
    BY <1>4, <2>1, RunFields DEF Opened, Runs
  <2>3. sync \in [Generation -> Run] /\ sync[w] \in Run
    BY <2>1 DEF TypeOK
  <2>4. CASE syncInFlight = 0
    <3>1. /\ Others(w) /\ sync'[w].pc = "begin" /\ ~sync'[w].resetApplied
          /\ syncInFlight' = w
      BY <1>4, <2>1, <2>2, <2>3, <2>4 DEF Opened, EnterSync, Others, Run
    <3>2. \A g \in Generation : sync[g].pc # "none" => g # w
      BY <2>2
    <3> QED
      BY <2>1, <2>2, <3>1, <3>2 DEF Runs, Others, Active
  <2>5. CASE syncInFlight # 0
    <3>1. /\ Others(w) /\ sync'[w].pc = "wait" /\ ~sync'[w].resetApplied
          /\ syncInFlight' = syncInFlight
      BY <1>4, <2>1, <2>2, <2>3, <2>5 DEF Opened, EnterSync, Others, Run
    <3>2. /\ syncInFlight \in Generation /\ Active(syncInFlight)
          /\ syncInFlight <= w /\ syncInFlight # w /\ syncInFlight \in Nat
          /\ syncInFlight >= 1
      BY <2>2, <2>5, Numbers DEF Runs, Active
    <3>3. w # 1
      BY <2>1, <3>2
    <3>4. Active(syncInFlight)' 
      BY <3>1, <3>2 DEF Others, Active
    <3> QED
      BY <2>1, <2>2, <3>1, <3>2, <3>3, <3>4 DEF Runs, Others
  <2> QED
    BY <2>4, <2>5
<1>5. CASE DrainBuffered \/ LoseSocket
  BY <1>5 DEF DrainBuffered, LoseSocket, Runs, Active, syncVars
<1>6. CASE Reload
  BY <1>6 DEF Reload, Runs, NoRun
<1>7. ASSUME NEW s \in 1..MaxStream, RestartBridge(s) PROVE Runs'
  BY <1>7 DEF RestartBridge, Runs, Active, syncVars
<1>8. ASSUME NEW g \in Generation, Moves(g) PROVE Runs'
  BY <1>8, MoveFacts DEF Aside, Others, Runs, Active
<1>9. ASSUME NEW g \in Generation, Ends(g) PROVE Runs'
  <2>1. PICK ok \in BOOLEAN : Settled(g, ok)
    BY <1>9, EndFacts
  <2>2. wsGeneration' = wsGeneration
    BY <1>9, EndFacts DEF EndsAside
  <2>3. phase' # phase => g = wsGeneration /\ phase' \in {"draining", "closed"}
    BY <2>1 DEF Settled
  <2>4. phase' \in {"draining", "live"} => syncInFlight' = 0
    BY <2>1, <2>3 DEF Settled, Runs
  <2>5. ASSUME NEW h \in Generation
        PROVE  /\ sync'[h].pc # "none" => h <= wsGeneration
               /\ sync'[h].pc # "join"
               /\ sync'[h].pc = "wait" => h = wsGeneration /\ h # 1
               /\ sync'[h].pc \in {"none", "wait", "begin"} => ~sync'[h].resetApplied
               /\ h = wsGeneration /\ sync'[h].pc # "none" =>
                    phase \in {"opening", "closed"} /\ h # g
    BY <2>1 DEF Settled, Runs, NoRun
  <2>6. syncInFlight' # 0 => syncInFlight' \in Generation /\ Active(syncInFlight)'
    <3> SUFFICES ASSUME syncInFlight' # 0
                 PROVE  syncInFlight' \in Generation /\ Active(syncInFlight)'
      OBVIOUS
    <3>1. /\ syncInFlight' \in Generation /\ syncInFlight' = wsGeneration
          /\ wsGeneration # g /\ sync[wsGeneration].pc = "wait"
      BY <2>1 DEF Settled
    <3>2. sync'[wsGeneration].pc = "begin"
      BY <2>1, <3>1 DEF Settled
    <3> QED
      BY <3>1, <3>2 DEF Active
  <2> QED
    BY <2>2, <2>3, <2>4, <2>5, <2>6 DEF Runs
<1> QED
  BY <1>1, <1>2, <1>3, <1>4, <1>5, <1>6, <1>7, <1>8, <1>9, StepCases

LEMMA LogNumbers ==
  ASSUME TypeOK, Log
  PROVE  Published \in Nat /\ latest = Published + Len(publishQueue)
BY Numbers DEF Log, Published

LEMMA RecordLog ==
  ASSUME IInv, IInv', Copy, Record
  PROVE  Log' /\ Published' = Published
<1> USE DEF IInv, Copy
<1> DEFINE e == [stream |-> stream, seq |-> latest + 1]
<1>1. /\ latest' = latest + 1 /\ publishQueue' = Append(publishQueue, e)
      /\ UNCHANGED <<stream, wire, buffered, phase>>
  BY DEF Record, socketVars
<1>2. e \in Event /\ publishQueue \in Seq(Event)
  BY Numbers, ConstantTypes DEF TypeOK, Event, Record
<1> HIDE DEF e
<1>3. Len(publishQueue') = Len(publishQueue) + 1 /\ Len(publishQueue) \in Nat
  BY <1>1, <1>2, AppendItems
<1>4. Published' = Published /\ Published \in Nat /\ latest = Published + Len(publishQueue)
  <2>1. Published \in Nat /\ latest = Published + Len(publishQueue)
    BY LogNumbers
  <2>2. latest \in Nat
    BY Numbers
  <2>3. Published' = (latest + 1) - (Len(publishQueue) + 1)
    BY <1>1, <1>3 DEF Published
  <2>4. (latest + 1) - (Len(publishQueue) + 1) = Published
    BY <1>3, <2>1, <2>2
  <2> QED
    BY <2>1, <2>3, <2>4
<1>5. ASSUME NEW i \in DOMAIN publishQueue'
      PROVE  publishQueue'[i] = [stream |-> stream, seq |-> Published + i]
  <2>1. CASE i = Len(publishQueue) + 1
    <3>1. publishQueue'[i] = e
      BY <1>1, <1>2, <2>1, AppendItems
    <3>2. Published + i = latest + 1
      BY <1>3, <1>4, <2>1
    <3> QED
      BY <3>1, <3>2 DEF e
  <2>2. CASE i \in DOMAIN publishQueue
    BY <1>1, <1>2, <2>2, AppendItems DEF Log, At
  <2> QED
    BY <1>1, <1>2, <2>1, <2>2, AppendItems
<1>6. Len(publishQueue') <= latest'
  BY <1>1, <1>3, Numbers DEF Log
<1> QED
  BY <1>1, <1>4, <1>5, <1>6 DEF Log, At, Ascending

LEMMA PublishLog ==
  ASSUME IInv, IInv', Copy, Publish
  PROVE  /\ Log' /\ Published' = Published + 1
         /\ Head(publishQueue) = At(Published + 1) /\ Published + 1 <= latest
<1> USE DEF IInv, Copy
<1> DEFINE e == Head(publishQueue)
<1>1. /\ publishQueue # <<>> /\ publishQueue' = Tail(publishQueue)
      /\ wire' = IF Connected /\ e.seq \notin Hidden THEN Append(wire, e) ELSE wire
      /\ UNCHANGED <<stream, latest, buffered, phase>>
  BY DEF Publish
<1>2. publishQueue \in Seq(Event) /\ wire \in Seq(Event)
  BY DEF TypeOK
<1>3. Published \in Nat /\ latest = Published + Len(publishQueue)
  BY LogNumbers
<1>4. Len(publishQueue') = Len(publishQueue) - 1 /\ Len(publishQueue) \in Nat
      /\ Len(publishQueue) >= 1
  BY <1>1, <1>2, TailItems
<1>5. Published' = Published + 1 /\ Published + 1 <= latest
  BY <1>1, <1>3, <1>4, Numbers DEF Published
<1>6. e = At(Published + 1) /\ e \in Event
  BY <1>1, <1>2, TailItems DEF Log
<1>7. ASSUME NEW i \in DOMAIN publishQueue'
      PROVE  publishQueue'[i] = [stream |-> stream, seq |-> Published + 1 + i]
  <2>1. i \in Nat /\ i + 1 \in DOMAIN publishQueue
        /\ publishQueue'[i] = publishQueue[i + 1]
    BY <1>1, <1>2, TailItems
  <2>2. publishQueue[i + 1] = At(Published + (i + 1))
    BY <2>1 DEF Log
  <2>3. Published + (i + 1) = Published + 1 + i
    BY <1>3, <2>1
  <2> QED
    BY <2>1, <2>2, <2>3 DEF At
<1>8. Len(publishQueue') <= latest'
  BY <1>1, <1>4, Numbers DEF Log
<1>9. /\ \A i \in DOMAIN wire' : wire'[i].stream = stream /\ wire'[i].seq <= Published + 1
      /\ Ascending(wire')
      /\ \A i \in DOMAIN buffered, j \in DOMAIN wire' : buffered[i].seq < wire'[j].seq
  <2>1. CASE wire' = wire
    BY <1>3, <2>1, Items, EventFields DEF Log
  <2>2. CASE wire' = Append(wire, e)
    <3>1. e.stream = stream /\ e.seq = Published + 1
      BY <1>6 DEF At
    <3>2. \A i \in DOMAIN wire : wire[i].seq <= Published /\ wire[i].seq \in Nat
      BY Items, EventFields DEF Log
    <3>3. \A i \in DOMAIN buffered : buffered[i].seq <= Published /\ buffered[i].seq \in Nat
      BY Items, EventFields DEF Log
    <3>4. Ascending(wire')
      BY <1>2, <1>3, <1>6, <2>2, <3>1, <3>2, AscendingAppend DEF Log
    <3>5. \A j \in DOMAIN wire' : j \in DOMAIN wire \/ wire'[j] = e
      BY <1>2, <1>6, <2>2, AppendItems
    <3>6. \A j \in DOMAIN wire : wire'[j] = wire[j]
      BY <1>2, <1>6, <2>2, AppendItems
    <3> QED
      BY <1>3, <3>1, <3>2, <3>3, <3>4, <3>5, <3>6 DEF Log
  <2> QED
    BY <1>1, <2>1, <2>2
<1>10. \A i \in DOMAIN buffered : buffered[i].seq <= Published + 1
  BY <1>3, Items, EventFields DEF Log
<1> QED
  BY <1>1, <1>5, <1>6, <1>7, <1>8, <1>9, <1>10 DEF Log, At

LEMMA ReceiveLog ==
  ASSUME IInv, IInv', Copy, Receive
  PROVE  Log' /\ Published' = Published
<1> USE DEF IInv, Copy
<1> DEFINE e == Head(wire)
<1>1. /\ wire # <<>> /\ wire' = Tail(wire)
      /\ phase = "live" => buffered' = buffered
      /\ phase # "live" => buffered' = Append(buffered, e)
      /\ UNCHANGED <<stream, latest, publishQueue, phase>>
  BY DEF Receive, serverVars
<1>2. wire \in Seq(Event) /\ buffered \in Seq(Event)
  BY DEF TypeOK
<1>3. e \in Event /\ e = wire[1] /\ 1 \in DOMAIN wire
      /\ \A i \in DOMAIN wire' : i + 1 \in DOMAIN wire /\ wire'[i] = wire[i + 1]
  BY <1>1, <1>2, TailItems
<1>4. Ascending(wire') /\ \A i \in DOMAIN wire' : e.seq < wire'[i].seq
  BY <1>1, <1>2, AscendingTail DEF Log
<1>5. \A i \in DOMAIN wire' : wire'[i].stream = stream /\ wire'[i].seq <= Published
  BY <1>3 DEF Log
<1>6. /\ \A i \in DOMAIN buffered' :
           buffered'[i].stream = stream /\ buffered'[i].seq <= Published
      /\ Ascending(buffered')
      /\ \A i \in DOMAIN buffered', j \in DOMAIN wire' : buffered'[i].seq < wire'[j].seq
      /\ phase = "live" => buffered' = <<>>
  <2>1. CASE phase = "live"
    BY <1>1, <1>2, <2>1, NothingAscends DEF Log
  <2>2. CASE phase # "live"
    <3>1. buffered' = Append(buffered, e)
      BY <1>1, <2>2
    <3>2. \A i \in DOMAIN buffered : buffered[i].seq < e.seq
      BY <1>3 DEF Log
    <3>3. Ascending(buffered')
      BY <1>2, <1>3, <3>1, <3>2, AscendingAppend DEF Log
    <3>4. \A i \in DOMAIN buffered' :
            (i \in DOMAIN buffered /\ buffered'[i] = buffered[i]) \/ buffered'[i] = e
      BY <1>2, <1>3, <3>1, AppendItems
    <3>5. \A i \in DOMAIN buffered, j \in DOMAIN wire' : buffered[i].seq < wire'[j].seq
      BY <1>3 DEF Log
    <3> QED
      BY <1>3, <1>4, <2>2, <3>3, <3>4, <3>5 DEF Log
  <2> QED
    BY <2>1, <2>2
<1>7. Published' = Published
  BY <1>1 DEF Published
<1> QED
  BY <1>1, <1>4, <1>5, <1>6, <1>7 DEF Log, At

LEMMA LogKept ==
  ASSUME IInv, IInv', Copy, OneFailure', Next
  PROVE  Log'
<1> USE DEF IInv, Copy
<1>1. ASSUME UNCHANGED <<stream, latest, publishQueue, wire, buffered>>,
             phase' = "live" => phase = "live" \/ buffered = <<>>
      PROVE  Log'
  BY <1>1 DEF Log, Published, At, Ascending
<1>2. ASSUME UNCHANGED <<stream, latest, publishQueue>>, wire' = <<>>, buffered' = <<>>
      PROVE  Log'
  BY <1>2, NothingAscends DEF Log, Published, At, Ascending
<1>3. CASE Accept \/ Opened \/ Project \/ ProjectRead \/ ProjectWrite
  BY <1>1, <1>3 DEF Accept, Opened, Project, ProjectRead, ProjectWrite, serverVars,
                    socketVars
<1>4. CASE Reopen \/ Replace \/ LoseSocket \/ Reload
  BY <1>2, <1>4 DEF Reopen, Replace, OpenSocket, LoseSocket, Reload, serverVars
<1>5. CASE DrainBuffered
  <2>1. CASE buffered = <<>>
    BY <1>1, <1>5, <2>1 DEF DrainBuffered, serverVars
  <2>2. CASE buffered # <<>>
    <3>1. /\ buffered' = Tail(buffered)
          /\ UNCHANGED <<stream, latest, publishQueue, wire, phase>> /\ phase = "draining"
      BY <1>5, <2>2 DEF DrainBuffered, serverVars
    <3>2. buffered \in Seq(Event)
      BY DEF TypeOK
    <3>3. Ascending(buffered')
      BY <2>2, <3>1, <3>2, AscendingTail DEF Log
    <3>4. \A i \in DOMAIN buffered' : i + 1 \in DOMAIN buffered /\ buffered'[i] = buffered[i + 1]
      BY <2>2, <3>1, <3>2, TailItems
    <3> QED
      BY <3>1, <3>3, <3>4 DEF Log, Published, At, Ascending
  <2> QED
    BY <2>1, <2>2
<1>6. ASSUME NEW s \in 1..MaxStream, RestartBridge(s) PROVE Log'
  <2>1. publishQueue' = <<>> /\ wire' = <<>> /\ buffered' = <<>>
    BY <1>6 DEF RestartBridge
  <2>2. Len(publishQueue') = 0 /\ DOMAIN publishQueue' = {} /\ latest' \in Nat
    BY <2>1, Numbers DEF TypeOK
  <2> QED
    BY <2>1, <2>2, NothingAscends DEF Log
<1>7. ASSUME NEW g \in Generation, Moves(g) PROVE Log'
  BY <1>1, <1>7, MoveFacts DEF Aside
<1>8. ASSUME NEW g \in Generation, Ends(g) PROVE Log'
  BY <1>1, <1>8, EndFacts DEF EndsAside, Settled
<1> QED
  BY <1>3, <1>4, <1>5, <1>6, <1>7, <1>8, RecordLog, PublishLog, ReceiveLog, StepCases

(* What SyncPage answers.                                                  *)
LEMMA PageFields ==
  ASSUME TypeOK, NEW c \in 0..MaxSeq, NEW s \in 0..MaxStream, NEW p, p = SyncPage(c, s),
         NEW start, start = IF p.reset THEN 0 ELSE c
  PROVE  /\ p.stream = stream /\ p.cursor \in Nat /\ p.cursor <= latest
         /\ start <= p.cursor
         /\ ~p.more => p.cursor = latest
         /\ p.reset => s # stream \/ c > latest
         /\ ~p.reset => c <= latest /\ (s = stream \/ c = 0)
         /\ \A e \in p.events : e.stream = stream /\ e.seq <= p.cursor
         /\ \A m \in (start + 1)..p.cursor : m \in Hidden \/ At(m) \in p.events
<1> DEFINE reset == \/ s # 0 /\ s # stream
                    \/ s = 0 /\ c > 0
                    \/ c > latest
           first == IF reset THEN 0 ELSE c
           end == IF first + PageSize < latest THEN first + PageSize ELSE latest
<1>1. p = [stream |-> stream, reset |-> reset, cursor |-> end,
           more |-> end < latest, events |-> Visible(first + 1, end)]
  BY DEF SyncPage
<1>2. first \in Nat /\ first <= latest
  BY Numbers
<1>3. end \in Nat /\ first <= end /\ end <= latest
  <2>1. latest \in Nat /\ PageSize \in Nat
    BY Numbers, SyncAssumption
  <2> HIDE DEF first
  <2> QED
    BY <1>2, <2>1
<1>4. reset \in BOOLEAN /\ (reset => s # stream \/ c > latest)
      /\ (~reset => c <= latest /\ (s = stream \/ c = 0))
  BY Numbers
<1>5. \A e \in Visible(first + 1, end) : e.stream = stream /\ e.seq <= end
  BY <1>2, <1>3 DEF Visible
<1>6. ASSUME NEW m \in (first + 1)..end, m \notin Hidden
      PROVE  At(m) \in Visible(first + 1, end)
  <2>1. m \in 1..MaxSeq
    BY <1>2, <1>3, Numbers
  <2>2. At(m) \in Event /\ At(m).stream = stream /\ At(m).seq = m
    BY <2>1 DEF At, Event, TypeOK
  <2> QED
    BY <1>6, <2>2 DEF Visible
<1> HIDE DEF reset, first, end
<1>7. /\ p.stream = stream /\ p.reset = reset /\ p.cursor = end /\ p.more = (end < latest)
      /\ p.events = Visible(first + 1, end)
  BY <1>1
<1>8. start = first
  BY <1>7 DEF first
<1>9. ~p.more => p.cursor = latest
  <2>1. latest \in Nat
    BY Numbers
  <2>2. ~(end < latest) => end = latest
    BY <1>3, <2>1
  <2>3. ~p.more => ~(end < latest)
    BY <1>7, Zenon
  <2> QED
    BY <1>7, <2>2, <2>3
<1> QED
  BY <1>3, <1>4, <1>5, <1>6, <1>7, <1>8, <1>9

LEMMA EnqueueItems ==
  ASSUME TypeOK, NEW e \in Event, NEW g \in Generation, NEW of \in {"sync", "live"},
         projectQueue' = Append(projectQueue, [event |-> e, gen |-> g, of |-> of])
  PROVE  LET k == [event |-> e, gen |-> g, of |-> of]
             n == Len(projectQueue)
         IN /\ k \in Task /\ k.event = e /\ k.gen = g /\ k.of = of /\ n \in Nat
            /\ n + 1 \in DOMAIN projectQueue' /\ projectQueue'[n + 1] = k
            /\ \A i \in DOMAIN projectQueue :
                 /\ i \in DOMAIN projectQueue' /\ projectQueue'[i] = projectQueue[i]
                 /\ i \in Nat /\ i >= 1 /\ i <= n
            /\ \A i \in DOMAIN projectQueue' :
                 \/ i = n + 1
                 \/ i \in DOMAIN projectQueue /\ projectQueue'[i] = projectQueue[i]
                      /\ i <= n
            /\ \A f, h : QueuedBy(f, projectQueue, h) => QueuedBy(f, projectQueue', h)
            /\ QueuedBy(e, projectQueue', g)
            /\ projectQueue # <<>> => projectQueue'[1] = projectQueue[1]
<1> DEFINE k == [event |-> e, gen |-> g, of |-> of]
<1>1. k \in Task /\ projectQueue \in Seq(Task) /\ k.event = e /\ k.gen = g /\ k.of = of
  BY DEF Task, TypeOK
<1>2. projectQueue' = Append(projectQueue, k)
  OBVIOUS
<1> HIDE DEF k
<1>3. \A f, h : QueuedBy(f, projectQueue, h) => QueuedBy(f, projectQueue', h)
  BY <1>1, <1>2, QueuedAppend
<1>4. QueuedBy(e, projectQueue', g)
  BY <1>1, <1>2, QueuedAppend
<1>5. projectQueue # <<>> => projectQueue'[1] = projectQueue[1]
  BY <1>1, <1>2, TailItems, AppendItems
<1>6. /\ Len(projectQueue) \in Nat
      /\ Len(projectQueue) + 1 \in DOMAIN projectQueue'
      /\ projectQueue'[Len(projectQueue) + 1] = k
      /\ \A i \in DOMAIN projectQueue :
           /\ i \in DOMAIN projectQueue' /\ projectQueue'[i] = projectQueue[i]
           /\ i \in Nat /\ i >= 1 /\ i <= Len(projectQueue)
      /\ \A i \in DOMAIN projectQueue' :
           \/ i = Len(projectQueue) + 1
           \/ i \in DOMAIN projectQueue /\ projectQueue'[i] = projectQueue[i]
                /\ i <= Len(projectQueue)
  BY <1>1, <1>2, AppendItems
<1> QED
  BY <1>1, <1>3, <1>4, <1>5, <1>6 DEF k

LEMMA ReceiveFacts ==
  ASSUME IInv, Copy, Receive
  PROVE  /\ wsGeneration \in Generation /\ Head(wire) \in Event
         /\ Head(wire).stream = stream /\ Head(wire).seq <= Published
         /\ wire # <<>> /\ wire' = Tail(wire)
         /\ phase # "live" => phase \in {"opening", "draining"}
              /\ buffered' = Append(buffered, Head(wire)) /\ UNCHANGED projectQueue
         /\ phase = "live" => UNCHANGED buffered /\ projectQueue' =
              Append(projectQueue,
                     [event |-> Head(wire), gen |-> wsGeneration, of |-> "live"])
         /\ UNCHANGED <<stream, latest, publishQueue, cursor, streamId, cache, wsGeneration,
                        phase, projecting, readCursor, sync, syncInFlight, drops>>
<1> USE DEF IInv
<1>1. wire # <<>> /\ wire \in Seq(Event)
  BY DEF Receive, TypeOK
<1>2. Head(wire) \in Event /\ 1 \in DOMAIN wire /\ Head(wire) = wire[1]
  BY <1>1, TailItems
<1>3. Head(wire).stream = stream /\ Head(wire).seq <= Published
  BY <1>2 DEF Copy, Log
<1>4. wsGeneration \in Generation
  BY Numbers DEF Receive, TypeOK
<1> QED
  BY <1>1, <1>2, <1>3, <1>4 DEF Receive, Enqueue, serverVars, dbVars, syncVars

LEMMA DrainFacts ==
  ASSUME IInv, Copy, DrainBuffered
  PROVE  /\ wsGeneration \in Generation /\ phase = "draining"
         /\ ~Awaited(wsGeneration, "live")
         /\ buffered = <<>> => phase' = "live" /\ UNCHANGED <<projectQueue, buffered>>
         /\ buffered # <<>> =>
              /\ Head(buffered) \in Event /\ Head(buffered).stream = stream
              /\ Head(buffered).seq <= Published
              /\ buffered' = Tail(buffered) /\ UNCHANGED phase
              /\ projectQueue' =
                   Append(projectQueue,
                          [event |-> Head(buffered), gen |-> wsGeneration, of |-> "live"])
         /\ UNCHANGED <<stream, latest, publishQueue, cursor, streamId, cache, wire,
                        wsGeneration, projecting, readCursor, sync, syncInFlight, drops>>
<1> USE DEF IInv
<1>1. buffered \in Seq(Event)
  BY DEF TypeOK
<1>2. ASSUME buffered # <<>>
      PROVE  /\ Head(buffered) \in Event /\ Head(buffered).stream = stream
             /\ Head(buffered).seq <= Published
  <2>1. Head(buffered) \in Event /\ 1 \in DOMAIN buffered /\ Head(buffered) = buffered[1]
    BY <1>1, <1>2, TailItems
  <2> QED
    BY <2>1 DEF Copy, Log
<1>3. wsGeneration \in Generation
  BY Numbers DEF DrainBuffered, TypeOK
<1> QED
  BY <1>2, <1>3 DEF DrainBuffered, Enqueue, serverVars, dbVars, syncVars

LEMMA ProjectFacts ==
  ASSUME TypeOK, Project
  PROVE  /\ projectQueue # <<>> /\ projecting = "idle"
         /\ Head(projectQueue) = projectQueue[1] /\ 1 \in DOMAIN projectQueue
         /\ Head(projectQueue) \in Task
         /\ Head(projectQueue).gen = wsGeneration =>
              /\ projecting' = "put" /\ UNCHANGED projectQueue
              /\ cache' = cache \cup {Head(projectQueue).event}
         /\ Head(projectQueue).gen # wsGeneration =>
              projectQueue' = Tail(projectQueue) /\ UNCHANGED <<projecting, cache>>
         /\ cache \subseteq cache'
         /\ \A i \in DOMAIN projectQueue' : \E j \in DOMAIN projectQueue :
              projectQueue'[i] = projectQueue[j]
         /\ UNCHANGED <<stream, latest, publishQueue, cursor, streamId, wire, wsGeneration,
                        phase, buffered, readCursor, sync, syncInFlight, drops>>
<1>1. projectQueue \in Seq(Task) /\ projectQueue # <<>>
  BY DEF TypeOK, Project
<1>2. /\ Head(projectQueue) = projectQueue[1] /\ 1 \in DOMAIN projectQueue
      /\ Head(projectQueue) \in Task
      /\ \A i \in DOMAIN Tail(projectQueue) :
           i + 1 \in DOMAIN projectQueue /\ Tail(projectQueue)[i] = projectQueue[i + 1]
  BY <1>1, TailItems
<1> QED
  BY <1>1, <1>2 DEF Project, serverVars, socketVars, syncVars

LEMMA WriteFacts ==
  ASSUME TypeOK, ProjectWrite
  PROVE  /\ projectQueue # <<>> /\ projecting = "read" /\ projecting' = "idle"
         /\ Head(projectQueue) = projectQueue[1] /\ 1 \in DOMAIN projectQueue
         /\ Head(projectQueue) \in Task
         /\ projectQueue' = Tail(projectQueue)
         /\ cursor' \in {Head(projectQueue).event.seq, readCursor}
         /\ \A i \in DOMAIN projectQueue' : \E j \in DOMAIN projectQueue :
              projectQueue'[i] = projectQueue[j]
         /\ UNCHANGED <<stream, latest, publishQueue, streamId, cache, wire, wsGeneration,
                        phase, buffered, sync, syncInFlight, drops>>
<1>1. projectQueue \in Seq(Task) /\ projectQueue # <<>>
  BY DEF TypeOK, ProjectWrite
<1>2. /\ Head(projectQueue) = projectQueue[1] /\ 1 \in DOMAIN projectQueue
      /\ Head(projectQueue) \in Task
      /\ \A i \in DOMAIN Tail(projectQueue) :
           i + 1 \in DOMAIN projectQueue /\ Tail(projectQueue)[i] = projectQueue[i + 1]
  BY <1>1, TailItems
<1> QED
  BY <1>1, <1>2 DEF ProjectWrite, serverVars, socketVars, syncVars

LEMMA KnownKept ==
  ASSUME IInv, IInv', Copy, OneFailure', Next
  PROVE  Known'
<1> USE DEF IInv, Copy
<1>1. ASSUME UNCHANGED <<sync, projectQueue, streamId>>, stream' >= stream
      PROVE  Known'
  <2>1. \A i \in DOMAIN projectQueue : projectQueue[i].event.stream \in Nat
    BY Items, EventFields
  <2>2. \A g \in Generation : sync[g].requested \in Nat /\ sync[g].page.stream \in Nat
    BY RunFields
  <2>3. stream \in Nat /\ streamId \in Nat /\ stream' \in Nat
    BY Numbers DEF TypeOK
  <2> QED
    BY <1>1, <2>1, <2>2, <2>3 DEF Known
<1>2. ASSUME UNCHANGED <<sync, streamId, stream>>,
             \A i \in DOMAIN projectQueue' :
               \/ \E j \in DOMAIN projectQueue : projectQueue'[i] = projectQueue[j]
               \/ projectQueue'[i].event.stream = stream
      PROVE  Known'
  BY <1>2, Numbers DEF Known
<1>3. stream \in Nat
  BY Numbers
<1>4. CASE Record \/ Publish \/ Accept \/ ProjectRead
  BY <1>1, <1>3, <1>4
     DEF Record, Publish, Accept, ProjectRead, dbVars, taskVars, syncVars, serverVars
<1>5. CASE Reopen \/ Replace \/ LoseSocket
  BY <1>1, <1>3, <1>5
     DEF Reopen, Replace, OpenSocket, LoseSocket, dbVars, taskVars, syncVars, serverVars
<1>6. CASE Receive
  <2>1. CASE phase = "live"
    BY <1>2, <1>6, <2>1, ReceiveFacts, EnqueueItems
  <2>2. CASE phase # "live"
    BY <1>1, <1>3, <1>6, <2>2, ReceiveFacts
  <2> QED
    BY <2>1, <2>2
<1>7. CASE DrainBuffered
  <2>1. CASE buffered = <<>>
    BY <1>1, <1>3, <1>7, <2>1, DrainFacts
  <2>2. CASE buffered # <<>>
    BY <1>2, <1>7, <2>2, DrainFacts, EnqueueItems
  <2> QED
    BY <2>1, <2>2
<1>8. CASE Project
  BY <1>2, <1>8, ProjectFacts
<1>9. CASE ProjectWrite
  BY <1>2, <1>9, WriteFacts
<1>10. CASE Opened
  <2>1. wsGeneration \in Generation
    BY <1>10, Numbers DEF Opened, TypeOK
  <2>2. sync \in [Generation -> Run] /\ sync[wsGeneration] \in Run
    BY <2>1 DEF TypeOK
  <2>3. \A g \in Generation :
          /\ sync'[g].requested = sync[g].requested /\ sync'[g].page = sync[g].page
          /\ sync'[g].pc \in {"apply", "stream"} => sync[g].pc \in {"apply", "stream"}
    BY <1>10, <2>1, <2>2 DEF Opened, EnterSync, Run
  <2> QED
    BY <1>10, <2>3 DEF Known, Opened, serverVars, dbVars, taskVars
<1>11. CASE Reload
  <2>1. DOMAIN projectQueue' = {} /\ UNCHANGED <<stream, streamId>>
    BY <1>11 DEF Reload, serverVars, dbVars
  <2>2. \A g \in Generation : sync'[g] = NoRun
    BY <1>11 DEF Reload
  <2> QED
    BY <2>1, <2>2, Numbers DEF Known, NoRun, NoPage
<1>12. ASSUME NEW s \in 1..MaxStream, RestartBridge(s) PROVE Known'
  BY <1>1, <1>3, <1>12 DEF RestartBridge, dbVars, taskVars, syncVars
<1>13. ASSUME NEW g \in Generation, Moves(g) PROVE Known'
  <2>1. Others(g) /\ stream' = stream /\ streamId' <= stream
    BY <1>13, MoveFacts, Numbers DEF Aside, Known
  <2>2. \A i \in DOMAIN projectQueue' : projectQueue'[i].event.stream <= stream
    <3>1. CASE UNCHANGED projectQueue
      BY <3>1 DEF Known
    <3>2. CASE ApplyEvent(g)
      <4>1. PICK e \in sync[g].page.events :
              IF g = wsGeneration
              THEN projectQueue' =
                     Append(projectQueue, [event |-> e, gen |-> g, of |-> "sync"])
              ELSE UNCHANGED projectQueue
        BY <3>2, ApplyFacts
      <4>2. e \in Event /\ e.stream <= stream
        BY <4>1, RunFields DEF Known
      <4> QED
        BY <3>1, <4>1, <4>2, EnqueueItems DEF Known
    <3> QED
      BY <1>13, <3>1, <3>2, MoveFacts
  <2>3. /\ sync'[g].requested <= stream /\ sync'[g].page.stream <= stream
        /\ \A e \in sync'[g].page.events : e.stream = sync'[g].page.stream
        /\ sync'[g].pc \in {"apply", "stream"} =>
             sync'[g].requested = sync'[g].page.stream
    <3>1. CASE BeginSync(g)
      BY <3>1, BeginFacts DEF Known
    <3>2. CASE ServeSync(g)
      <4>1. sync[g].current \in 0..MaxSeq /\ sync[g].requested \in 0..MaxStream
        BY RunFields DEF Run
      <4> DEFINE p == SyncPage(sync[g].current, sync[g].requested)
      <4>2. p.stream = stream /\ \A e \in p.events : e.stream = stream
        BY <4>1, PageFields
      <4>3. sync'[g].page = p /\ sync'[g].pc = "page"
            /\ sync'[g].requested = sync[g].requested
        BY <3>2, ServeFacts
      <4> HIDE DEF p
      <4> QED
        BY <4>2, <4>3, Numbers DEF Known
    <3>3. CASE TakePage(g)
      BY <3>3, TakeFacts DEF Known
    <3>4. CASE ApplyEvent(g)
      BY <3>4, ApplyFacts DEF Known
    <3>5. CASE NextPage(g)
      BY <3>5, NextFacts, Numbers DEF Known, NoPage
    <3>6. CASE StoreCursor(g)
      BY <3>6, StoreFacts DEF Known, PageApplied
    <3> QED
      BY <1>13, <3>1, <3>2, <3>3, <3>4, <3>5, <3>6 DEF Moves
  <2> QED
    BY <2>1, <2>2, <2>3 DEF Known, Others
<1>14. ASSUME NEW g \in Generation, Ends(g) PROVE Known'
  <2>1. PICK ok \in BOOLEAN : Settled(g, ok)
    BY <1>14, EndFacts
  <2>2. UNCHANGED <<stream, projectQueue>> /\ streamId' <= stream
    BY <1>14, EndFacts DEF EndsAside, Known
  <2>3. ASSUME NEW h \in Generation
        PROVE  \/ sync'[h] = NoRun
               \/ /\ sync'[h].requested = sync[h].requested /\ sync'[h].page = sync[h].page
                  /\ sync'[h].pc \in {"apply", "stream"} => sync[h].pc = sync'[h].pc
    BY <2>1 DEF Settled
  <2> QED
    BY <2>2, <2>3, Numbers DEF Known, NoRun, NoPage
<1> QED
  BY <1>4, <1>5, <1>6, <1>7, <1>8, <1>9, <1>10, <1>11, <1>12, <1>13, <1>14, StepCases

-----------------------------------------------------------------------------
TaskFits(k) ==
  /\ k.gen <= wsGeneration
  /\ k.of = "sync" => sync[k.gen].pc = "apply"
  /\ k.of = "live" => sync[k.gen].pc = "none"
  /\ k.of = "live" /\ k.gen = wsGeneration => phase \in {"draining", "live", "closed"}

(* Only runs that are applying and sockets that are through have tasks.    *)
LEMMA TaskGenerations ==
  ASSUME TypeOK, Tasks, NEW i \in DOMAIN projectQueue
  PROVE  LET k == projectQueue[i] IN
         /\ sync[k.gen].pc \in {"apply", "none"}
         /\ sync[k.gen].pc = "apply" => k.of = "sync"
         /\ sync[k.gen].pc = "none" => k.of = "live"
         /\ k.gen = wsGeneration /\ sync[k.gen].pc = "none" =>
              phase \in {"draining", "live", "closed"}
         /\ k \in Task /\ k.gen \in Generation /\ k.gen <= wsGeneration
BY Items DEF Tasks

LEMMA NoneAwaited ==
  ASSUME TypeOK, Tasks, NEW g \in Generation, sync[g].pc # "none", ~Awaited(g, "sync")
  PROVE  \A i \in DOMAIN projectQueue : projectQueue[i].gen # g
<1> SUFFICES ASSUME NEW i \in DOMAIN projectQueue, projectQueue[i].gen = g PROVE FALSE
  OBVIOUS
<1>1. projectQueue[i].of = "sync"
  BY TaskGenerations
<1>2. DOMAIN projectQueue = 1..Len(projectQueue)
  BY DEF TypeOK
<1> QED
  BY <1>1, <1>2 DEF Awaited

(* A run that has no task may take any step.                               *)
LEMMA TasksKeptByRun ==
  ASSUME IInv, Copy, NEW g \in Generation, \A i \in DOMAIN projectQueue : projectQueue[i].gen # g,
         Others(g), UNCHANGED <<projectQueue, wsGeneration, phase>>
  PROVE  Tasks'
BY Items DEF IInv, Copy, Tasks, Others

LEMMA TasksKept ==
  ASSUME IInv, IInv', Copy, OneFailure', Next
  PROVE  Tasks'
<1> USE DEF IInv, Copy
<1>1. ASSUME UNCHANGED <<sync, wsGeneration, phase>>,
             \A i \in DOMAIN projectQueue' :
               \/ \E j \in DOMAIN projectQueue : projectQueue'[i] = projectQueue[j]
               \/ TaskFits(projectQueue'[i])
      PROVE  Tasks'
  BY <1>1 DEF Tasks, TaskFits
<1>2. ASSUME UNCHANGED <<sync, wsGeneration, projectQueue>>,
             phase' \in {"draining", "live", "closed"} \/ phase \in {"connecting", "accepted"}
      PROVE  Tasks'
  BY <1>2 DEF Tasks
<1>3. CASE Record \/ Publish \/ ProjectRead
  BY <1>1, <1>3 DEF Record, Publish, ProjectRead, socketVars, taskVars, syncVars
<1>4. CASE Reopen \/ Replace
  <2>1. UNCHANGED <<sync, projectQueue>> /\ wsGeneration' = wsGeneration + 1
    BY <1>4 DEF Reopen, Replace, OpenSocket, taskVars, syncVars
  <2>2. \A i \in DOMAIN projectQueue :
          projectQueue[i].gen <= wsGeneration /\ projectQueue[i].gen \in Nat
    BY Items, Numbers DEF Tasks
  <2> QED
    BY <2>1, <2>2, Numbers DEF Tasks
<1>5. CASE Accept \/ LoseSocket
  BY <1>2, <1>5 DEF Accept, LoseSocket, taskVars, syncVars
<1>6. CASE Receive
  <2>1. CASE phase = "live"
    <3> DEFINE k == [event |-> Head(wire), gen |-> wsGeneration, of |-> "live"]
    <3>1. wsGeneration \in Generation /\ Head(wire) \in Event
          /\ projectQueue' = Append(projectQueue, k)
          /\ UNCHANGED <<sync, wsGeneration, phase>>
      BY <1>6, <2>1, ReceiveFacts
    <3>2. k.gen = wsGeneration /\ k.of = "live"
          /\ \A i \in DOMAIN projectQueue' :
               \/ \E j \in DOMAIN projectQueue : projectQueue'[i] = projectQueue[j]
               \/ projectQueue'[i] = k
      BY <3>1, EnqueueItems
    <3>3. sync[wsGeneration].pc = "none"
      BY <2>1, <3>1 DEF Runs
    <3> HIDE DEF k
    <3>4. TaskFits(k)
      BY <2>1, <3>2, <3>3, Numbers DEF TaskFits
    <3> QED
      BY <1>1, <3>1, <3>2, <3>4
  <2>2. CASE phase # "live"
    BY <1>1, <1>6, <2>2, ReceiveFacts
  <2> QED
    BY <2>1, <2>2
<1>7. CASE DrainBuffered
  <2>1. CASE buffered = <<>>
    BY <1>2, <1>7, <2>1, DrainFacts
  <2>2. CASE buffered # <<>>
    <3> DEFINE k == [event |-> Head(buffered), gen |-> wsGeneration, of |-> "live"]
    <3>1. wsGeneration \in Generation /\ Head(buffered) \in Event
          /\ projectQueue' = Append(projectQueue, k) /\ phase = "draining"
          /\ UNCHANGED <<sync, wsGeneration, phase>>
      BY <1>7, <2>2, DrainFacts
    <3>2. k.gen = wsGeneration /\ k.of = "live"
          /\ \A i \in DOMAIN projectQueue' :
               \/ \E j \in DOMAIN projectQueue : projectQueue'[i] = projectQueue[j]
               \/ projectQueue'[i] = k
      BY <3>1, EnqueueItems
    <3>3. sync[wsGeneration].pc = "none"
      BY <3>1 DEF Runs
    <3> HIDE DEF k
    <3>4. TaskFits(k)
      BY <3>1, <3>2, <3>3, Numbers DEF TaskFits
    <3> QED
      BY <1>1, <3>1, <3>2, <3>4
  <2> QED
    BY <2>1, <2>2
<1>8. CASE Project
  BY <1>1, <1>8, ProjectFacts
<1>9. CASE ProjectWrite
  BY <1>1, <1>9, WriteFacts
<1>10. CASE Opened
  <2>1. wsGeneration \in Generation /\ phase = "accepted" /\ phase' = "opening"
        /\ UNCHANGED <<projectQueue, wsGeneration>>
    BY <1>10, Numbers DEF Opened, TypeOK, taskVars
  <2>2. sync[wsGeneration].pc = "none"
    BY <2>1, RunFields DEF Runs
  <2>3. \A i \in DOMAIN projectQueue : projectQueue[i].gen # wsGeneration
    BY <2>1, <2>2, TaskGenerations
  <2>4. \A g \in Generation : g # wsGeneration => sync'[g] = sync[g]
    BY <1>10, <2>1 DEF Opened, EnterSync, TypeOK
  <2> QED
    BY <2>1, <2>3, <2>4, Items DEF Tasks
<1>11. CASE Reload
  <2>1. DOMAIN projectQueue' = {}
    BY <1>11 DEF Reload
  <2> QED
    BY <2>1 DEF Tasks
<1>12. ASSUME NEW s \in 1..MaxStream, RestartBridge(s) PROVE Tasks'
  <2>1. CASE phase' = phase
    BY <1>1, <1>12, <2>1 DEF RestartBridge, taskVars, syncVars
  <2>2. CASE phase' = "closed"
    BY <1>2, <1>12, <2>2 DEF RestartBridge, taskVars, syncVars
  <2> QED
    BY <1>12, <2>1, <2>2 DEF RestartBridge
<1>13. ASSUME NEW g \in Generation, Moves(g) PROVE Tasks'
  <2>1. Active(g) /\ Others(g) /\ UNCHANGED <<wsGeneration, phase>>
    BY <1>13, MoveFacts DEF Aside
  <2>2. sync[g].pc # "none"
    BY <2>1 DEF Active
  <2>3. CASE BeginSync(g) \/ ServeSync(g) \/ TakePage(g)
    <3>1. sync[g].pc \in {"begin", "fetch", "page"} /\ UNCHANGED projectQueue
      BY <2>3, BeginFacts, ServeFacts, TakeFacts
    <3>2. \A i \in DOMAIN projectQueue : projectQueue[i].gen # g
      BY <3>1, TaskGenerations
    <3> QED
      BY <2>1, <3>1, <3>2, TasksKeptByRun
  <2>4. CASE NextPage(g) \/ StoreCursor(g)
    <3>1. ~Awaited(g, "sync") /\ UNCHANGED projectQueue
      BY <2>4, NextFacts, StoreFacts DEF PageApplied
    <3>2. \A i \in DOMAIN projectQueue : projectQueue[i].gen # g
      BY <2>2, <3>1, NoneAwaited
    <3> QED
      BY <2>1, <3>1, <3>2, TasksKeptByRun
  <2>5. CASE ApplyEvent(g)
    <3>1. PICK e \in sync[g].page.events :
            IF g = wsGeneration
            THEN projectQueue' =
                   Append(projectQueue, [event |-> e, gen |-> g, of |-> "sync"])
            ELSE UNCHANGED projectQueue
      BY <2>5, ApplyFacts
    <3>2. e \in Event /\ sync'[g].pc = "apply" /\ ~Awaited(g, "sync")
      BY <2>5, <3>1, ApplyFacts, RunFields
    <3>3. \A i \in DOMAIN projectQueue : projectQueue[i].gen # g
      BY <2>2, <3>2, NoneAwaited
    <3>4. CASE g # wsGeneration
      BY <2>1, <3>1, <3>3, <3>4, TasksKeptByRun
    <3>5. CASE g = wsGeneration
      <4> DEFINE k == [event |-> e, gen |-> g, of |-> "sync"]
      <4>1. /\ k.gen = g /\ k.of = "sync"
            /\ \A i \in DOMAIN projectQueue' :
                 \/ i \in DOMAIN projectQueue /\ projectQueue'[i] = projectQueue[i]
                 \/ projectQueue'[i] = k
        BY <3>1, <3>2, <3>5, EnqueueItems
      <4> HIDE DEF k
      <4>2. \A i \in DOMAIN projectQueue :
              projectQueue'[i] = projectQueue[i] => TaskFits(projectQueue[i])'
        BY <2>1, <3>3, Items DEF Tasks, TaskFits, Others
      <4>3. TaskFits(k)'
        BY <2>1, <3>2, <3>5, <4>1, Numbers DEF TaskFits
      <4> QED
        BY <4>1, <4>2, <4>3 DEF Tasks, TaskFits
    <3> QED
      BY <3>4, <3>5
  <2> QED
    BY <1>13, <2>3, <2>4, <2>5 DEF Moves
<1>14. ASSUME NEW g \in Generation, Ends(g) PROVE Tasks'
  <2>1. PICK ok \in BOOLEAN : Settled(g, ok)
    BY <1>14, EndFacts
  <2>2. UNCHANGED <<wsGeneration, projectQueue>>
    BY <1>14, EndFacts DEF EndsAside
  <2>3. \A i \in DOMAIN projectQueue : projectQueue[i].gen # g
    <3>1. sync[g].pc \in {"fetch", "page", "stream"} \/ ~Awaited(g, "sync")
      BY <1>14, EndFacts
    <3>2. sync[g].pc # "none"
      BY <2>1 DEF Settled, Active
    <3> QED
      BY <3>1, <3>2, NoneAwaited, TaskGenerations
  <2>4. ASSUME NEW i \in DOMAIN projectQueue
        PROVE  sync'[projectQueue[i].gen] = sync[projectQueue[i].gen]
    <3>1. projectQueue[i].gen \in Generation /\ sync[projectQueue[i].gen].pc # "wait"
      BY TaskGenerations
    <3> QED
      BY <2>1, <2>3, <3>1 DEF Settled
  <2>5. phase' = phase \/ phase' \in {"draining", "closed"}
    BY <2>1 DEF Settled
  <2> QED
    BY <2>2, <2>4, <2>5 DEF Tasks
<1> QED
  BY <1>3, <1>4, <1>5, <1>6, <1>7, <1>8, <1>9, <1>10, <1>11, <1>12, <1>13, <1>14, StepCases

LEMMA LeadsGrow ==
  ASSUME TypeOK, TypeOK', Leads, UNCHANGED <<projectQueue, wsGeneration, stream, projecting>>,
         latest' >= latest, cache \subseteq cache'
  PROVE  Leads'
<1>1. latest \in Nat /\ latest' \in Nat
  BY Numbers, ConstantTypes DEF TypeOK
<1>2. \A i \in DOMAIN projectQueue : projectQueue[i].event.seq \in Nat
  BY Items, EventFields
<1> QED
  BY <1>1, <1>2 DEF Leads, Has, At

LEMMA LeadsNone ==
  ASSUME TypeOK',
         \A i \in DOMAIN projectQueue' :
           projectQueue'[i].gen # wsGeneration' \/ projectQueue'[i].event.stream # stream'
  PROVE  Leads'
<1>1. projecting' # "idle" => 1 \in DOMAIN projectQueue'
  BY DEF TypeOK
<1> QED
  BY <1>1 DEF Leads

LEMMA LeadsAppend ==
  ASSUME TypeOK, Leads, NEW e \in Event, NEW of \in {"sync", "live"}, wsGeneration \in Generation,
         projectQueue' = Append(projectQueue,
                                [event |-> e, gen |-> wsGeneration, of |-> of]),
         UNCHANGED <<stream, latest, cache, wsGeneration, projecting>>,
         e.stream = stream =>
           /\ e.seq <= latest
           /\ \A m \in 1..(e.seq - 1) :
                Has(m) \/ QueuedBy(At(m), projectQueue, wsGeneration)
  PROVE  Leads'
<1> DEFINE n == Len(projectQueue)
           k == [event |-> e, gen |-> wsGeneration, of |-> of]
<1>1. /\ n \in Nat /\ k.event = e
      /\ n + 1 \in DOMAIN projectQueue' /\ projectQueue'[n + 1] = k
      /\ \A i \in DOMAIN projectQueue :
           /\ i \in DOMAIN projectQueue' /\ projectQueue'[i] = projectQueue[i]
           /\ i \in Nat /\ i >= 1 /\ i <= n
      /\ \A i \in DOMAIN projectQueue' :
           \/ i = n + 1
           \/ i \in DOMAIN projectQueue /\ projectQueue'[i] = projectQueue[i] /\ i <= n
      /\ projectQueue # <<>> => projectQueue'[1] = projectQueue[1]
  BY EnqueueItems
<1>2. \A i \in 1..n : i \in DOMAIN projectQueue
  BY DEF TypeOK
<1> HIDE DEF n, k
<1>3. ASSUME NEW i \in DOMAIN projectQueue',
             projectQueue'[i].gen = wsGeneration, projectQueue'[i].event.stream = stream
      PROVE  /\ projectQueue'[i].event.seq <= latest
             /\ \A m \in 1..(projectQueue'[i].event.seq - 1) :
                  \/ Has(m)
                  \/ \E j \in 1..(i - 1) : projectQueue'[j].gen = wsGeneration
                                             /\ projectQueue'[j].event = At(m)
  <2>1. CASE i = n + 1
    <3>1. projectQueue'[i].event = e
      BY <1>1, <2>1
    <3>2. ASSUME NEW m \in 1..(e.seq - 1), QueuedBy(At(m), projectQueue, wsGeneration)
          PROVE  \E j \in 1..(i - 1) : projectQueue'[j].gen = wsGeneration
                                         /\ projectQueue'[j].event = At(m)
      <4>1. PICK j \in DOMAIN projectQueue :
              projectQueue[j].gen = wsGeneration /\ projectQueue[j].event = At(m)
        BY <3>2 DEF QueuedBy
      <4>2. j \in 1..(i - 1) /\ projectQueue'[j] = projectQueue[j]
        BY <1>1, <2>1, <4>1
      <4> QED
        BY <4>1, <4>2
    <3> QED
      BY <1>3, <3>1, <3>2
  <2>2. CASE i \in DOMAIN projectQueue /\ projectQueue'[i] = projectQueue[i] /\ i <= n
    <3>1. i \in Nat /\ i >= 1
      BY <1>1, <2>2
    <3>2. ASSUME NEW m \in 1..(projectQueue[i].event.seq - 1), NEW j \in 1..(i - 1),
                 projectQueue[j].gen = wsGeneration, projectQueue[j].event = At(m)
          PROVE  \E l \in 1..(i - 1) : projectQueue'[l].gen = wsGeneration
                                         /\ projectQueue'[l].event = At(m)
      <4>1. j \in DOMAIN projectQueue
        BY <1>1, <1>2, <2>2, <3>1
      <4> QED
        BY <1>1, <3>2, <4>1
    <3> QED
      BY <1>3, <2>2, <3>2 DEF Leads
  <2> QED
    BY <1>1, <2>1, <2>2
<1>4. projecting' # "idle" =>
        LET h == projectQueue'[1] IN
        h.gen = wsGeneration /\ h.event.stream = stream => h.event \in cache
  BY <1>1 DEF Leads, TypeOK
<1> QED
  BY <1>3, <1>4 DEF Leads, Has, At

LEMMA LeadsTail ==
  ASSUME TypeOK, Leads, projectQueue # <<>>, projectQueue' = Tail(projectQueue),
         UNCHANGED <<stream, latest, cache, wsGeneration>>, projecting' = "idle",
         LET k == projectQueue[1] IN
         k.gen = wsGeneration /\ k.event.stream = stream => k.event \in cache
  PROVE  Leads'
<1>1. /\ Len(projectQueue) \in Nat
      /\ \A i \in DOMAIN projectQueue' :
           /\ i \in Nat /\ i >= 1
           /\ i + 1 \in DOMAIN projectQueue /\ projectQueue'[i] = projectQueue[i + 1]
      /\ \A i \in DOMAIN projectQueue :
           /\ i \in Nat /\ i >= 1
           /\ i # 1 => i - 1 \in DOMAIN projectQueue' /\ projectQueue'[i - 1] = projectQueue[i]
  BY TailItems DEF TypeOK
<1>2. \A i \in 1..Len(projectQueue) : i \in DOMAIN projectQueue
  BY DEF TypeOK
<1>4. \A i \in DOMAIN projectQueue : i <= Len(projectQueue)
  BY DEF TypeOK
<1>3. ASSUME NEW i \in DOMAIN projectQueue',
             projectQueue'[i].gen = wsGeneration, projectQueue'[i].event.stream = stream
      PROVE  /\ projectQueue'[i].event.seq <= latest
             /\ \A m \in 1..(projectQueue'[i].event.seq - 1) :
                  \/ Has(m)
                  \/ \E j \in 1..(i - 1) : projectQueue'[j].gen = wsGeneration
                                             /\ projectQueue'[j].event = At(m)
  <2>1. i \in Nat /\ i >= 1 /\ i + 1 \in DOMAIN projectQueue
        /\ projectQueue'[i] = projectQueue[i + 1]
    BY <1>1
  <2>2. /\ projectQueue'[i].event.seq <= latest
        /\ \A m \in 1..(projectQueue'[i].event.seq - 1) :
             \/ Has(m)
             \/ \E j \in 1..((i + 1) - 1) : projectQueue[j].gen = wsGeneration
                                              /\ projectQueue[j].event = At(m)
    BY <1>3, <2>1 DEF Leads
  <2>3. ASSUME NEW m \in 1..(projectQueue'[i].event.seq - 1), NEW j \in 1..((i + 1) - 1),
               projectQueue[j].gen = wsGeneration, projectQueue[j].event = At(m)
        PROVE  \/ Has(m)
               \/ \E l \in 1..(i - 1) : projectQueue'[l].gen = wsGeneration
                                          /\ projectQueue'[l].event = At(m)
    <3>1. CASE j = 1
      <4>1. At(m).stream = stream
        BY DEF At
      <4> QED
        BY <2>3, <3>1, <4>1 DEF Has
    <3>2. CASE j # 1
      <4>1. j \in DOMAIN projectQueue /\ j - 1 \in 1..(i - 1)
        BY <1>2, <1>4, <2>1, <3>2
      <4>2. projectQueue'[j - 1] = projectQueue[j]
        BY <1>1, <3>2, <4>1
      <4> QED
        BY <2>3, <4>1, <4>2
    <3> QED
      BY <3>1, <3>2
  <2> QED
    BY <2>2, <2>3
<1> QED
  BY <1>3 DEF Leads, Has, At

(* The head of an ascending sequence comes before all others in it.        *)
LEMMA HeadIsFirst ==
  ASSUME NEW s \in Seq(Event), s # <<>>, Ascending(s), NEW m \in Nat, NEW d,
         Among([stream |-> d, seq |-> m], s)
  PROVE  Head(s).seq <= m
<1>1. PICK i \in DOMAIN s : s[i] = [stream |-> d, seq |-> m]
  BY DEF Among
<1>2. Head(s) = s[1] /\ 1 \in DOMAIN s /\ i \in Nat /\ i >= 1 /\ s[1] \in Event
  BY TailItems
<1>3. s[i].seq = m /\ s[1].seq \in Nat
  BY <1>1, <1>2, EventFields
<1>4. i = 1 \/ s[1].seq < s[i].seq
  BY <1>2 DEF Ascending
<1> QED
  BY <1>2, <1>3, <1>4

LEMMA LeadsKept ==
  ASSUME IInv, IInv', Copy, OneFailure', Next
  PROVE  Leads'
<1> USE DEF IInv, Copy
<1>1. latest \in Nat /\ stream \in Nat /\ wsGeneration \in Nat /\ Published \in Nat
      /\ Published <= latest
  BY Numbers, LogNumbers
<1>2. CASE Record
  BY <1>1, <1>2, LeadsGrow DEF Record, dbVars, socketVars, taskVars
<1>3. CASE Publish
  BY <1>1, <1>3, LeadsGrow DEF Publish, dbVars, taskVars
<1>4. CASE Accept \/ Opened \/ LoseSocket
  BY <1>1, <1>4, LeadsGrow
     DEF Accept, Opened, LoseSocket, dbVars, taskVars, serverVars
<1>5. CASE Reopen \/ Replace
  <2>1. UNCHANGED projectQueue /\ wsGeneration' = wsGeneration + 1
    BY <1>5 DEF Reopen, Replace, OpenSocket, taskVars
  <2>2. \A i \in DOMAIN projectQueue :
          projectQueue[i].gen <= wsGeneration /\ projectQueue[i].gen \in Nat
    BY Items, Numbers DEF Tasks
  <2> QED
    BY <1>1, <2>1, <2>2, LeadsNone
<1>6. CASE Receive
  <2>1. CASE phase = "live"
    <3> DEFINE e == Head(wire)
    <3>1. /\ wsGeneration \in Generation /\ e \in Event /\ e.stream = stream
          /\ e.seq <= Published /\ wire # <<>>
          /\ projectQueue' =
               Append(projectQueue, [event |-> e, gen |-> wsGeneration, of |-> "live"])
          /\ UNCHANGED <<stream, latest, cache, wsGeneration, projecting>>
      BY <1>6, <2>1, ReceiveFacts
    <3>2. e.seq \in Nat
      BY <3>1, EventFields
    <3>3. ASSUME NEW m \in 1..(e.seq - 1)
          PROVE  Has(m) \/ QueuedBy(At(m), projectQueue, wsGeneration)
      <4>1. m \in 1..Published /\ m \in Nat
        BY <1>1, <3>1, <3>2
      <4>2. Has(m) \/ Coming(m) \/ QueuedBy(At(m), projectQueue, wsGeneration)
        BY <2>1, <4>1 DEF Flow
      <4>3. ~Among(At(m), wire)
        <5>1. wire \in Seq(Event) /\ Ascending(wire) /\ wire # <<>>
          BY <3>1 DEF Log, TypeOK
        <5>2. Among([stream |-> stream, seq |-> m], wire) => e.seq <= m
          BY <4>1, <5>1, HeadIsFirst
        <5> QED
          BY <3>2, <5>2 DEF At
      <4>4. ~Among(At(m), buffered)
        BY <2>1 DEF Log, Among
      <4> QED
        BY <4>2, <4>3, <4>4 DEF Coming, Has
    <3>4. e.seq <= latest
      BY <1>1, <3>1, <3>2
    <3> HIDE DEF e
    <3> QED
      BY <3>1, <3>3, <3>4, LeadsAppend
  <2>2. CASE phase # "live"
    BY <1>1, <1>6, <2>2, ReceiveFacts, LeadsGrow
  <2> QED
    BY <2>1, <2>2
<1>7. CASE DrainBuffered
  <2>1. CASE buffered # <<>>
    <3> DEFINE e == Head(buffered)
    <3>1. /\ wsGeneration \in Generation /\ e \in Event /\ e.stream = stream
          /\ e.seq <= Published /\ phase = "draining"
          /\ projectQueue' =
               Append(projectQueue, [event |-> e, gen |-> wsGeneration, of |-> "live"])
          /\ UNCHANGED <<stream, latest, cache, wsGeneration, projecting>>
      BY <1>7, <2>1, DrainFacts
    <3>2. e.seq \in Nat
      BY <3>1, EventFields
    <3>3. ASSUME NEW m \in 1..(e.seq - 1)
          PROVE  Has(m) \/ QueuedBy(At(m), projectQueue, wsGeneration)
      <4>1. m \in 1..Published /\ m \in Nat
        BY <1>1, <3>1, <3>2
      <4>2. Has(m) \/ Coming(m) \/ QueuedBy(At(m), projectQueue, wsGeneration)
        BY <3>1, <4>1 DEF Flow
      <4>3. ~Among(At(m), buffered)
        <5>1. buffered \in Seq(Event) /\ Ascending(buffered) /\ buffered # <<>>
          BY <2>1 DEF Log, TypeOK
        <5>2. Among([stream |-> stream, seq |-> m], buffered) => e.seq <= m
          BY <4>1, <5>1, HeadIsFirst
        <5> QED
          BY <3>2, <5>2 DEF At
      <4>4. ~Among(At(m), wire)
        <5>1. 1 \in DOMAIN buffered /\ e = buffered[1]
          BY <2>1, TailItems DEF TypeOK
        <5>2. \A j \in DOMAIN wire : e.seq < wire[j].seq
          BY <5>1 DEF Log
        <5> QED
          BY <3>2, <5>2 DEF Among, At
      <4> QED
        BY <4>2, <4>3, <4>4 DEF Coming, Has
    <3>4. e.seq <= latest
      BY <1>1, <3>1, <3>2
    <3> HIDE DEF e
    <3> QED
      BY <3>1, <3>3, <3>4, LeadsAppend
  <2>2. CASE buffered = <<>>
    BY <1>1, <1>7, <2>2, DrainFacts, LeadsGrow
  <2> QED
    BY <2>1, <2>2
<1>8. CASE Project
  <2> DEFINE k == Head(projectQueue)
  <2>1. CASE k.gen = wsGeneration
    <3>1. /\ projecting' = "put" /\ k = projectQueue[1]
          /\ UNCHANGED <<projectQueue, stream, latest, wsGeneration>>
          /\ cache' = cache \cup {k.event}
      BY <1>8, <2>1, ProjectFacts
    <3> HIDE DEF k
    <3> QED
      BY <3>1 DEF Leads, Has, At
  <2>2. CASE k.gen # wsGeneration
    BY <1>8, <2>2, ProjectFacts, LeadsTail
  <2> QED
    BY <2>1, <2>2
<1>9. CASE ProjectRead
  BY <1>9 DEF ProjectRead, serverVars, dbVars, socketVars, Leads, Has, At
<1>10. CASE ProjectWrite
  <2>1. LET k == projectQueue[1] IN
        k.gen = wsGeneration /\ k.event.stream = stream => k.event \in cache
    BY <1>10, WriteFacts DEF Leads
  <2> QED
    BY <1>10, <2>1, WriteFacts, LeadsTail
<1>11. CASE Reload
  <2>1. DOMAIN projectQueue' = {}
    BY <1>11 DEF Reload
  <2> QED
    BY <2>1, LeadsNone
<1>12. ASSUME NEW s \in 1..MaxStream, RestartBridge(s) PROVE Leads'
  <2>1. CASE stream' = stream
    BY <1>1, <1>12, <2>1, LeadsGrow DEF RestartBridge, dbVars, taskVars
  <2>2. CASE stream' # stream
    <3>1. stream' > stream /\ stream' \in Nat /\ UNCHANGED projectQueue
      BY <1>1, <1>12, <2>2 DEF RestartBridge, taskVars
    <3>2. \A i \in DOMAIN projectQueue :
            projectQueue[i].event.stream <= stream /\ projectQueue[i].event.stream \in Nat
      BY Items, EventFields DEF Known
    <3> QED
      BY <1>1, <3>1, <3>2, LeadsNone
  <2> QED
    BY <2>1, <2>2
<1>13. ASSUME NEW g \in Generation, Moves(g) PROVE Leads'
  <2>1. Active(g) /\ Others(g) /\ UNCHANGED Aside
    BY <1>13, MoveFacts
  <2>2. sync[g].pc # "none"
    BY <2>1 DEF Active
  <2>3. CASE UNCHANGED <<projectQueue, cache>>
    BY <1>1, <2>1, <2>3, LeadsGrow DEF Aside
  <2>4. CASE TakePage(g) /\ sync[g].page.reset /\ g = wsGeneration
    <3>1. sync[g].pc = "page" /\ UNCHANGED projectQueue
      BY <2>4, TakeFacts
    <3>2. \A i \in DOMAIN projectQueue : projectQueue[i].gen # g
      BY <3>1, TaskGenerations
    <3> QED
      BY <2>1, <2>4, <3>1, <3>2, LeadsNone DEF Aside
  <2>5. CASE ApplyEvent(g) /\ g = wsGeneration
    <3>1. PICK e \in sync[g].page.events :
            /\ \A f \in sync[g].page.events : e.seq <= f.seq
            /\ projectQueue' =
                 Append(projectQueue, [event |-> e, gen |-> wsGeneration, of |-> "sync"])
      BY <2>5, ApplyFacts
    <3>2. e \in Event /\ e.seq \in Nat /\ e.stream = sync[g].page.stream
          /\ sync[g].pc = "apply" /\ UNCHANGED cache
      BY <2>5, <3>1, ApplyFacts, RunFields, EventFields DEF Known
    <3>3. ASSUME e.stream = stream
          PROVE  /\ e.seq <= latest
                 /\ \A m \in 1..(e.seq - 1) :
                      Has(m) \/ QueuedBy(At(m), projectQueue, wsGeneration)
      <4>1. /\ sync[g].page.cursor <= latest /\ sync[g].page.cursor \in Nat
            /\ e.seq <= sync[g].page.cursor
            /\ \A m \in 1..sync[g].page.cursor :
                 \/ Has(m) \/ At(m) \in sync[g].page.events
                 \/ QueuedBy(At(m), projectQueue, wsGeneration)
        BY <2>5, <3>1, <3>2, <3>3, RunFields DEF Applying
      <4>2. ASSUME NEW m \in 1..(e.seq - 1) PROVE At(m) \notin sync[g].page.events
        BY <3>1, <3>2 DEF At
      <4> QED
        BY <1>1, <3>2, <4>1, <4>2
    <3> QED
      BY <2>1, <2>5, <3>1, <3>2, <3>3, LeadsAppend DEF Aside
  <2> QED
    BY <1>13, <2>3, <2>4, <2>5, MoveFacts, TakeFacts, ApplyFacts
<1>14. ASSUME NEW g \in Generation, Ends(g) PROVE Leads'
  <2>1. UNCHANGED <<stream, latest, cache, wsGeneration, projectQueue, projecting>>
    BY <1>14, EndFacts DEF EndsAside
  <2> QED
    BY <1>1, <2>1, LeadsGrow
<1> QED
  BY <1>2, <1>3, <1>4, <1>5, <1>6, <1>7, <1>8, <1>9, <1>10, <1>11, <1>12, <1>13, <1>14,
     StepCases

(* Between publishQueue and IndexedDB no event is lost.                    *)
Carries == Record \/ Publish \/ Receive \/ DrainBuffered \/ Project \/ ProjectRead \/ ProjectWrite

Waits(m) == QueuedBy(At(m), projectQueue, wsGeneration)

LEMMA CarryFacts ==
  ASSUME IInv, IInv', Copy, Carries
  PROVE  /\ UNCHANGED <<stream, wsGeneration, sync, streamId, drops>> /\ latest' >= latest
         /\ phase' = phase \/ (phase = "draining" /\ phase' = "live")
         /\ cache \subseteq cache'
         /\ \A m \in Nat : Waits(m) => Waits(m)' \/ Has(m)'
         /\ \A m \in Nat : Coming(m) => Coming(m)' \/ (phase # "opening" /\ Waits(m)')
         /\ \A m \in Nat : m <= Published' => m <= Published \/ ~Connected \/ Coming(m)'
<1> USE DEF IInv, Copy
<1>1. /\ latest \in Nat /\ Published \in Nat
      /\ projectQueue \in Seq(Task) /\ wire \in Seq(Event) /\ buffered \in Seq(Event)
      /\ publishQueue \in Seq(Event)
  BY Numbers, LogNumbers DEF TypeOK
<1>2. ASSUME UNCHANGED <<stream, wire, buffered>>
      PROVE  \A m \in Nat : Coming(m) => Coming(m)'
  BY <1>2 DEF Coming, At
<1>3. ASSUME UNCHANGED <<stream, wsGeneration, projectQueue>>
      PROVE  \A m \in Nat : Waits(m) => Waits(m)'
  BY <1>3 DEF Waits, At
<1>4. ASSUME UNCHANGED <<latest, publishQueue>>
      PROVE  Published' = Published
  BY <1>4 DEF Published
<1>5. CASE Record
  <2>1. /\ UNCHANGED <<stream, wsGeneration, sync, streamId, drops, phase, cache, wire, buffered,
                       projectQueue>>
        /\ latest' = latest + 1
    BY <1>5 DEF Record, dbVars, socketVars, taskVars, syncVars
  <2>2. Published' = Published
    BY <1>5, RecordLog
  <2> QED
    BY <1>1, <1>2, <1>3, <2>1, <2>2
<1>6. CASE Publish
  <2>1. /\ UNCHANGED <<stream, latest, wsGeneration, sync, streamId, drops, phase, cache,
                       buffered, projectQueue>>
        /\ wire' = IF Connected /\ Head(publishQueue).seq \notin Hidden
                   THEN Append(wire, Head(publishQueue)) ELSE wire
    BY <1>6 DEF Publish, dbVars, taskVars, syncVars
  <2>2. Published' = Published + 1 /\ Head(publishQueue) = At(Published + 1)
        /\ Head(publishQueue) \in Event
    BY <1>1, <1>6, PublishLog, TailItems DEF Publish
  <2>3. ASSUME NEW m \in Nat, Coming(m) PROVE Coming(m)'
    BY <1>1, <2>1, <2>2, <2>3, AmongAppend DEF Coming, At
  <2>4. ASSUME NEW m \in Nat, m = Published + 1, Connected PROVE Coming(m)'
    <3>1. CASE m \in Hidden
      BY <3>1 DEF Coming
    <3>2. CASE m \notin Hidden
      <4>1. wire' = Append(wire, Head(publishQueue))
        BY <2>1, <2>2, <2>4, <3>2 DEF At
      <4>2. Among(Head(publishQueue), wire')
        BY <1>1, <2>2, <4>1, AmongAppend
      <4> QED
        BY <2>1, <2>2, <2>4, <4>2 DEF Coming, At
    <3> QED
      BY <3>1, <3>2
  <2>5. \A m \in Nat : m <= Published' => m <= Published \/ m = Published + 1
    BY <1>1, <2>2
  <2> QED
    BY <1>1, <1>3, <2>1, <2>3, <2>4, <2>5
<1>7. CASE Receive
  <2>1. /\ wsGeneration \in Generation /\ Head(wire) \in Event
        /\ wire # <<>> /\ wire' = Tail(wire)
        /\ phase # "live" => buffered' = Append(buffered, Head(wire)) /\ UNCHANGED projectQueue
        /\ phase = "live" => UNCHANGED buffered /\ projectQueue' =
             Append(projectQueue,
                    [event |-> Head(wire), gen |-> wsGeneration, of |-> "live"])
        /\ UNCHANGED <<stream, latest, publishQueue, streamId, cache, wsGeneration, phase,
                       sync, drops>>
    BY <1>7, ReceiveFacts
  <2>2. ASSUME NEW m \in Nat, Waits(m) PROVE Waits(m)'
    <3>1. CASE phase = "live"
      <4>1. QueuedBy(At(m), projectQueue', wsGeneration)
        BY <2>1, <2>2, <3>1, EnqueueItems DEF Waits
      <4> QED
        BY <2>1, <4>1 DEF Waits, At
    <3>2. CASE phase # "live"
      BY <1>3, <2>1, <2>2, <3>2
    <3> QED
      BY <3>1, <3>2
  <2>3. ASSUME NEW m \in Nat, Coming(m)
        PROVE  Coming(m)' \/ (phase # "opening" /\ Waits(m)')
    <3>1. CASE Among(At(m), wire) /\ At(m) = Head(wire) /\ phase = "live"
      <4>1. QueuedBy(At(m), projectQueue', wsGeneration)
        <5>1. QueuedBy(Head(wire), projectQueue', wsGeneration)
          BY <2>1, <3>1, EnqueueItems
        <5> QED
          BY <3>1, <5>1
      <4> QED
        BY <2>1, <3>1, <4>1 DEF Waits, At
    <3>2. CASE Among(At(m), wire) /\ At(m) = Head(wire) /\ phase # "live"
      <4>1. Among(At(m), buffered')
        <5>1. buffered' = Append(buffered, Head(wire)) /\ Head(wire) \in Event
          BY <2>1, <3>2
        <5>2. Among(Head(wire), Append(buffered, Head(wire)))
          BY <1>1, <5>1, AmongAppend
        <5> QED
          BY <3>2, <5>1, <5>2
      <4> QED
        BY <2>1, <4>1 DEF Coming, At
    <3>3. CASE Among(At(m), wire) /\ At(m) # Head(wire)
      <4>1. Among(At(m), wire')
        BY <1>1, <2>1, <3>3, AmongTail
      <4> QED
        BY <2>1, <4>1 DEF Coming, At
    <3>4. CASE Among(At(m), buffered)
      <4>1. Among(At(m), buffered')
        <5>1. buffered' = buffered \/ buffered' = Append(buffered, Head(wire))
          BY <2>1
        <5>2. Among(At(m), Append(buffered, Head(wire)))
          BY <1>1, <2>1, <3>4, AmongAppend
        <5> QED
          BY <3>4, <5>1, <5>2
      <4> QED
        BY <2>1, <4>1 DEF Coming, At
    <3>5. CASE m \in Hidden
      BY <3>5 DEF Coming
    <3> QED
      BY <2>3, <3>1, <3>2, <3>3, <3>4, <3>5 DEF Coming
  <2> QED
    BY <1>1, <1>4, <2>1, <2>2, <2>3
<1>8. CASE DrainBuffered
  <2>1. CASE buffered = <<>>
    <3>1. /\ UNCHANGED <<stream, latest, publishQueue, streamId, cache, wsGeneration, wire,
                         buffered, projectQueue, sync, drops>>
          /\ phase = "draining" /\ phase' = "live"
      BY <1>8, <2>1, DrainFacts
    <3> QED
      BY <1>1, <1>2, <1>3, <1>4, <3>1
  <2>2. CASE buffered # <<>>
    <3>1. /\ wsGeneration \in Generation /\ Head(buffered) \in Event /\ phase = "draining"
          /\ buffered' = Tail(buffered)
          /\ projectQueue' =
               Append(projectQueue,
                      [event |-> Head(buffered), gen |-> wsGeneration, of |-> "live"])
          /\ UNCHANGED <<stream, latest, publishQueue, streamId, cache, wsGeneration, wire,
                         phase, sync, drops>>
      BY <1>8, <2>2, DrainFacts
    <3>2. ASSUME NEW m \in Nat, Waits(m) PROVE Waits(m)'
      <4>1. QueuedBy(At(m), projectQueue', wsGeneration)
        BY <3>1, <3>2, EnqueueItems DEF Waits
      <4> QED
        BY <3>1, <4>1 DEF Waits, At
    <3>3. ASSUME NEW m \in Nat, Coming(m)
          PROVE  Coming(m)' \/ (phase # "opening" /\ Waits(m)')
      <4>1. CASE Among(At(m), buffered) /\ At(m) = Head(buffered)
        <5>1. QueuedBy(At(m), projectQueue', wsGeneration)
          <6>1. QueuedBy(Head(buffered), projectQueue', wsGeneration)
            BY <3>1, EnqueueItems
          <6> QED
            BY <4>1, <6>1
        <5> QED
          BY <3>1, <5>1 DEF Waits, At
      <4>2. CASE Among(At(m), buffered) /\ At(m) # Head(buffered)
        <5>1. Among(At(m), buffered')
          BY <1>1, <2>2, <3>1, <4>2, AmongTail
        <5> QED
          BY <3>1, <5>1 DEF Coming, At
      <4>3. CASE Among(At(m), wire) \/ m \in Hidden
        BY <3>1, <4>3 DEF Coming, At
      <4> QED
        BY <3>3, <4>1, <4>2, <4>3 DEF Coming
    <3> QED
      BY <1>1, <1>4, <3>1, <3>2, <3>3
  <2> QED
    BY <2>1, <2>2
<1>9. CASE Project
  <2>1. /\ projectQueue # <<>> /\ cache \subseteq cache'
        /\ Head(projectQueue).gen = wsGeneration => UNCHANGED projectQueue
        /\ Head(projectQueue).gen # wsGeneration => projectQueue' = Tail(projectQueue)
        /\ UNCHANGED <<stream, latest, publishQueue, streamId, wire, wsGeneration, phase,
                       buffered, sync, drops>>
    BY <1>9, ProjectFacts
  <2>2. ASSUME NEW m \in Nat, Waits(m) PROVE Waits(m)'
    <3>1. CASE Head(projectQueue).gen = wsGeneration
      BY <1>3, <2>1, <2>2, <3>1
    <3>2. CASE Head(projectQueue).gen # wsGeneration
      <4>1. QueuedBy(At(m), projectQueue', wsGeneration)
        BY <1>1, <2>1, <2>2, <3>2, QueuedTail DEF Waits
      <4> QED
        BY <2>1, <4>1 DEF Waits, At
    <3> QED
      BY <3>1, <3>2
  <2> QED
    BY <1>1, <1>2, <1>4, <2>1, <2>2
<1>10. CASE ProjectRead
  <2>1. UNCHANGED <<stream, latest, publishQueue, streamId, wire, wsGeneration, phase,
                    buffered, sync, drops, cache, projectQueue>>
    BY <1>10 DEF ProjectRead, serverVars, dbVars, socketVars, syncVars
  <2> QED
    BY <1>1, <1>2, <1>3, <1>4, <2>1
<1>11. CASE ProjectWrite
  <2>1. /\ projectQueue # <<>> /\ projectQueue' = Tail(projectQueue)
        /\ projecting = "read" /\ Head(projectQueue) = projectQueue[1]
        /\ UNCHANGED <<stream, latest, publishQueue, streamId, cache, wire, wsGeneration,
                       phase, buffered, sync, drops>>
    BY <1>11, WriteFacts
  <2>2. ASSUME NEW m \in Nat, Waits(m) PROVE Waits(m)' \/ Has(m)'
    <3>1. CASE QueuedBy(At(m), projectQueue', wsGeneration)
      BY <2>1, <3>1 DEF Waits, At
    <3>2. CASE Head(projectQueue).gen = wsGeneration /\ Head(projectQueue).event = At(m)
      <4>1. At(m).stream = stream
        BY DEF At
      <4>2. At(m) \in cache
        BY <2>1, <3>2, <4>1 DEF Leads
      <4> QED
        BY <2>1, <4>2 DEF Has, At
    <3> QED
      BY <1>1, <2>1, <2>2, <3>1, <3>2, QueuedTail DEF Waits
  <2> QED
    BY <1>1, <1>2, <1>4, <2>1, <2>2
<1> QED
  BY <1>5, <1>6, <1>7, <1>8, <1>9, <1>10, <1>11 DEF Carries

LEMMA HasGrows ==
  ASSUME UNCHANGED stream, cache \subseteq cache'
  PROVE  \A m \in Nat : Has(m) => Has(m)'
BY DEF Has, At

LEMMA FlowKept ==
  ASSUME IInv, IInv', Copy, OneFailure', Next
  PROVE  Flow'
<1> USE DEF IInv, Copy
<1>0. Published \in Nat /\ Published' \in Nat
  <2>1. Log'
    BY LogKept
  <2>2. publishQueue' \in Seq(Event) /\ latest' \in Nat
    BY ConstantTypes DEF TypeOK
  <2> QED
    BY <2>1, <2>2, LogNumbers DEF Log, Published
<1>1. ASSUME phase' \notin {"draining", "live"} PROVE Flow'
  BY <1>1 DEF Flow
<1>2. ASSUME UNCHANGED <<phase, stream, latest, publishQueue, wire, buffered, projectQueue,
                         wsGeneration, cache>>
      PROVE  Flow'
  BY <1>2 DEF Flow, Published, Has, Coming, At
<1>3. CASE Carries
  <2> SUFFICES ASSUME phase' \in {"draining", "live"}, NEW m \in 1..Published'
               PROVE  Has(m)' \/ Coming(m)' \/ Waits(m)'
    BY DEF Flow, Waits
  <2>1. m \in Nat /\ m <= Published' /\ m >= 1
    BY <1>0
  <2>2. phase \in {"draining", "live"}
    BY <1>3, CarryFacts
  <2>3. CASE m <= Published
    <3>1. m \in 1..Published
      BY <1>0, <2>1, <2>3
    <3>2. Has(m) \/ Coming(m) \/ Waits(m)
      BY <2>2, <3>1 DEF Flow, Waits
    <3>3. Has(m) => Has(m)'
      BY <1>3, <2>1, CarryFacts, HasGrows
    <3> QED
      BY <1>3, <2>1, <3>2, <3>3, CarryFacts
  <2>4. CASE ~(m <= Published)
    <3>1. Connected
      BY <2>2 DEF Connected
    <3> QED
      BY <1>3, <2>1, <2>4, <3>1, CarryFacts
  <2> QED
    BY <2>3, <2>4
<1>4. CASE Reopen \/ Replace \/ Accept \/ Opened \/ LoseSocket \/ Reload
  BY <1>1, <1>4 DEF Reopen, Replace, OpenSocket, Accept, Opened, LoseSocket, Reload
<1>5. ASSUME NEW s \in 1..MaxStream, RestartBridge(s) PROVE Flow'
  BY <1>1, <1>5 DEF RestartBridge
<1>6. ASSUME NEW g \in Generation, Moves(g) PROVE Flow'
  <2>1. Active(g) /\ UNCHANGED Aside
    BY <1>6, MoveFacts
  <2>2. CASE g = wsGeneration
    BY <1>1, <2>1, <2>2 DEF Runs, Active, Aside
  <2>3. CASE g # wsGeneration
    <3>1. UNCHANGED <<cache, projectQueue>>
      BY <1>6, <2>3, MoveFacts, TakeFacts, ApplyFacts
    <3> QED
      BY <1>2, <2>1, <3>1 DEF Aside
  <2> QED
    BY <2>2, <2>3
<1>7. ASSUME NEW g \in Generation, Ends(g) PROVE Flow'
  <2>1. PICK ok \in BOOLEAN : Settled(g, ok)
    BY <1>7, EndFacts
  <2>2. UNCHANGED EndsAside
    BY <1>7, EndFacts
  <2>3. CASE g = wsGeneration /\ phase = "opening" /\ sync[g].pc = "stream"
    <3>1. /\ Held(sync[g].page.cursor) /\ Final(sync[g].page) /\ ~sync[g].page.more
          /\ sync[g].page.cursor \in Nat
      BY <2>3, RunFields DEF Storing
    <3>2. ASSUME NEW m \in 1..Published PROVE Has(m) \/ Coming(m)
      <4>1. m \in 1..sync[g].page.cursor \/ m \in (sync[g].page.cursor + 1)..Published
        BY <1>0, <3>1
      <4> QED
        BY <2>3, <3>1, <4>1 DEF Held, Final
    <3> QED
      BY <2>2, <3>2 DEF EndsAside, Flow, Published, Has, Coming, At
  <2>4. CASE g = wsGeneration /\ phase = "opening" /\ sync[g].pc # "stream"
    <3>1. phase' = "closed"
      BY <1>7, <2>4, EndFacts DEF Settled
    <3> QED
      BY <1>1, <3>1
  <2>5. CASE ~(g = wsGeneration /\ phase = "opening")
    <3>1. phase' = phase
      BY <2>1, <2>5 DEF Settled
    <3> QED
      BY <1>2, <2>2, <3>1 DEF EndsAside
  <2> QED
    BY <2>3, <2>4, <2>5
<1> QED
  BY <1>3, <1>4, <1>5, <1>6, <1>7, StepCases DEF Carries

-----------------------------------------------------------------------------
(* What the run of the current socket has in hand.                         *)
InHand == Fetching /\ Paged /\ Applying /\ Storing

LEMMA NothingInHand ==
  ASSUME \A g \in Generation :
           g = wsGeneration' => sync'[g].pc \notin {"fetch", "page", "apply", "stream"}
  PROVE  InHand'
BY DEF InHand, Fetching, Paged, Applying, Storing

LEMMA HeldGrows ==
  ASSUME TypeOK, TypeOK', UNCHANGED stream, latest' >= latest, cache \subseteq cache',
         NEW c \in Nat, Held(c)
  PROVE  c <= latest' /\ \A m \in 1..c : Has(m)'
<1>1. latest \in Nat /\ latest' \in Nat
  BY Numbers, ConstantTypes DEF TypeOK
<1> QED
  BY <1>1, HasGrows DEF Held

LEMMA InHandFrame ==
  ASSUME IInv, IInv', Copy, UNCHANGED <<stream, wsGeneration, sync>>,
         latest' >= latest, cache \subseteq cache',
         \A m \in Nat : Waits(m) => Waits(m)' \/ Has(m)',
         phase' = "opening" =>
           /\ phase = "opening"
           /\ \A m \in Nat : Coming(m) => Coming(m)'
           /\ \A m \in Nat : m <= Published' => m <= Published \/ Coming(m)'
  PROVE  InHand'
<1> USE DEF IInv, Copy
<1>1. latest \in Nat /\ latest' \in Nat /\ Published \in Nat
  BY Numbers, LogNumbers, ConstantTypes DEF TypeOK
<1>2. ASSUME NEW p \in Page, Final(p), ~p.more, phase' = "opening",
             NEW m \in (p.cursor + 1)..Published'
      PROVE  Coming(m)'
  <2>1. p.cursor \in Nat
    BY <1>2, ConstantTypes DEF Page
  <2>2. m \in Nat /\ m <= Published'
    <3>1. publishQueue' \in Seq(Event)
      BY DEF TypeOK
    <3>2. Len(publishQueue') \in Nat
      BY <3>1
    <3> QED
      BY <1>1, <1>2, <2>1, <3>2 DEF Published
  <2>3. CASE m <= Published
    <3>1. m \in (p.cursor + 1)..Published
      BY <1>1, <1>2, <2>1, <2>2, <2>3
    <3> QED
      BY <1>2, <2>2, <3>1 DEF Final
  <2> QED
    BY <1>2, <2>2, <2>3
<1>3. \A c \in Nat : Held(c) => c <= latest' /\ \A m \in 1..c : Has(m)'
  BY HeldGrows
<1>4. \A m \in Nat : Has(m) => Has(m)'
  BY HasGrows
<1>5. Fetching'
  <2>1. \A g \in Generation : sync[g].current \in Nat
    BY RunFields
  <2> QED
    BY <1>3, <2>1 DEF Fetching, Held
<1>6. Paged'
  <2> SUFFICES ASSUME NEW g \in Generation, g = wsGeneration, sync[g].pc = "page"
               PROVE  LET r == sync[g]
                          page == r.page
                      IN
                      /\ page.reset /\ phase' = "opening" => ~r.resetApplied
                      /\ phase' = "opening" => page.stream = stream
                      /\ page.stream = stream =>
                           /\ Start(r) <= page.cursor /\ page.cursor <= latest'
                           /\ ~page.reset =>
                                r.current <= latest' /\ \A m \in 1..r.current : Has(m)'
                           /\ \A e \in page.events : e.seq <= page.cursor
                           /\ \A m \in (Start(r) + 1)..page.cursor :
                                m \in Hidden \/ At(m) \in page.events
                           /\ ~page.more /\ phase' = "opening" =>
                                \A m \in (page.cursor + 1)..Published' : Coming(m)'
    BY DEF Paged, Final, Held, Start, At
  <2>1. /\ sync[g].current \in Nat /\ sync[g].page \in Page /\ sync[g].page.cursor \in Nat
    BY RunFields
  <2>2. sync[g].page.stream = stream => sync[g].page.cursor <= latest'
    BY <1>1, <2>1 DEF Paged
  <2> QED
    BY <1>2, <1>3, <2>1, <2>2 DEF Paged
<1>7. Applying'
  <2> SUFFICES ASSUME NEW g \in Generation, g = wsGeneration, sync[g].pc = "apply"
               PROVE  LET r == sync[g]
                          page == r.page
                      IN
                      /\ phase' = "opening" => page.stream = stream
                      /\ page.stream = stream =>
                           /\ r.current <= page.cursor /\ page.cursor <= latest'
                           /\ \A e \in page.events : e.seq <= page.cursor
                           /\ \A m \in 1..page.cursor :
                                Has(m)' \/ At(m) \in page.events \/ Waits(m)'
                           /\ ~page.more /\ phase' = "opening" =>
                                \A m \in (page.cursor + 1)..Published' : Coming(m)'
    BY DEF Applying, Final, At, Waits
  <2>1. /\ sync[g].current \in Nat /\ sync[g].page \in Page /\ sync[g].page.cursor \in Nat
    BY RunFields
  <2>2. sync[g].page.stream = stream => sync[g].page.cursor <= latest'
    BY <1>1, <2>1 DEF Applying
  <2>3. ASSUME sync[g].page.stream = stream, NEW m \in 1..sync[g].page.cursor
        PROVE  Has(m)' \/ At(m) \in sync[g].page.events \/ Waits(m)'
    <3>1. m \in Nat
      BY <2>1
    <3>2. Has(m) \/ At(m) \in sync[g].page.events \/ Waits(m)
      BY <2>3 DEF Applying, Waits
    <3> QED
      BY <1>4, <3>1, <3>2
  <2> QED
    BY <1>2, <2>1, <2>2, <2>3 DEF Applying
<1>8. Storing'
  <2> SUFFICES ASSUME NEW g \in Generation, g = wsGeneration, sync[g].pc = "stream"
               PROVE  LET page == sync[g].page IN
                      /\ phase' = "opening" => page.stream = stream
                      /\ page.stream = stream =>
                           /\ page.cursor <= latest' /\ \A m \in 1..page.cursor : Has(m)'
                           /\ ~page.more
                           /\ phase' = "opening" =>
                                \A m \in (page.cursor + 1)..Published' : Coming(m)'
    BY DEF Storing, Final, Held
  <2>1. sync[g].page \in Page /\ sync[g].page.cursor \in Nat
    BY RunFields
  <2> QED
    BY <1>2, <1>3, <2>1 DEF Storing
<1> QED
  BY <1>5, <1>6, <1>7, <1>8 DEF InHand

(* Failures are counted.                                                   *)
LEMMA DropsGrow ==
  ASSUME TypeOK, Next
  PROVE  drops' = drops \/ drops' = drops + 1
<1>1. CASE Record \/ Publish \/ Reopen \/ Replace \/ Accept \/ Opened
  BY <1>1 DEF Record, Publish, Reopen, Replace, Accept, Opened
<1>2. CASE Receive \/ DrainBuffered \/ Project \/ ProjectRead \/ ProjectWrite
  BY <1>2 DEF Receive, DrainBuffered, Project, ProjectRead, ProjectWrite
<1>3. CASE LoseSocket \/ Reload
  BY <1>3 DEF LoseSocket, Reload, Drop
<1>4. ASSUME NEW s \in 1..MaxStream, RestartBridge(s) PROVE drops' = drops + 1
  BY <1>4 DEF RestartBridge, Drop
<1>5. ASSUME NEW g \in Generation, Moves(g) PROVE drops' = drops
  BY <1>5, MoveFacts DEF Aside
<1>6. ASSUME NEW g \in Generation, Ends(g) PROVE drops' = drops \/ drops' = drops + 1
  BY <1>6 DEF Ends, TakeSecondReset, AbandonRun, StoreStream, LoseRequest, Drop
<1> QED
  BY <1>1, <1>2, <1>3, <1>4, <1>5, <1>6, StepCases

LEMMA FewDrops ==
  ASSUME IInv, IInv', Copy, OneFailure', Next
  PROVE  drops \in {0, 1} /\ stream \in {1, 2} /\ (stream = 2 => drops = 1 /\ drops' = drops)
<1> USE DEF IInv, Copy
<1>1. drops \in Nat /\ drops' \in Nat /\ drops' <= 1 /\ stream \in Nat /\ stream >= 1
  BY Numbers, ConstantTypes DEF TypeOK, OneFailure
<1>2. drops' = drops \/ drops' = drops + 1
  BY DropsGrow
<1>3. stream <= 1 + drops
  BY DEF Sockets
<1> QED
  BY <1>1, <1>2, <1>3

(* The pages of the current run.                                           *)
LEMMA ServeInHand ==
  ASSUME IInv, IInv', Copy, OneFailure', NEW g \in Generation, g = wsGeneration, ServeSync(g)
  PROVE  InHand'
<1> USE DEF IInv, Copy
<1> DEFINE r == sync[g]
           p == SyncPage(r.current, r.requested)
           start == IF p.reset THEN 0 ELSE r.current
<1>1. /\ r.pc = "fetch" /\ sync'[g].pc = "page" /\ sync'[g].page = p
      /\ sync'[g].current = r.current /\ sync'[g].resetApplied = r.resetApplied
      /\ UNCHANGED Aside /\ UNCHANGED cache
  BY ServeFacts
<1>2. r.current \in 0..MaxSeq /\ r.requested \in 0..MaxStream /\ r.current \in Nat
  BY RunFields DEF Run
<1>3. /\ p.stream = stream /\ p.cursor \in Nat /\ p.cursor <= latest
      /\ start <= p.cursor
      /\ ~p.more => p.cursor = latest
      /\ p.reset => r.requested # stream \/ r.current > latest
      /\ ~p.reset => r.current <= latest /\ (r.requested = stream \/ r.current = 0)
      /\ \A e \in p.events : e.stream = stream /\ e.seq <= p.cursor
      /\ \A m \in (start + 1)..p.cursor : m \in Hidden \/ At(m) \in p.events
  BY <1>2, PageFields
<1>4. r.requested = stream => Held(r.current)
  BY <1>1 DEF Fetching
<1>5. ~p.reset => Held(r.current)
  BY <1>2, <1>3, <1>4 DEF Held
<1>6. p.reset /\ phase = "opening" => ~r.resetApplied
  <2>1. r.requested = stream => r.current <= latest
    BY <1>4 DEF Held
  <2>2. r.resetApplied /\ phase = "opening" => r.requested = stream
    BY <1>1 DEF Fetching
  <2>3. latest \in Nat
    BY Numbers
  <2> QED
    BY <1>2, <1>3, <2>1, <2>2, <2>3
<1>7. ~p.more => \A m \in (p.cursor + 1)..Published : Coming(m)
  BY <1>3, LogNumbers, Numbers
<1>8. Start(sync[g])' = start
  BY <1>1 DEF Start
<1>9. /\ stream' = stream /\ latest' = latest /\ phase' = phase /\ wsGeneration' = g
      /\ wire' = wire /\ buffered' = buffered /\ publishQueue' = publishQueue
      /\ cache' = cache
  BY <1>1 DEF Aside
<1> HIDE DEF p, start
<1>10. Fetching' /\ Applying' /\ Storing'
  BY <1>1, <1>9 DEF Fetching, Applying, Storing
<1>11. Paged'
  <2> SUFFICES ASSUME NEW h \in Generation, h = g
               PROVE  /\ p.reset /\ phase = "opening" => ~r.resetApplied
                      /\ phase = "opening" => p.stream = stream
                      /\ p.stream = stream =>
                           /\ start <= p.cursor /\ p.cursor <= latest
                           /\ ~p.reset => Held(r.current)
                           /\ \A e \in p.events : e.seq <= p.cursor
                           /\ \A m \in (start + 1)..p.cursor :
                                m \in Hidden \/ At(m) \in p.events
                           /\ ~p.more /\ phase = "opening" =>
                                \A m \in (p.cursor + 1)..Published : Coming(m)
    BY <1>1, <1>8, <1>9
       DEF Paged, Start, start, Held, Has, At, Final, Coming, Published
  <2> QED
    BY <1>3, <1>5, <1>6, <1>7
<1> QED
  BY <1>10, <1>11 DEF InHand

(* The last task of a run is over when its page is applied.                *)
LEMMA AppliedFacts ==
  ASSUME IInv, Copy, NEW g \in Generation, g = wsGeneration, PageApplied(g),
         sync[g].page.stream = stream
  PROVE  Held(Advanced(g)) /\ Advanced(g) = sync[g].page.cursor /\ Final(sync[g].page)
<1> USE DEF IInv, Copy
<1>1. sync[g].pc = "apply" /\ sync[g].page.events = {} /\ ~Awaited(g, "sync")
  BY DEF PageApplied
<1>2. \A i \in DOMAIN projectQueue : projectQueue[i].gen # g
  BY <1>1, NoneAwaited
<1>3. \A m : ~QueuedBy(At(m), projectQueue, wsGeneration)
  BY <1>2 DEF QueuedBy
<1>4. sync[g].current \in Nat /\ sync[g].page.cursor \in Nat
  BY RunFields
<1>5. /\ sync[g].current <= sync[g].page.cursor /\ sync[g].page.cursor <= latest
      /\ \A m \in 1..sync[g].page.cursor : Has(m)
      /\ Final(sync[g].page)
  BY <1>1, <1>3 DEF Applying
<1>6. Advanced(g) = sync[g].page.cursor
  BY <1>4, <1>5 DEF Advanced
<1> QED
  BY <1>5, <1>6 DEF Held

LEMMA MoveInHand ==
  ASSUME IInv, IInv', Copy, OneFailure', Next, NEW g \in Generation, Moves(g)
  PROVE  InHand'
<1> USE DEF IInv, Copy
<1>1. Active(g) /\ Others(g) /\ UNCHANGED Aside
  BY MoveFacts
<1>2. CASE g # wsGeneration
  <2>1. ASSUME NEW h \in Generation, h = wsGeneration
        PROVE  sync'[h].pc \notin {"fetch", "page", "apply", "stream"}
    BY <1>1, <1>2, <2>1 DEF InFlightIsActive, Active, Others
  <2> QED
    BY <1>1, <2>1, NothingInHand DEF Aside
<1>3. CASE g = wsGeneration
  <2>1. /\ stream' = stream /\ latest' = latest /\ phase' = phase /\ wsGeneration' = g
        /\ wire' = wire /\ buffered' = buffered /\ publishQueue' = publishQueue
    BY <1>1, <1>3 DEF Aside
  <2>2. CASE BeginSync(g)
    <3>1. /\ sync[g].pc = "begin" /\ sync'[g].pc = "fetch" /\ sync'[g].current = cursor
          /\ sync'[g].requested = streamId /\ cache' = cache
          /\ sync'[g].resetApplied = sync[g].resetApplied
      BY <2>2, BeginFacts
    <3>2. ~sync[g].resetApplied
      BY <3>1 DEF Runs
    <3>3. ASSUME streamId = stream PROVE Held(cursor)
      <4>1. NotBegun
        BY <1>3, <3>1 DEF NotBegun
      <4>2. stream \in {1, 2}
        BY FewDrops
      <4> QED
        BY <3>3, <4>1, <4>2 DEF CursorTask, SecondStart
    <3>4. Fetching'
      BY <2>1, <3>1, <3>2, <3>3 DEF Fetching, Held, Has, At
    <3> QED
      BY <2>1, <3>1, <3>4 DEF InHand, Paged, Applying, Storing
  <2>3. CASE ServeSync(g)
    BY <1>3, <2>3, ServeInHand
  <2>4. CASE TakePage(g)
    <3> DEFINE p == sync[g].page
    <3>1. /\ sync[g].pc = "page" /\ sync'[g].pc = "apply" /\ sync'[g].page = p
          /\ sync'[g].current = Start(sync[g])
          /\ ~p.reset => cache' = cache
      BY <1>3, <2>4, TakeFacts
    <3>2. /\ p.cursor \in Nat /\ sync[g].current \in Nat /\ p.reset \in BOOLEAN
      BY RunFields
    <3>3. /\ phase = "opening" => p.stream = stream
          /\ p.stream = stream =>
               /\ Start(sync[g]) <= p.cursor /\ p.cursor <= latest
               /\ ~p.reset => Held(sync[g].current)
               /\ \A e \in p.events : e.seq <= p.cursor
               /\ \A m \in (Start(sync[g]) + 1)..p.cursor :
                    m \in Hidden \/ At(m) \in p.events
               /\ Final(p)
      BY <1>3, <3>1 DEF Paged
    <3>4. ASSUME p.stream = stream, NEW m \in 1..p.cursor
          PROVE  Has(m)' \/ At(m) \in p.events
      <4>1. CASE p.reset
        <5>1. m \in (Start(sync[g]) + 1)..p.cursor
          BY <3>2, <4>1 DEF Start
        <5> QED
          BY <3>3, <3>4, <5>1 DEF Has
      <4>2. CASE ~p.reset
        <5>1. Start(sync[g]) = sync[g].current
          BY <4>2 DEF Start
        <5>2. m \in 1..sync[g].current \/ m \in (Start(sync[g]) + 1)..p.cursor
          BY <3>2, <5>1
        <5>3. m \in 1..sync[g].current => Has(m)'
          BY <2>1, <3>1, <3>3, <3>4, <4>2 DEF Held, Has, At
        <5> QED
          BY <3>3, <3>4, <5>2, <5>3 DEF Has
      <4> QED
        BY <4>1, <4>2
    <3>5. Applying'
      <4> SUFFICES ASSUME NEW h \in Generation, h = g
                   PROVE  /\ phase = "opening" => p.stream = stream
                          /\ p.stream = stream =>
                               /\ Start(sync[g]) <= p.cursor /\ p.cursor <= latest
                               /\ \A e \in p.events : e.seq <= p.cursor
                               /\ \A m \in 1..p.cursor : Has(m)' \/ At(m) \in p.events
                               /\ Final(p)
        <5> HIDE DEF p
        <5> QED
          BY <2>1, <3>1 DEF Applying, At, Final, Coming, Published
      <4> QED
        BY <3>3, <3>4
    <3> QED
      BY <2>1, <3>1, <3>5 DEF InHand, Fetching, Paged, Storing
  <2>5. CASE ApplyEvent(g)
    <3> DEFINE p == sync[g].page
    <3>1. /\ sync[g].pc = "apply" /\ sync'[g].pc = "apply"
          /\ sync'[g].current = sync[g].current
          /\ sync'[g].page.stream = p.stream /\ sync'[g].page.cursor = p.cursor
          /\ sync'[g].page.more = p.more /\ cache' = cache
      BY <2>5, ApplyFacts
    <3>2. PICK e \in p.events :
            /\ sync'[g].page.events = p.events \ {e}
            /\ projectQueue' =
                 Append(projectQueue, [event |-> e, gen |-> g, of |-> "sync"])
      BY <1>3, <2>5, ApplyFacts
    <3>3. e \in Event
      BY RunFields
    <3>4. /\ \A f : QueuedBy(f, projectQueue, g) => QueuedBy(f, projectQueue', g)
          /\ QueuedBy(e, projectQueue', g)
      <4>1. \A f, h : QueuedBy(f, projectQueue, h) => QueuedBy(f, projectQueue', h)
        BY <3>2, <3>3, EnqueueItems
      <4>2. QueuedBy(e, projectQueue', g)
        BY <3>2, <3>3, EnqueueItems
      <4> QED
        BY <4>1, <4>2
    <3>5. /\ phase = "opening" => p.stream = stream
          /\ p.stream = stream =>
               /\ sync[g].current <= p.cursor /\ p.cursor <= latest
               /\ \A f \in p.events : f.seq <= p.cursor
               /\ \A m \in 1..p.cursor :
                    Has(m) \/ At(m) \in p.events \/ QueuedBy(At(m), projectQueue, g)
               /\ Final(p)
      BY <1>3, <3>1 DEF Applying
    <3>6. Applying'
      <4> SUFFICES ASSUME NEW h \in Generation, h = g
                   PROVE  /\ phase = "opening" => p.stream = stream
                          /\ p.stream = stream =>
                               /\ sync[g].current <= p.cursor /\ p.cursor <= latest
                               /\ \A f \in p.events \ {e} : f.seq <= p.cursor
                               /\ \A m \in 1..p.cursor :
                                    \/ Has(m) \/ At(m) \in p.events \ {e}
                                    \/ QueuedBy(At(m), projectQueue', g)
                               /\ Final(p)
        <5> HIDE DEF p
        <5> QED
          BY <2>1, <3>1, <3>2 DEF Applying, At, Has, Final, Coming, Published
      <4>1. ASSUME p.stream = stream, NEW m \in 1..p.cursor
            PROVE  \/ Has(m) \/ At(m) \in p.events \ {e}
                   \/ QueuedBy(At(m), projectQueue', g)
        <5>1. CASE At(m) = e
          BY <3>4, <5>1
        <5>2. CASE At(m) # e
          BY <3>4, <3>5, <4>1, <5>2
        <5> QED
          BY <5>1, <5>2
      <4> QED
        BY <3>5, <4>1
    <3> QED
      BY <2>1, <3>1, <3>6 DEF InHand, Fetching, Paged, Storing
  <2>6. CASE NextPage(g)
    <3>1. /\ PageApplied(g) /\ sync'[g].pc = "fetch" /\ sync'[g].current = Advanced(g)
          /\ sync'[g].requested = sync[g].requested /\ cache' = cache
      BY <2>6, NextFacts
    <3>2. sync[g].pc = "apply" /\ sync[g].requested = sync[g].page.stream
      BY <3>1 DEF PageApplied, Known
    <3>3. sync[g].page.stream = stream => Held(Advanced(g))
      BY <1>3, <3>1, AppliedFacts
    <3>4. phase = "opening" => sync[g].page.stream = stream
      BY <1>3, <3>2 DEF Applying
    <3>5. Fetching'
      BY <2>1, <3>1, <3>2, <3>3, <3>4 DEF Fetching, Held, Has, At
    <3> QED
      BY <2>1, <3>1, <3>5 DEF InHand, Paged, Applying, Storing
  <2>7. CASE StoreCursor(g)
    <3>1. /\ PageApplied(g) /\ sync'[g].pc = "stream" /\ sync'[g].page = sync[g].page
          /\ cache' = cache /\ ~sync[g].page.more
      BY <2>7, StoreFacts
    <3>2. sync[g].pc = "apply"
      BY <3>1 DEF PageApplied
    <3>3. sync[g].page.stream = stream => Held(sync[g].page.cursor) /\ Final(sync[g].page)
      BY <1>3, <3>1, AppliedFacts
    <3>4. phase = "opening" => sync[g].page.stream = stream
      BY <1>3, <3>2 DEF Applying
    <3>5. Storing'
      BY <2>1, <3>1, <3>3, <3>4 DEF Storing, Held, Has, At, Final, Coming, Published
    <3> QED
      BY <2>1, <3>1, <3>5 DEF InHand, Fetching, Paged, Applying
  <2> QED
    BY <2>2, <2>3, <2>4, <2>5, <2>6, <2>7 DEF Moves
<1> QED
  BY <1>2, <1>3

LEMMA InHandKept ==
  ASSUME IInv, IInv', Copy, OneFailure', Next
  PROVE  InHand'
<1> USE DEF IInv, Copy
<1>1. CASE Carries
  BY <1>1, CarryFacts, InHandFrame DEF Connected
<1>2. CASE Reopen \/ Replace
  <2>1. UNCHANGED sync /\ wsGeneration' = wsGeneration + 1
    BY <1>2 DEF Reopen, Replace, OpenSocket, syncVars
  <2>2. \A g \in Generation : g = wsGeneration + 1 => sync[g].pc = "none"
    BY Numbers DEF Runs
  <2> QED
    BY <2>1, <2>2, NothingInHand
<1>3. CASE Accept
  <2>1. UNCHANGED <<sync, wsGeneration>> /\ phase = "connecting"
    BY <1>3 DEF Accept, syncVars
  <2>2. \A g \in Generation : g = wsGeneration => sync[g].pc = "none"
    BY <2>1 DEF Runs
  <2> QED
    BY <2>1, <2>2, NothingInHand
<1>4. CASE Opened
  <2>1. wsGeneration \in Generation /\ UNCHANGED wsGeneration
    BY <1>4, Numbers DEF Opened, TypeOK
  <2>2. sync'[wsGeneration].pc \in {"begin", "wait"}
    BY <1>4, <2>1 DEF Opened, EnterSync, TypeOK, Run
  <2> QED
    BY <2>1, <2>2, NothingInHand
<1>5. CASE LoseSocket
  <2>1. /\ UNCHANGED <<stream, wsGeneration, sync, latest, cache, projectQueue>>
        /\ phase' = "closed"
    BY <1>5 DEF LoseSocket, serverVars, dbVars, taskVars, syncVars
  <2>2. \A m \in Nat : Waits(m) => Waits(m)'
    BY <2>1 DEF Waits, At
  <2> QED
    BY <2>1, <2>2, Numbers, InHandFrame
<1>6. CASE Reload
  BY <1>6, NothingInHand DEF Reload, NoRun
<1>7. ASSUME NEW s \in 1..MaxStream, RestartBridge(s) PROVE InHand'
  <2>1. /\ UNCHANGED <<wsGeneration, sync, cache, projectQueue>>
        /\ phase' \in {phase, "closed"} /\ phase' # "opening"
    BY <1>7 DEF RestartBridge, dbVars, taskVars, syncVars
  <2>2. CASE stream' = stream
    <3>1. latest' = latest
      BY <1>7, <2>2 DEF RestartBridge
    <3>2. \A m \in Nat : Waits(m) => Waits(m)'
      BY <2>1, <2>2 DEF Waits, At
    <3> QED
      BY <2>1, <2>2, <3>1, <3>2, Numbers, InHandFrame
  <2>3. CASE stream' # stream
    <3>1. stream' > stream /\ stream' \in Nat /\ stream \in Nat
      BY <1>7, <2>3, Numbers DEF RestartBridge
    <3>2. \A g \in Generation :
            /\ sync[g].requested <= stream /\ sync[g].page.stream <= stream
            /\ sync[g].requested \in Nat /\ sync[g].page.stream \in Nat
      BY RunFields DEF Known
    <3>3. \A g \in Generation : sync[g].requested # stream' /\ sync[g].page.stream # stream'
      BY <3>1, <3>2
    <3> QED
      BY <2>1, <3>3 DEF InHand, Fetching, Paged, Applying, Storing
  <2> QED
    BY <2>2, <2>3
<1>8. ASSUME NEW g \in Generation, Moves(g) PROVE InHand'
  BY <1>8, MoveInHand
<1>9. ASSUME NEW g \in Generation, Ends(g) PROVE InHand'
  <2>1. PICK ok \in BOOLEAN : Settled(g, ok)
    BY <1>9, EndFacts
  <2>2. wsGeneration' = wsGeneration
    BY <1>9, EndFacts DEF EndsAside
  <2>3. ASSUME NEW h \in Generation, h = wsGeneration
        PROVE  sync'[h].pc \notin {"fetch", "page", "apply", "stream"}
    BY <2>1, <2>3 DEF Settled, InFlightIsActive, Active, NoRun
  <2> QED
    BY <2>2, <2>3, NothingInHand
<1> QED
  BY <1>1, <1>2, <1>3, <1>4, <1>5, <1>6, <1>7, <1>8, <1>9, StepCases DEF Carries

-----------------------------------------------------------------------------
(* What is written to the cursor.                                          *)

(* A page that resets before a stream id is stored finds no task.          *)
LEMMA ResetFindsNoTask ==
  ASSUME IInv, Copy, NEW g \in Generation, sync[g].pc = "page", stream = 1, streamId = 0
  PROVE  projectQueue = <<>> /\ projecting = "idle"
<1> USE DEF IInv, Copy
<1>1. ASSUME NEW i \in DOMAIN projectQueue PROVE FALSE
  <2>1. /\ sync[projectQueue[i].gen].pc \in {"apply", "none"}
        /\ sync[projectQueue[i].gen].pc = "none" => projectQueue[i].of = "live"
        /\ projectQueue[i].gen \in Generation
    BY TaskGenerations
  <2>2. sync[projectQueue[i].gen].pc # "apply"
    BY <2>1 DEF InFlightIsActive, Active
  <2>3. projectQueue[i].of = "live"
    BY <2>1, <2>2
  <2> QED
    BY <2>3 DEF FirstReset
<1>2. projectQueue = <<>>
  <2>1. projectQueue # <<>> => 1 \in DOMAIN projectQueue
    BY TailItems DEF TypeOK
  <2> QED
    BY <1>1, <2>1
<1> QED
  BY <1>2 DEF TypeOK

LEMMA CursorTaskFrame ==
  ASSUME IInv, IInv', Copy, UNCHANGED <<stream, cursor, projecting, readCursor>>,
         latest' >= latest, cache \subseteq cache',
         projecting # "idle" => projectQueue'[1] = projectQueue[1]
  PROVE  CursorTask'
<1> USE DEF IInv, Copy
<1>1. \A c \in Nat : Held(c) => c <= latest' /\ \A m \in 1..c : Has(m)'
  BY HeldGrows
<1>2. cursor \in Nat /\ readCursor \in Nat
  BY Numbers
<1>3. projecting # "idle" => projectQueue[1].event.seq \in Nat
  <2>1. projecting # "idle" => 1 \in DOMAIN projectQueue
    BY TailItems DEF TypeOK
  <2> QED
    BY <2>1, Items, EventFields
<1> QED
  BY <1>1, <1>2, <1>3 DEF CursorTask, Held

LEMMA CursorTaskKept ==
  ASSUME IInv, IInv', Copy, OneFailure', Next
  PROVE  CursorTask'
<1> USE DEF IInv, Copy
<1>1. latest \in Nat /\ stream \in Nat /\ stream >= 1
  BY Numbers
<1>2. CASE Record \/ Publish
  BY <1>1, <1>2, CursorTaskFrame DEF Record, Publish, dbVars, taskVars
<1>3. CASE Reopen \/ Replace \/ Accept \/ Opened \/ LoseSocket
  BY <1>1, <1>3, CursorTaskFrame
     DEF Reopen, Replace, OpenSocket, Accept, Opened, LoseSocket, serverVars, dbVars,
         taskVars
<1>4. CASE Receive \/ DrainBuffered
  <2>1. /\ UNCHANGED <<stream, latest, cursor, cache, projecting, readCursor>>
        /\ projectQueue # <<>> => projectQueue'[1] = projectQueue[1]
    BY <1>4, ReceiveFacts, DrainFacts, EnqueueItems
  <2>2. projecting # "idle" => projectQueue # <<>>
    BY DEF TypeOK
  <2> QED
    BY <1>1, <2>1, <2>2, CursorTaskFrame
<1>5. CASE Project
  <2> DEFINE k == Head(projectQueue)
  <2>1. /\ k = projectQueue[1] /\ 1 \in DOMAIN projectQueue /\ k \in Task
        /\ projecting = "idle"
        /\ UNCHANGED <<stream, latest, cursor, readCursor>>
    BY <1>5, ProjectFacts
  <2>2. CASE k.gen # wsGeneration
    <3>1. UNCHANGED <<projecting, cache>>
      BY <1>5, <2>2, ProjectFacts
    <3> QED
      BY <1>1, <2>1, <3>1, CursorTaskFrame
  <2>3. CASE k.gen = wsGeneration
    <3>1. /\ projecting' = "put" /\ UNCHANGED projectQueue
          /\ cache' = cache \cup {k.event}
      BY <1>5, <2>3, ProjectFacts
    <3> SUFFICES ASSUME stream = 1
                 PROVE  Held(cursor)' /\ Held(projectQueue[1].event.seq)'
      BY <2>1, <3>1 DEF CursorTask
    <3>2. Held(cursor)'
      BY <2>1, <3>1 DEF CursorTask, Held, Has, At
    <3>3. /\ k.event \in Event /\ k.event.stream = stream /\ k.event.seq \in Nat
          /\ k.event = At(k.event.seq)
      <4>1. k.event \in Event
        BY <2>1, TaskFields
      <4>2. k.event.stream <= stream
        BY <2>1 DEF Known
      <4> QED
        BY <4>1, <4>2, EventFields DEF At
    <3>4. /\ k.event.seq <= latest
          /\ \A m \in 1..(k.event.seq - 1) : Has(m)
      BY <2>1, <2>3, <3>3 DEF Leads
    <3>5. \A m \in 1..k.event.seq : m \in 1..(k.event.seq - 1) \/ m = k.event.seq
      BY <3>3
    <3>6. projectQueue'[1] = k
      BY <2>1, <3>1
    <3> HIDE DEF k
    <3> QED
      BY <2>1, <3>1, <3>2, <3>3, <3>4, <3>5, <3>6 DEF Held, Has, At
  <2> QED
    BY <2>2, <2>3
<1>6. CASE ProjectRead
  BY <1>6 DEF ProjectRead, CursorTask, Held, Has, At, serverVars, dbVars
<1>7. CASE ProjectWrite
  <2>1. /\ projecting = "read" /\ projecting' = "idle"
        /\ Head(projectQueue) = projectQueue[1]
        /\ cursor' \in {Head(projectQueue).event.seq, readCursor}
        /\ UNCHANGED <<stream, latest, cache>>
    BY <1>7, WriteFacts
  <2> QED
    BY <2>1 DEF CursorTask, Held, Has, At
<1>8. CASE Reload
  BY <1>8 DEF Reload, CursorTask, Held, Has, At, serverVars, dbVars
<1>9. ASSUME NEW s \in 1..MaxStream, RestartBridge(s) PROVE CursorTask'
  <2>1. CASE stream' = stream
    BY <1>1, <1>9, <2>1, CursorTaskFrame DEF RestartBridge, dbVars, taskVars
  <2>2. CASE stream' # stream
    <3>1. stream' # 1
      BY <1>1, <1>9, <2>2 DEF RestartBridge
    <3> QED
      BY <3>1 DEF CursorTask
  <2> QED
    BY <2>1, <2>2
<1>10. ASSUME NEW g \in Generation, Moves(g) PROVE CursorTask'
  <2>1. Active(g) /\ Others(g) /\ UNCHANGED Aside
    BY <1>10, MoveFacts
  <2>2. CASE UNCHANGED <<cursor, cache>>
    <3>1. projectQueue # <<>> => projectQueue'[1] = projectQueue[1]
      <4>1. CASE ApplyEvent(g) /\ g = wsGeneration
        <5>1. PICK e \in sync[g].page.events :
                projectQueue' = Append(projectQueue, [event |-> e, gen |-> g, of |-> "sync"])
          BY <4>1, ApplyFacts
        <5>2. e \in Event
          BY RunFields
        <5> QED
          BY <5>1, <5>2, EnqueueItems
      <4> QED
        BY <1>10, <4>1, MoveFacts, ApplyFacts
    <3>2. projecting # "idle" => projectQueue # <<>>
      BY DEF TypeOK
    <3> QED
      BY <1>1, <2>1, <2>2, <3>1, <3>2, CursorTaskFrame DEF Aside
  <2>3. CASE TakePage(g) /\ sync[g].page.reset /\ g = wsGeneration
    <3>1. sync[g].pc = "page" /\ cursor' = 0
      BY <2>3, TakeFacts
    <3>2. stream = 1 => streamId = 0
      BY <2>3, <3>1 DEF FirstReset
    <3>3. stream = 1 => projecting = "idle"
      BY <3>1, <3>2, ResetFindsNoTask
    <3> QED
      BY <1>1, <2>1, <3>1, <3>3 DEF CursorTask, Held, Aside
  <2>4. CASE StoreCursor(g)
    <3>1. /\ PageApplied(g) /\ g = wsGeneration /\ cursor' = Advanced(g)
          /\ UNCHANGED <<cache, projectQueue>>
      BY <2>4, StoreFacts
    <3>2. stream = 1 => Held(Advanced(g))
      <4>1. sync[g].page.stream <= stream /\ sync[g].page.stream >= 1
            /\ sync[g].page.stream \in Nat
        BY RunFields DEF Known
      <4> QED
        BY <3>1, <4>1, AppliedFacts
    <3> QED
      BY <2>1, <3>1, <3>2 DEF CursorTask, Held, Has, At, Aside
  <2> QED
    BY <1>10, <2>2, <2>3, <2>4, MoveFacts, TakeFacts, StoreFacts
<1>11. ASSUME NEW g \in Generation, Ends(g) PROVE CursorTask'
  <2>1. UNCHANGED <<stream, latest, cursor, cache, projectQueue, projecting, readCursor>>
    BY <1>11, EndFacts DEF EndsAside
  <2> QED
    BY <1>1, <2>1, CursorTaskFrame
<1> QED
  BY <1>2, <1>3, <1>4, <1>5, <1>6, <1>7, <1>8, <1>9, <1>10, <1>11, StepCases

LEMMA FirstResetFrame ==
  ASSUME IInv, IInv', Copy, UNCHANGED <<stream, streamId, wsGeneration, sync>>,
         latest' >= latest,
         phase' \in {"draining", "live"} => phase \in {"draining", "live"},
         \A i \in DOMAIN projectQueue' :
           \/ \E j \in DOMAIN projectQueue : projectQueue'[i] = projectQueue[j]
           \/ phase \in {"draining", "live"}
  PROVE  FirstReset'
<1> USE DEF IInv, Copy
<1>1. latest \in Nat /\ latest' \in Nat
  BY Numbers, ConstantTypes DEF TypeOK
<1>2. \A g \in Generation : sync[g].current \in Nat
  BY RunFields
<1> QED
  BY <1>1, <1>2 DEF FirstReset

LEMMA FirstResetKept ==
  ASSUME IInv, IInv', Copy, OneFailure', Next
  PROVE  FirstReset'
<1> USE DEF IInv, Copy
<1>1. latest \in Nat /\ stream \in Nat /\ stream >= 1
  BY Numbers
<1>2. CASE Carries
  <2>1. /\ UNCHANGED <<stream, streamId, wsGeneration, sync>> /\ latest' >= latest
        /\ phase' \in {"draining", "live"} => phase \in {"draining", "live"}
    BY <1>2, CarryFacts
  <2>2. \A i \in DOMAIN projectQueue' :
          \/ \E j \in DOMAIN projectQueue : projectQueue'[i] = projectQueue[j]
          \/ phase \in {"draining", "live"}
    <3>1. CASE UNCHANGED projectQueue
      BY <3>1
    <3>2. CASE Record \/ Publish \/ ProjectRead
      BY <3>1, <3>2 DEF Record, Publish, ProjectRead, taskVars
    <3>3. CASE Receive \/ DrainBuffered
      BY <3>1, <3>3, ReceiveFacts, DrainFacts
    <3>4. CASE Project \/ ProjectWrite
      BY <3>4, ProjectFacts, WriteFacts
    <3> QED
      BY <1>2, <3>2, <3>3, <3>4 DEF Carries
  <2> QED
    BY <2>1, <2>2, FirstResetFrame
<1>3. CASE Reopen \/ Replace
  <2>1. /\ UNCHANGED <<stream, streamId, latest, sync, projectQueue>>
        /\ wsGeneration' = wsGeneration + 1 /\ phase' = "connecting"
    BY <1>3 DEF Reopen, Replace, OpenSocket, serverVars, dbVars, taskVars, syncVars
  <2>2. \A g \in Generation : g = wsGeneration + 1 => sync[g].pc = "none"
    BY Numbers DEF Runs
  <2> QED
    BY <2>1, <2>2 DEF FirstReset
<1>4. CASE Accept \/ LoseSocket
  BY <1>1, <1>4, FirstResetFrame
     DEF Accept, LoseSocket, serverVars, dbVars, taskVars, syncVars
<1>5. CASE Opened
  <2>1. /\ wsGeneration \in Generation /\ phase' = "opening"
        /\ UNCHANGED <<stream, streamId, latest, projectQueue, wsGeneration>>
    BY <1>5, Numbers DEF Opened, TypeOK, serverVars, dbVars, taskVars
  <2>2. \A g \in Generation :
          sync'[g] = sync[g] \/ sync'[g].pc \in {"begin", "wait"}
    BY <1>5, <2>1 DEF Opened, EnterSync, TypeOK, Run
  <2> QED
    BY <2>1, <2>2 DEF FirstReset
<1>6. CASE Reload
  <2>1. /\ phase' = "none" /\ DOMAIN projectQueue' = {}
        /\ \A g \in Generation : sync'[g].pc = "none"
    BY <1>6 DEF Reload, NoRun
  <2> QED
    BY <2>1 DEF FirstReset
<1>7. ASSUME NEW s \in 1..MaxStream, RestartBridge(s) PROVE FirstReset'
  <2>1. CASE stream' = stream
    BY <1>1, <1>7, <2>1, FirstResetFrame DEF RestartBridge, dbVars, taskVars, syncVars
  <2>2. CASE stream' # stream
    <3>1. stream' # 1
      BY <1>1, <1>7, <2>2 DEF RestartBridge
    <3> QED
      BY <3>1 DEF FirstReset
  <2> QED
    BY <2>1, <2>2
<1>8. ASSUME NEW g \in Generation, Moves(g) PROVE FirstReset'
  <2>1. /\ Active(g) /\ Others(g)
        /\ UNCHANGED <<stream, latest, wsGeneration, phase>>
    BY <1>8, MoveFacts DEF Aside
  <2> SUFFICES ASSUME stream = 1 PROVE FirstReset'
    BY <2>1 DEF FirstReset
  <2>2. CASE TakePage(g)
    <3>1. /\ sync[g].pc = "page" /\ sync'[g].pc = "apply" /\ UNCHANGED projectQueue
          /\ streamId' = streamId \/ (sync[g].page.reset /\ g = wsGeneration /\ streamId' = 0)
      BY <2>2, TakeFacts
    <3>2. streamId' = streamId
      BY <3>1 DEF FirstReset
    <3> QED
      BY <2>1, <3>1, <3>2 DEF FirstReset, Others
  <2>3. CASE BeginSync(g)
    <3>1. /\ sync'[g].pc = "fetch" /\ sync'[g].current = cursor
          /\ sync'[g].requested = streamId /\ UNCHANGED <<streamId, projectQueue>>
      BY <2>3, BeginFacts
    <3>2. cursor <= latest
      BY DEF CursorTask, Held
    <3> QED
      BY <2>1, <3>1, <3>2 DEF FirstReset, Others
  <2>4. CASE ServeSync(g)
    <3> DEFINE p == SyncPage(sync[g].current, sync[g].requested)
    <3>1. /\ sync[g].pc = "fetch" /\ sync'[g].pc = "page" /\ sync'[g].page = p
          /\ sync'[g].requested = sync[g].requested /\ UNCHANGED <<streamId, projectQueue>>
      BY <2>4, ServeFacts
    <3>2. sync[g].current \in 0..MaxSeq /\ sync[g].requested \in 0..MaxStream
          /\ sync[g].current \in Nat /\ sync[g].requested \in Nat
      BY RunFields DEF Run
    <3>3. p.reset => sync[g].requested # stream \/ sync[g].current > latest
      BY <3>2, PageFields
    <3>4. g = wsGeneration => sync[g].current <= latest
      BY <3>1 DEF FirstReset
    <3>5. sync[g].requested <= stream
      BY DEF Known
    <3>6. sync[g].requested = 0 => streamId = 0
      BY <3>1 DEF FirstReset
    <3> HIDE DEF p
    <3>7. g = wsGeneration /\ p.reset => streamId = 0
      BY <1>1, <3>2, <3>3, <3>4, <3>5, <3>6
    <3> QED
      BY <2>1, <3>1, <3>6, <3>7 DEF FirstReset, Others
  <2>5. CASE NextPage(g)
    <3>1. /\ PageApplied(g) /\ sync'[g].pc = "fetch" /\ sync'[g].current = Advanced(g)
          /\ sync'[g].requested = sync[g].requested /\ UNCHANGED <<streamId, projectQueue>>
      BY <2>5, NextFacts
    <3>2. sync[g].page.stream = 1 /\ sync[g].requested = 1
      <4>1. sync[g].page.stream <= stream /\ sync[g].page.stream >= 1
            /\ sync[g].page.stream \in Nat /\ sync[g].requested = sync[g].page.stream
        BY <3>1, RunFields DEF Known, PageApplied
      <4> QED
        BY <4>1
    <3>3. g = wsGeneration => Advanced(g) <= latest
      BY <3>1, <3>2, AppliedFacts DEF Held
    <3> QED
      BY <2>1, <3>1, <3>2, <3>3 DEF FirstReset, Others
  <2>6. CASE StoreCursor(g)
    <3>1. sync'[g].pc = "stream" /\ UNCHANGED <<streamId, projectQueue>>
      BY <2>6, StoreFacts
    <3> QED
      BY <2>1, <3>1 DEF FirstReset, Others
  <2>7. CASE ApplyEvent(g)
    <3>1. /\ sync'[g].pc = "apply" /\ UNCHANGED streamId
      BY <2>7, ApplyFacts
    <3>2. PICK e \in sync[g].page.events :
            \/ UNCHANGED projectQueue
            \/ projectQueue' = Append(projectQueue, [event |-> e, gen |-> g, of |-> "sync"])
      BY <2>7, ApplyFacts
    <3>3. e \in Event
      BY RunFields
    <3>4. \A i \in DOMAIN projectQueue' :
            \/ \E j \in DOMAIN projectQueue : projectQueue'[i] = projectQueue[j]
            \/ projectQueue'[i].of = "sync"
      BY <3>2, <3>3, EnqueueItems
    <3> QED
      BY <2>1, <3>1, <3>4 DEF FirstReset, Others
  <2> QED
    BY <1>8, <2>2, <2>3, <2>4, <2>5, <2>6, <2>7 DEF Moves
<1>9. ASSUME NEW g \in Generation, Ends(g) PROVE FirstReset'
  <2>1. PICK ok \in BOOLEAN : Settled(g, ok)
    BY <1>9, EndFacts
  <2>2. UNCHANGED <<stream, latest, wsGeneration, projectQueue>>
    BY <1>9, EndFacts DEF EndsAside
  <2> SUFFICES ASSUME stream = 1 PROVE FirstReset'
    BY <2>2 DEF FirstReset
  <2>3. \A h \in Generation :
          /\ sync'[h].pc \in {"fetch", "page"} => sync'[h] = sync[h] /\ h # g
          /\ sync'[h].pc \notin {"fetch", "page"}
    BY <2>1 DEF Settled, InFlightIsActive, Active, NoRun
  <2>4. CASE sync[g].pc = "stream" /\ streamId' = sync[g].requested
    <3>1. sync[g].requested = sync[g].page.stream /\ sync[g].page.stream <= stream
          /\ sync[g].page.stream >= 1 /\ sync[g].page.stream \in Nat
      BY <2>4, RunFields DEF Known
    <3>2. streamId' = 1
      BY <2>4, <3>1
    <3> QED
      BY <2>2, <2>3, <3>2 DEF FirstReset
  <2>5. CASE sync[g].pc # "stream" /\ streamId' = streamId
    <3>1. phase' = phase \/ phase' = "closed"
      BY <1>9, <2>5, EndFacts DEF Settled
    <3> QED
      BY <2>2, <2>3, <2>5, <3>1 DEF FirstReset
  <2> QED
    BY <1>9, <2>4, <2>5, EndFacts
<1> QED
  BY <1>2, <1>3, <1>4, <1>5, <1>6, <1>7, <1>8, <1>9, StepCases DEF Carries

(* Nothing that carries an event reaches an empty projectQueue before the  *)
(* socket is synchronized.                                                 *)
LEMMA QueueStaysEmpty ==
  ASSUME IInv, IInv', Copy, Carries, projectQueue = <<>>, phase \notin {"draining", "live"}
  PROVE  projectQueue' = <<>> /\ UNCHANGED <<stream, cursor>>
<1> USE DEF IInv, Copy
<1>1. CASE Record \/ Publish \/ ProjectRead
  BY <1>1 DEF Record, Publish, ProjectRead, dbVars, taskVars, serverVars
<1>2. CASE Receive
  BY <1>2, ReceiveFacts
<1>3. CASE DrainBuffered
  BY <1>3, DrainFacts
<1>4. CASE Project \/ ProjectWrite
  BY <1>4, ProjectFacts, WriteFacts
<1> QED
  BY <1>1, <1>2, <1>3, <1>4 DEF Carries

LEMMA CursorHeldGrows ==
  ASSUME TypeOK, TypeOK', UNCHANGED <<stream, cursor>>, latest' >= latest,
         cache \subseteq cache', Held(cursor)
  PROVE  Held(cursor)'
<1>1. cursor \in Nat
  BY Numbers
<1>2. cursor <= latest' /\ \A m \in 1..cursor : Has(m)'
  BY <1>1, HeldGrows
<1> QED
  BY <1>2 DEF Held

LEMMA SecondStartKept ==
  ASSUME IInv, IInv', Copy, OneFailure', Next
  PROVE  SecondStart'
<1> USE DEF IInv, Copy
<1> SUFFICES ASSUME stream' = 2
             PROVE  /\ Active(1)' => streamId' # 2
                    /\ NotBegun' /\ streamId' = 2 => Held(cursor)' /\ projectQueue' = <<>>
  BY DEF SecondStart
<1>0. /\ drops \in {0, 1} /\ stream \in {1, 2} /\ latest \in Nat /\ 1 \in Generation
      /\ stream = 2 => drops = 1 /\ drops' = drops
  BY FewDrops, Numbers
<1>1. ASSUME NEW s \in 1..MaxStream, RestartBridge(s) PROVE streamId' # 2
  <2>1. stream = 1 /\ streamId' = streamId
    BY <1>0, <1>1 DEF RestartBridge, Drop, dbVars
  <2> QED
    BY <2>1, Numbers DEF Known
<1>2. CASE stream = 2
  <2>1. /\ Active(1) => streamId # 2
        /\ NotBegun /\ streamId = 2 => Held(cursor) /\ projectQueue = <<>>
    BY <1>2 DEF SecondStart
  <2>2. drops = 1 /\ drops' = 1
    BY <1>0, <1>2
  <2>3. CASE Carries
    <3>1. /\ UNCHANGED <<stream, wsGeneration, sync, streamId>> /\ latest' >= latest
          /\ phase' = phase \/ (phase = "draining" /\ phase' = "live")
          /\ cache \subseteq cache'
      BY <2>3, CarryFacts
    <3>2. Active(1)' => streamId' # 2
      BY <2>1, <3>1 DEF Active
    <3>3. ASSUME NotBegun', streamId' = 2
          PROVE  Held(cursor)' /\ projectQueue' = <<>>
      <4>1. NotBegun /\ phase \notin {"draining", "live"}
        BY <3>1, <3>3 DEF NotBegun, Runs
      <4>2. Held(cursor) /\ projectQueue = <<>>
        BY <2>1, <3>1, <3>3, <4>1
      <4>3. projectQueue' = <<>> /\ UNCHANGED <<stream, cursor>>
        BY <2>3, <4>1, <4>2, QueueStaysEmpty
      <4> QED
        BY <3>1, <4>2, <4>3, CursorHeldGrows
    <3> QED
      BY <3>2, <3>3
  <2>4. CASE Reopen \/ Accept \/ Opened
    <3>1. /\ UNCHANGED <<stream, latest, cursor, streamId, cache, projectQueue>>
          /\ NotBegun
      BY <2>4 DEF Reopen, OpenSocket, Accept, Opened, serverVars, dbVars, taskVars, NotBegun
    <3>2. Active(1)' => streamId' # 2
      <4>1. CASE Reopen \/ Accept
        BY <2>1, <3>1, <4>1 DEF Reopen, OpenSocket, Accept, syncVars, Active
      <4>2. CASE Opened /\ wsGeneration = 1
        <5>1. streamId = 0
          BY <4>2 DEF Opened, Sockets
        <5> QED
          BY <3>1, <5>1
      <4>3. CASE Opened /\ wsGeneration # 1
        <5>1. sync'[1] = sync[1]
          BY <1>0, <4>3 DEF Opened, EnterSync, TypeOK
        <5> QED
          BY <2>1, <3>1, <5>1 DEF Active
      <4> QED
        BY <2>4, <4>1, <4>2, <4>3
    <3>3. Held(cursor) => Held(cursor)'
      BY <3>1 DEF Held, Has, At
    <3> QED
      BY <2>1, <3>1, <3>2, <3>3
  <2>5. ~(Replace \/ LoseSocket \/ Reload)
    BY <2>2 DEF Replace, LoseSocket, Reload, Drop
  <2>6. ASSUME NEW s \in 1..MaxStream PROVE ~RestartBridge(s)
    BY <2>2 DEF RestartBridge, Drop
  <2>7. ASSUME NEW g \in Generation, Moves(g)
        PROVE  (Active(1)' => streamId' # 2) /\ ~(NotBegun' /\ streamId' = 2)
    <3>1. /\ Active(g) /\ Others(g) /\ UNCHANGED <<wsGeneration, phase>>
          /\ sync'[g].pc \in {"fetch", "page", "apply", "stream"}
          /\ streamId' \in {streamId, 0}
      BY <2>7, MoveFacts DEF Aside
    <3>2. Active(1)' => Active(1)
      BY <1>0, <3>1 DEF Others, Active
    <3>3. ASSUME NotBegun', streamId' = 2 PROVE FALSE
      <4>1. streamId = 2 /\ ~Active(1)
        BY <2>1, <3>1, <3>3
      <4>2. g # 1 /\ g <= wsGeneration /\ wsGeneration <= 2 /\ g \in Nat /\ g >= 1
            /\ wsGeneration \in Nat
        BY <2>2, <3>1, <4>1, Numbers DEF Runs, Active, Sockets
      <4>3. g = wsGeneration /\ wsGeneration = 2
        BY <4>2
      <4>4. phase = "opening"
        BY <2>2, <3>1, <4>3 DEF Runs, Active, Sockets
      <4> QED
        BY <3>1, <3>3, <4>3, <4>4 DEF NotBegun
    <3> QED
      BY <2>1, <3>1, <3>2, <3>3
  <2>8. ASSUME NEW g \in Generation, Ends(g)
        PROVE  /\ Active(1)' => streamId' # 2
               /\ NotBegun' /\ streamId' = 2 => Held(cursor)' /\ projectQueue' = <<>>
    <3>1. PICK ok \in BOOLEAN : Settled(g, ok)
      BY <2>8, EndFacts
    <3>2. UNCHANGED <<stream, latest, cursor, cache, wsGeneration, projectQueue>>
      BY <2>8, EndFacts DEF EndsAside
    <3>3. ~Active(1)'
      BY <1>0, <3>1 DEF Settled, Runs, InFlightIsActive, Active, NoRun
    <3>4. ASSUME NotBegun', streamId' = 2
          PROVE  Held(cursor)' /\ projectQueue' = <<>>
      <4>1. CASE g = 1
        <5>1. Active(1)
          BY <3>1, <4>1 DEF Settled
        <5>2. sync[1].pc = "stream" /\ sync[1].requested = stream
          BY <1>2, <2>1, <2>8, <3>4, <4>1, <5>1, EndFacts
        <5>3. sync[1].page.stream = stream
          BY <1>0, <5>2 DEF Known
        <5>4. projectQueue = <<>> /\ Held(cursor)
          BY <5>2, <5>3 DEF StreamStored
        <5> QED
          BY <3>2, <5>4 DEF Held, Has, At
      <4>2. CASE g # 1
        <5>1. g <= wsGeneration /\ wsGeneration <= 2 /\ g \in Nat /\ g >= 1
              /\ wsGeneration \in Nat
          BY <2>2, <3>1, Numbers DEF Settled, Runs, Active, Sockets
        <5>2. g = wsGeneration /\ wsGeneration = 2
          BY <4>2, <5>1
        <5>3. phase = "opening"
          BY <2>2, <3>1, <5>2 DEF Settled, Runs, Active, Sockets
        <5>4. phase' = "draining"
          BY <2>2, <2>8, <5>2, <5>3, EndFacts DEF Settled
        <5> QED
          BY <3>1, <3>2, <3>4, <5>2, <5>4 DEF NotBegun, Settled, NoRun
      <4> QED
        BY <4>1, <4>2
    <3> QED
      BY <3>3, <3>4
  <2> QED
    BY <2>3, <2>4, <2>5, <2>6, <2>7, <2>8, StepCases DEF Carries
<1>3. CASE stream # 2
  <2>1. stream = 1 /\ stream' # stream
    BY <1>0, <1>3
  <2>2. \E s \in 1..MaxStream : RestartBridge(s)
    <3>1. ~Carries
      BY <2>1, CarryFacts
    <3>2. ~(Reopen \/ Replace \/ Accept \/ Opened \/ LoseSocket \/ Reload)
      BY <2>1 DEF Reopen, Replace, OpenSocket, Accept, Opened, LoseSocket, Reload, serverVars
    <3>3. \A g \in Generation : ~Moves(g) /\ ~Ends(g)
      BY <2>1, MoveFacts, EndFacts DEF Aside, EndsAside
    <3> QED
      BY <3>1, <3>2, <3>3, StepCases DEF Carries
  <2> QED
    BY <1>1, <2>2
<1> QED
  BY <1>2, <1>3

LEMMA StreamStoredKept ==
  ASSUME IInv, IInv', Copy, OneFailure', Next
  PROVE  StreamStored'
<1> USE DEF IInv, Copy
<1> SUFFICES ASSUME sync'[1].pc = "stream"
             PROVE  /\ projectQueue' = <<>>
                    /\ sync'[1].page.stream = stream' => Held(cursor)'
  BY DEF StreamStored
<1>0. 1 \in Generation /\ latest \in Nat /\ stream \in Nat
  BY Numbers
<1>1. ASSUME sync[1].pc = "stream"
      PROVE  /\ projectQueue = <<>> /\ (sync[1].page.stream = stream => Held(cursor))
             /\ Active(1) /\ phase \notin {"draining", "live"}
             /\ \A g \in Generation : Active(g) => g = 1
  <2>1. Active(1)
    BY <1>1 DEF Active
  <2>2. \A g \in Generation : Active(g) => g = 1
    BY <1>0, <2>1 DEF InFlightIsActive
  <2>3. syncInFlight # 0
    BY <1>0, <2>1, Numbers DEF InFlightIsActive
  <2> QED
    BY <1>1, <2>1, <2>2, <2>3 DEF StreamStored, Runs
<1>2. CASE Carries
  <2>1. /\ UNCHANGED <<stream, sync>> /\ latest' >= latest /\ cache \subseteq cache'
    BY <1>2, CarryFacts
  <2>2. projectQueue' = <<>> /\ UNCHANGED cursor
    BY <1>1, <1>2, <2>1, QueueStaysEmpty
  <2> QED
    BY <1>1, <2>1, <2>2, CursorHeldGrows
<1>3. CASE Reopen \/ Replace \/ Accept \/ LoseSocket
  <2>1. UNCHANGED <<stream, latest, cursor, cache, projectQueue, sync>>
    BY <1>3 DEF Reopen, Replace, OpenSocket, Accept, LoseSocket, serverVars, dbVars,
                taskVars, syncVars
  <2> QED
    BY <1>1, <2>1 DEF Held, Has, At
<1>4. CASE Opened
  <2>1. UNCHANGED <<stream, latest, cursor, cache, projectQueue>>
    BY <1>4 DEF Opened, serverVars, dbVars, taskVars
  <2>2. sync'[1] = sync[1] \/ sync'[1].pc \in {"begin", "wait"}
    BY <1>0, <1>4 DEF Opened, EnterSync, TypeOK, Run
  <2> QED
    BY <1>1, <2>1, <2>2 DEF Held, Has, At
<1>5. ~Reload
  BY <1>0 DEF Reload, NoRun
<1>6. ASSUME NEW s \in 1..MaxStream, RestartBridge(s)
      PROVE  /\ projectQueue' = <<>>
             /\ sync'[1].page.stream = stream' => Held(cursor)'
  <2>1. /\ UNCHANGED <<cursor, cache, projectQueue, sync>>
        /\ stream' \in Nat /\ stream' >= stream
        /\ stream' = stream => latest' = latest
    BY <1>0, <1>6 DEF RestartBridge, dbVars, taskVars, syncVars
  <2>2. sync[1].page.stream <= stream /\ sync[1].page.stream \in Nat
    BY <1>0, RunFields DEF Known
  <2>3. CASE stream' = stream
    BY <1>1, <2>1, <2>3 DEF Held, Has, At
  <2>4. CASE stream' # stream
    <3>1. sync[1].page.stream # stream'
      BY <1>0, <2>1, <2>2, <2>4
    <3> QED
      BY <1>1, <2>1, <3>1
  <2> QED
    BY <2>3, <2>4
<1>7. ASSUME NEW g \in Generation, Moves(g)
      PROVE  /\ projectQueue' = <<>>
             /\ sync'[1].page.stream = stream' => Held(cursor)'
  <2>1. Active(g) /\ Others(g) /\ UNCHANGED <<stream, latest, wsGeneration, phase>>
    BY <1>7, MoveFacts DEF Aside
  <2>2. g = 1
    BY <1>0, <1>1, <2>1 DEF Others
  <2>3. StoreCursor(1)
    BY <1>7, <2>2, BeginFacts, ServeFacts, TakeFacts, ApplyFacts, NextFacts DEF Moves
  <2>4. /\ PageApplied(1) /\ wsGeneration = 1 /\ cursor' = Advanced(1)
        /\ sync'[1].page = sync[1].page /\ UNCHANGED <<cache, projectQueue>>
    BY <1>0, <2>3, StoreFacts
  <2>5. sync[1].page.stream = stream => Held(cursor)'
    <3>1. sync[1].page.stream = stream => Held(Advanced(1))
      BY <1>0, <2>4, AppliedFacts
    <3> QED
      BY <2>1, <2>4, <3>1 DEF Held, Has, At
  <2>6. ASSUME NEW i \in DOMAIN projectQueue PROVE FALSE
    <3>1. projectQueue[i].gen \in Generation /\ projectQueue[i].gen <= 1
      BY <2>4, TaskGenerations
    <3>2. projectQueue[i].gen = 1
      BY <3>1, Numbers
    <3>3. sync[1].pc # "none" /\ ~Awaited(1, "sync")
      BY <2>4 DEF PageApplied
    <3> QED
      BY <1>0, <3>2, <3>3, NoneAwaited
  <2>7. projectQueue = <<>>
    <3>1. projectQueue # <<>> => 1 \in DOMAIN projectQueue
      BY TailItems DEF TypeOK
    <3> QED
      BY <2>6, <3>1
  <2> QED
    BY <2>1, <2>4, <2>5, <2>7
<1>8. ASSUME NEW g \in Generation, Ends(g) PROVE FALSE
  <2>1. PICK ok \in BOOLEAN : Settled(g, ok)
    BY <1>8, EndFacts
  <2>2. g # 1
    BY <2>1 DEF Settled, NoRun
  <2>3. sync'[1] = sync[1] \/ sync'[1].pc = "begin"
    BY <1>0, <2>1, <2>2 DEF Settled
  <2> QED
    BY <1>1, <2>1, <2>2, <2>3 DEF Settled
<1> QED
  BY <1>2, <1>3, <1>4, <1>5, <1>6, <1>7, <1>8, StepCases DEF Carries

-----------------------------------------------------------------------------
LEMMA CopyStep ==
  ASSUME IInv, IInv', Copy, OneFailure', Next
  PROVE  Copy'
BY SocketsKept, RunsKept, LogKept, KnownKept, TasksKept, LeadsKept, FlowKept, InHandKept,
   CursorTaskKept, FirstResetKept, SecondStartKept, StreamStoredKept DEF Copy, InHand

LEMMA InitCopy == Init => Copying
<1> SUFFICES ASSUME Init PROVE Copy
  BY DEF Copying
<1>1. /\ 1 \in Generation /\ \A g \in Generation : sync[g] = NoRun
      /\ projectQueue = <<>> /\ wire = <<>> /\ buffered = <<>> /\ publishQueue = <<>>
      /\ stream = 1 /\ latest = 0 /\ wsGeneration = 0 /\ phase = "none" /\ cursor = 0
      /\ streamId = 0 /\ projecting = "idle" /\ drops = 0 /\ syncInFlight = 0
  BY ConstantTypes, SyncAssumption DEF Init, Generation
<1>2. DOMAIN <<>> = {} /\ Len(<<>>) = 0
  OBVIOUS
<1>3. Sockets /\ Runs /\ Known /\ Tasks
  BY <1>1, <1>2 DEF Sockets, Runs, Known, Tasks, NoRun, NoPage
<1>4. Log
  BY <1>1, <1>2, NothingAscends DEF Log
<1>5. Leads /\ Flow
  BY <1>1, <1>2 DEF Leads, Flow
<1>6. Fetching /\ Paged /\ Applying /\ Storing
  BY <1>1 DEF Fetching, Paged, Applying, Storing, NoRun
<1>7. CursorTask /\ FirstReset /\ SecondStart /\ StreamStored
  BY <1>1, <1>2 DEF CursorTask, FirstReset, SecondStart, StreamStored, Held, NoRun
<1> QED
  BY <1>3, <1>4, <1>5, <1>6, <1>7 DEF Copy

LEMMA StepCopying == IInv /\ IInv' /\ Copying /\ [Next]_vars => Copying'
<1> SUFFICES ASSUME IInv, IInv', Copying, [Next]_vars, OneFailure'
             PROVE  Copy'
  BY DEF Copying
<1>1. CASE Next
  <2>1. drops \in Nat /\ drops' \in Nat /\ (drops' = drops \/ drops' = drops + 1)
    BY <1>1, DropsGrow, ConstantTypes DEF IInv, TypeOK
  <2>2. OneFailure
    BY <2>1 DEF OneFailure
  <2> QED
    BY <1>1, <2>2, CopyStep DEF Copying
<1>2. CASE UNCHANGED vars
  <2>1. Copy
    BY <1>2 DEF Copying, OneFailure, vars
  <2> USE DEF vars, serverVars, dbVars, socketVars, taskVars, syncVars
  <2>2. Sockets' /\ Runs' /\ Known' /\ Tasks'
    BY <1>2, <2>1 DEF Copy, Sockets, Runs, Known, Tasks, Active
  <2>3. Log' /\ Leads' /\ Flow'
    BY <1>2, <2>1 DEF Copy, Log, Leads, Flow, Published, Ascending, At, Has, Coming
  <2>4. Fetching' /\ Paged' /\ Applying' /\ Storing'
    BY <1>2, <2>1 DEF Copy, Fetching, Paged, Applying, Storing, Held, Final, Published, At,
                      Has, Coming, Start
  <2>5. CursorTask' /\ FirstReset' /\ SecondStart' /\ StreamStored'
    BY <1>2, <2>1 DEF Copy, CursorTask, FirstReset, SecondStart, StreamStored, Held, At,
                      Has, Active, NotBegun
  <2> QED
    BY <2>2, <2>3, <2>4, <2>5 DEF Copy
<1> QED
  BY <1>1, <1>2

(* Up to a first failure, of whatever kind, nothing up to the cursor is    *)
(* missing, for any number of events, any page size and any set of hidden  *)
(* events: whoever writes the cursor (a task, a run at its end) writes a   *)
(* number up to which everything is stored, and the stored events are      *)
(* cleared only when no such write is under way (App.vue:91-133, 183-283). *)
THEOREM CursorIsSafe == Spec => []CursorCovers
<1>1. IInv /\ Copying => CursorCovers
  <2> SUFFICES ASSUME IInv, Copying, OneFailure, stream = 1, NEW n \in Missing
               PROVE  n > cursor
    BY DEF CursorCovers
  <2>1. Held(cursor)
    BY DEF Copying, Copy, CursorTask
  <2>2. n \in 1..latest /\ n \notin Hidden /\ At(n) \notin cache
    BY DEF Missing, At
  <2>3. n \notin 1..cursor
    BY <2>1, <2>2 DEF Held, Has
  <2>4. cursor \in Nat /\ latest \in Nat
    BY Numbers DEF IInv
  <2> QED
    BY <2>2, <2>3, <2>4
<1> QED
  BY <1>1, InitIInv, StepIInv, InitCopy, StepCopying, PTL DEF Spec

(* What is stored last is the head of projectQueue, and everything before  *)
(* it in the log has been.                                                 *)
LEMMA StoreStep ==
  ASSUME IInv, IInv', Copying, [Next]_vars
  PROVE  [OneFailure' =>
            \A e \in cache' \ cache : e.stream = stream =>
              \A n \in 1..(e.seq - 1) :
                n \in Hidden \/ [stream |-> stream, seq |-> n] \in cache]_vars
<1>1. ASSUME OneFailure',
             NEW e \in cache', e \notin cache, e.stream = stream, NEW n \in 1..(e.seq - 1)
      PROVE  n \in Hidden \/ [stream |-> stream, seq |-> n] \in cache
  <2>1. Next
    BY <1>1 DEF vars, dbVars
  <2>2. drops \in Nat /\ drops' \in Nat /\ (drops' = drops \/ drops' = drops + 1)
    BY <1>1, <2>1, DropsGrow, ConstantTypes DEF IInv, TypeOK
  <2>3. Copy
    BY <1>1, <2>2 DEF Copying, OneFailure
  <2>4. Project
    <3>1. ~(Record \/ Publish \/ Reopen \/ Replace \/ Accept \/ Opened)
      BY <1>1 DEF Record, Publish, Reopen, Replace, OpenSocket, Accept, Opened, dbVars
    <3>2. ~(Receive \/ DrainBuffered \/ ProjectRead \/ ProjectWrite \/ LoseSocket \/ Reload)
      BY <1>1 DEF Receive, DrainBuffered, ProjectRead, ProjectWrite, LoseSocket, Reload, dbVars
    <3>3. \A s \in 1..MaxStream : ~RestartBridge(s)
      BY <1>1 DEF RestartBridge, dbVars
    <3>4. ASSUME NEW g \in Generation PROVE ~Moves(g)
      <4>1. Moves(g) => cache' \subseteq cache
        BY <1>1, MoveFacts, TakeFacts DEF IInv
      <4> QED
        BY <1>1, <4>1
    <3>5. ASSUME NEW g \in Generation PROVE ~Ends(g)
      BY <1>1, <2>3, EndFacts DEF EndsAside
    <3> QED
      BY <2>1, <3>1, <3>2, <3>3, <3>4, <3>5, StepCases
  <2>5. /\ Head(projectQueue) = projectQueue[1] /\ 1 \in DOMAIN projectQueue
        /\ projectQueue[1].gen = wsGeneration /\ e = projectQueue[1].event
    BY <1>1, <2>4, ProjectFacts DEF IInv
  <2> QED
    BY <1>1, <2>3, <2>5 DEF Copy, Leads, Has, At
<1> QED
  BY <1>1

(* Up to a first failure an event is stored only after every earlier one   *)
(* of its log: pages before live events, and both in order (projectQueue,  *)
(* buffered, App.vue:183-283).                                             *)
THEOREM EventsStoredInOrder == Spec => StoredInOrder
<1>1. IInv /\ IInv' /\ Copying /\ [Next]_vars =>
        [OneFailure' =>
           \A e \in cache' \ cache : e.stream = stream =>
             \A n \in 1..(e.seq - 1) :
               n \in Hidden \/ [stream |-> stream, seq |-> n] \in cache]_vars
  BY StoreStep
<1> QED
  BY <1>1, InitIInv, StepIInv, InitCopy, StepCopying, PTL DEF Spec, StoredInOrder
=============================================================================
