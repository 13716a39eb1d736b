------------------------------ MODULE Timeline -------------------------------
(***************************************************************************)
(* The history of one conversation, from what Codex writes to what the web *)
(* client shows.  Codex appends lines to the rollout file and sends        *)
(* notifications to the bridge; SessionService.detail merges the rollout,  *)
(* the thread the app-server reports and the stored events; the client     *)
(* replaces its view by the detail it reads and projects the live events   *)
(* onto it.  The file, the notifications, the reads of one detail and the  *)
(* answer all travel on their own.                                         *)
(*                                                                         *)
(* A turn has one prompt, at most one tool call and one reply.  Client ids *)
(* are those of turns the bridge started.  Streamed deltas, references and *)
(* cached copies of the view are left out.                                 *)
(***************************************************************************)
EXTENDS Naturals, Sequences, FiniteSets

CONSTANTS
  Text,       \* the prompts
  By,         \* who starts turns: the bridge, the desktop app
  Ends,       \* how turns end
  Tools,      \* the turns that may call a tool
  Client,     \* whether a client has the conversation open
  StoreBase,  \* sequence number of the last event of other conversations
  MaxTurn,    \* bound: turns
  MaxNotes,   \* bound: notifications on their way
  MaxWire,    \* bound: published events on their way
  MaxExit,    \* bound: exits of the app-server
  MaxMiss     \* bound: reads of the thread that fail

ASSUME TimelineAssumption ==
  /\ Text # {} /\ By \subseteq {"bridge", "desktop"}
  /\ Ends \subseteq {"completed", "interrupted", "failed"}
  /\ Client \in BOOLEAN
  /\ StoreBase \in Nat /\ MaxTurn \in Nat \ {0} /\ Tools \subseteq 1..MaxTurn /\ MaxNotes \in Nat /\ MaxWire \in Nat
  /\ MaxExit \in Nat /\ MaxMiss \in Nat

VARIABLES
  turns,    \* Codex: the turns it knows of
  running,  \* Codex: the turn under way, or 0
  lines,    \* the lines of the rollout Codex has produced
  written,  \* how many of them are on disk
  scanned,  \* how many of them the catalog's last scan read, 0 before any did
  notes,    \* notifications the app-server has sent and the bridge not read
  stored,   \* the events of this conversation in the store
  active,   \* CodexManager.active, or 0
  wire,     \* events published and not yet projected
  request,  \* the request for details under way
  view,     \* what the client shows: messages, events, activeTurn
  ours,     \* ourTurnIds
  exits,    \* counts up to MaxExit
  misses    \* counts up to MaxMiss

codexVars == <<turns, running, lines>>
storeVars == <<stored, active>>
clientVars == <<view, ours>>
vars == <<codexVars, written, scanned, notes, storeVars, wire, request, clientVars, exits, misses>>

Turn == 1..MaxTurn
NoTurn == [by |-> "none", text |-> "none", status |-> "none", replied |-> FALSE]
Ended == {"completed", "interrupted", "failed"}
Known == {t \in Turn : turns[t].status \notin {"none", "erased"}}
Begun == {t \in Turn : turns[t].status # "none"}

NoThread == [t \in {} |-> NoTurn]
NoRequest == [pc |-> "none", thread |-> NoThread, lines |-> 0, seen |-> 0,
              messages |-> <<>>, events |-> {}]
EmptyView == [messages |-> <<>>, events |-> {}, active |-> FALSE, lines |-> 0]

Init ==
  /\ turns = [t \in Turn |-> NoTurn] /\ running = 0
  /\ lines = <<>> /\ written = 0 /\ scanned = 0 /\ notes = <<>>
  /\ stored = <<>> /\ active = 0 /\ wire = <<>>
  /\ request = IF Client THEN [NoRequest EXCEPT !.pc = "asked"] ELSE NoRequest
  /\ view = EmptyView /\ ours = {} /\ exits = 0 /\ misses = 0

-----------------------------------------------------------------------------
(* A left fold, as a function of how many elements have been taken.        *)
Folded(Step(_, _), base, s) ==
  LET taken[n \in 0..Len(s)] == IF n = 0 THEN base ELSE Step(taken[n - 1], s[n])
  IN  taken[Len(s)]

InTurn == [t \in Turn |-> t]

-----------------------------------------------------------------------------
(* Reading the rollout.                                                    *)

(* A line has the kind of its payload and the turn Codex wrote it for; the *)
(* readers see that turn only in a lifecycle line.                         *)
Line(kind, t, text) == [kind |-> kind, turn |-> t, text |-> text]
Lifecycle == {"task_started", "task_complete", "turn_aborted"}

\* The task_started line whose range covers line i, 0 if there is none.
StartOf(entries, i) ==
  LET S == {j \in 1..i : entries[j].kind = "task_started"}
  IN IF S = {} THEN 0 ELSE CHOOSE j \in S : \A k \in S : k <= j

TurnAt(entries, i) == IF StartOf(entries, i) = 0 THEN 0 ELSE entries[StartOf(entries, i)].turn

(* abortedRolloutRanges: the lines of every range with a rollback line in  *)
(* it, those after that line included.  The ranges of turns that were only *)
(* aborted have no bearing on messages.                                    *)
RolledBack(entries) ==
  LET undone == {StartOf(entries, j) :
                   j \in {k \in DOMAIN entries : entries[k].kind = "thread_rolled_back"}}
  IN {i \in DOMAIN entries : StartOf(entries, i) \in undone \ {0}}

Said == [user_event |-> "user", user_item |-> "user",
         agent_event |-> "assistant", agent_item |-> "assistant"]
Source == [user_event |-> "event_msg", user_item |-> "response_item",
           agent_event |-> "event_msg", agent_item |-> "response_item"]

(* collectRolloutMessages: a message is written twice, as an event and as  *)
(* an item; the second is dropped when the last message with its role and  *)
(* content has its turn and the other source.                              *)
Collect(entries, records, i) ==
  LET e == entries[i]
      turn == TurnAt(entries, i)
      same == {k \in DOMAIN records :
                 records[k].role = Said[e.kind] /\ records[k].text = e.text}
      Pair(r) == r.turn # 0 /\ r.turn = turn /\ r.source # Source[e.kind]
  IN IF \/ i \in RolledBack(entries) \/ e.kind \notin DOMAIN Said
        \/ \E k \in same : (\A m \in same : m <= k) /\ Pair(records[k])
     THEN records
     ELSE Append(records, [role |-> Said[e.kind], text |-> e.text, turn |-> turn,
                           time |-> i, source |-> Source[e.kind]])

CollectMessages(entries) ==
  LET Add(records, i) == Collect(entries, records, i)
  IN Folded(Add, <<>>, [i \in DOMAIN entries |-> i])

\* readRolloutMessages: without an item id the id of a message is its position.
RolloutMessages(entries) ==
  LET records == CollectMessages(entries)
  IN [i \in DOMAIN records |->
        [id |-> <<"line", i>>, role |-> records[i].role, text |-> records[i].text,
         turn |-> records[i].turn, client |-> FALSE, time |-> records[i].time]]

Event(type, t, status, seq, from) ==
  [type |-> type, turn |-> t, status |-> status, seq |-> seq, from |-> from]

\* A line without a turn id belongs to the last turn named before it, unless
\* that was rolled back since.
NamedBefore(entries, i) ==
  LET S == {j \in 1..(i - 1) : entries[j].kind \in Lifecycle \cup {"thread_rolled_back"}}
      last == CHOOSE j \in S : \A k \in S : k <= j
  IN IF S = {} \/ entries[last].kind = "thread_rolled_back" THEN 0 ELSE entries[last].turn

(* readRolloutEvents: the lifecycle of turns and the tool calls.  A        *)
(* rollback marks the turn_failed of its turn, or is one.                  *)
RolloutEvents(entries) ==
  LET Of(i) == NamedBefore(entries, i)
      Lines(kind) == {i \in DOMAIN entries : entries[i].kind = kind}
      undone == {i \in Lines("thread_rolled_back") : Of(i) # 0}
      Undone(t) == \E i \in undone : Of(i) = t
      Aborted(t) == \E i \in Lines("turn_aborted") : entries[i].turn = t
  IN {Event("turn_started", entries[i].turn, "started", i, "rollout") :
        i \in Lines("task_started")}
     \cup {Event("turn_completed", entries[i].turn, "completed", i, "rollout") :
        i \in Lines("task_complete")}
     \cup {Event("turn_failed", entries[i].turn,
                 IF Undone(entries[i].turn) THEN "rolled_back" ELSE "interrupted",
                 i, "rollout") : i \in Lines("turn_aborted")}
     \cup {Event("turn_failed", Of(i), "rolled_back", i, "rollout") :
        i \in {j \in undone : ~Aborted(Of(j))}}
     \cup {Event("tool_call", Of(i), "completed", i, "rollout") : i \in Lines("tool_call")}

-----------------------------------------------------------------------------
(* Merging: SessionService.detail.                                         *)

(* historyTimestamp: the last item has updated_at, which the catalog has   *)
(* from the last line of its last scan, and those before it are set back   *)
(* ten milliseconds each.  The items of a turn are given one time here.    *)
Times(thread, seen) ==
  LET earlier == {t \in DOMAIN thread : \E u \in DOMAIN thread : t < u}
  IN {[t \in DOMAIN thread |-> IF t \in earlier THEN at[t] ELSE seen] :
        at \in {f \in [earlier -> 0..seen] : \A t, u \in earlier : t < u => f[t] <= f[u]}}

\* threadHistoryMessages, with the times at.
Report(thread, at, t) ==
  LET Message(role, text) ==
        [id |-> <<role, t>>, role |-> role, text |-> text, turn |-> t,
         client |-> role = "user" /\ thread[t].by = "bridge", time |-> at[t]]
  IN IF t \notin DOMAIN thread THEN <<>>
     ELSE IF thread[t].replied
     THEN <<Message("user", thread[t].text), Message("assistant", "reply")>>
     ELSE <<Message("user", thread[t].text)>>

ThreadMessages(thread, at) ==
  LET Add(messages, t) == messages \o Report(thread, at, t)
  IN Folded(Add, <<>>, InTurn)

(* mergeHistoryMessages: a prompt the rollout has already only adds its    *)
(* client id.                                                              *)
Twins(result, m) ==
  {i \in DOMAIN result : /\ result[i].role = "user" /\ m.role = "user"
                         /\ result[i].turn = m.turn /\ result[i].text = m.text}

MergeOne(result, m) ==
  LET twins == Twins(result, m)
      first == CHOOSE i \in twins : \A j \in twins : i <= j
  IN CASE twins = {} -> Append(result, m)
       [] twins # {} /\ m.client /\ ~result[first].client ->
            [result EXCEPT ![first].client = TRUE, ![first].id = m.id]
       [] OTHER -> result

MergeHistory(primary, extra) == Folded(MergeOne, primary, extra)

IsLifecycle(e) == e.type \in {"turn_started", "turn_completed", "turn_failed"}
Terminal(e) == e.type \in {"turn_completed", "turn_failed"}

\* Two turn_failed of one turn have the same key whatever they say.
SameKey(e, f) == e = f \/ (IsLifecycle(e) /\ e.type = f.type /\ e.turn = f.turn)

Before(e, f) == IF e.from = f.from THEN e.seq <= f.seq ELSE e.from = "rollout"

(* mergeEvents: events of one key become one, with the place of the first  *)
(* and the metadata of the last.                                           *)
MergeEvents(primary, extra) ==
  LET all == primary \cup extra
      Class(e) == {f \in all : SameKey(e, f)}
      Earliest(C) == CHOOSE e \in C : \A f \in C : Before(e, f)
      Latest(C) == CHOOSE e \in C : \A f \in C : Before(f, e)
  IN {[Earliest(Class(e)) EXCEPT !.status = Latest(Class(e)).status] : e \in all}

\* Mutant: turns without any event.
OverUntold(thread, events) ==
  {t \in DOMAIN thread : thread[t].status \in Ended /\ ~\E e \in events : e.turn = t}

\* Turns the thread says are over and no event ends.
Over(thread, events) ==
  {t \in DOMAIN thread : thread[t].status \in Ended
     /\ ~\E e \in events : Terminal(e) /\ e.turn = t}

(* reconcileTurnLifecycle: turns the thread says are over get an end if no *)
(* event gives them one, and those the bridge runs itself a beginning.     *)
Reconcile(thread, events, ourActive) ==
  LET top == IF events = {} THEN 0
             ELSE (CHOOSE e \in events : \A f \in events : f.seq <= e.seq).seq
      begun == {t \in DOMAIN thread \cap ourActive : thread[t].status = "running"
                 /\ ~\E e \in events : e.type = "turn_started" /\ e.turn = t}
  IN events
     \cup {Event("turn_started", t, "started", top + 1, "thread") : t \in begun}
     \cup {IF thread[t].status = "failed"
           THEN Event("turn_failed", t, "failed", top + 1, "thread")
           ELSE Event("turn_completed", t, "completed", top + 1, "thread") : t \in Over(thread, events)}

Stored == {stored[i] : i \in DOMAIN stored}

\* The answer made of a thread, whose turns have the times at, and the first n lines.
DetailMessages(thread, n, at) ==
  MergeHistory(RolloutMessages(SubSeq(lines, 1, n)), ThreadMessages(thread, at))
DetailEvents(thread, n) ==
  Reconcile(thread, MergeEvents(RolloutEvents(SubSeq(lines, 1, n)), Stored), {active} \ {0})

-----------------------------------------------------------------------------
(* What the client makes of events and messages.                           *)

(* deriveActiveTurn: the last lifecycle event of the turn, by sequence     *)
(* number and then by time, is its beginning.                              *)
Unfinished(events, t) ==
  \E s \in events : /\ s.type = "turn_started" /\ s.turn = t
                     /\ \A e \in events : Terminal(e) /\ e.turn = t => e.seq < s.seq

DeriveActive(events) == \E t \in Turn : Unfinished(events, t)

\* deriveActiveTurnId: the unfinished turn the last event belongs to.
ActiveTurnId(events) ==
  LET S == {e \in events : e.turn # 0 /\ Unfinished(events, e.turn)}
  IN IF S = {} THEN 0 ELSE (CHOOSE e \in S : \A f \in S : f.seq <= e.seq).turn

\* externallyOccupied: the turn under way is not one this client started.
Foreign(v) ==
  v.active /\ ActiveTurnId(v.events) # 0 /\ ActiveTurnId(v.events) \notin ours

\* Messages by time; those of one time stay as they are.
Insert(s, m) ==
  LET n == Cardinality({i \in DOMAIN s : s[i].time <= m.time})
  IN SubSeq(s, 1, n) \o <<m>> \o SubSeq(s, n + 1, Len(s))

InOrder(messages) == Folded(Insert, <<>>, messages)

\* Mutant: the prompt of any message.
RepeatsAny(result, i, m) ==
  result[i].role = "user" /\ m.role = "user" /\ result[i].text = m.text

\* The prompt of the last message, once more.
Repeats(result, i, m) ==
  /\ result[i].role = "user" /\ m.role = "user" /\ result[i].text = m.text
  /\ i = Len(result)

(* dedupeMessages: one message for an id, a client id, a prompt and the    *)
(* same prompt right after it, and a reply repeated in its turn.  Of two   *)
(* copies the first stays, unless only the second has a client id.         *)
Same(result, i, m) ==
  LET r == result[i] IN
  \/ r.id = m.id
  \/ r.client /\ m.client /\ r.turn = m.turn
  \/ Repeats(result, i, m)
  \/ /\ r.role = "assistant" /\ m.role = "assistant"
     /\ r.turn # 0 /\ r.turn = m.turn /\ r.text = m.text

Keep(result, m) ==
  LET S == {i \in DOMAIN result : Same(result, i, m)}
      first == CHOOSE i \in S : \A j \in S : i <= j
  IN CASE S = {} -> Append(result, m)
       [] S # {} /\ m.client /\ ~result[first].client -> [result EXCEPT ![first] = m]
       [] OTHER -> result

Dedupe(messages) == Folded(Keep, <<>>, InOrder(messages))

\* Mutant: interrupted turns only.
HiddenInterrupted(events) ==
  {e.turn : e \in {f \in events : Terminal(f) /\ f.status = "interrupted"}}

\* ConversationTimeline: a rolled back turn is hidden.
HiddenTurns(events) == {e.turn : e \in {f \in events : Terminal(f) /\ f.status = "rolled_back"}}

ShownMessages(messages, events) ==
  LET Show(shown, m) == IF m.turn \in HiddenTurns(events) THEN shown ELSE Append(shown, m)
  IN Folded(Show, <<>>, Dedupe(messages))

ShownTools(events) ==
  {e \in events : e.type = "tool_call" /\ e.turn \notin HiddenTurns(events)}

(* mergeBridgeEvent: an event whose id the view has is ignored.  The       *)
(* message of an event replaces the one with its id or client id; a reply  *)
(* its turn has under another id is dropped.                               *)
MergeBridgeEvent(v, e, now) ==
  LET role == IF e.type = "user_message" THEN "user" ELSE "assistant"
      m == [id |-> <<role, e.turn>>, role |-> role,
            text |-> IF role = "user" THEN turns[e.turn].text ELSE "reply",
            turn |-> e.turn, client |-> role = "user", time |-> now]
      same == {i \in DOMAIN v.messages :
                 LET r == v.messages[i]
                 IN r.id = m.id \/ (r.client /\ m.client /\ r.turn = m.turn)}
      Repeated(r) == role = "assistant" /\ r.role = "assistant" /\ r.turn = m.turn /\ r.text = m.text
      messages ==
        CASE same # {} ->
               [v.messages EXCEPT ![CHOOSE i \in same : \A j \in same : i <= j] = m]
          [] same = {} /\ \E i \in DOMAIN v.messages : Repeated(v.messages[i]) -> v.messages
          [] OTHER -> Append(v.messages, m)
  IN CASE \E f \in v.events : f.from = e.from /\ f.seq = e.seq -> v
       [] e.type \in {"user_message", "assistant_message"} ->
            [v EXCEPT !.messages = messages, !.events = @ \cup {e}]
       [] OTHER ->
            [v EXCEPT !.events = @ \cup {e},
                      !.active = IF IsLifecycle(e) THEN e.type = "turn_started" ELSE @]

-----------------------------------------------------------------------------
(* Codex: turns of the bridge, which it tells of, and turns of the desktop *)
(* app, of which the bridge sees the rollout alone.                        *)

Produce(more) == lines' = lines \o more
Tell(t, more) ==
  /\ notes' = IF turns'[t].by = "bridge" THEN notes \o more ELSE notes
  /\ Len(notes') <= MaxNotes
Note(type, t, status) == [type |-> type, turn |-> t, status |-> status]

BeginTurn(t, by, text) ==
  /\ running = 0
  /\ turns[t].status = "none" /\ \A u \in 1..(t - 1) : u \in Begun
  /\ turns' = [turns EXCEPT ![t] = [by |-> by, text |-> text, status |-> "running",
                                   replied |-> FALSE]]
  /\ running' = t
  /\ Produce(<<Line("task_started", t, ""), Line("user_item", t, text),
               Line("user_event", t, text)>>)
  /\ Tell(t, <<Note("turn_started", t, "started"), Note("user_message", t, "")>>)
  /\ UNCHANGED <<written, scanned, storeVars, wire, request, clientVars, exits, misses>>

UseTool(t) ==
  /\ t \in Tools /\ running = t /\ ~turns[t].replied
  /\ ~\E i \in DOMAIN lines : lines[i].kind = "tool_call" /\ lines[i].turn = t
  /\ Produce(<<Line("tool_call", t, "")>>)
  /\ UNCHANGED <<turns, running>>
  /\ Tell(t, <<Note("tool_call", t, "completed")>>)
  /\ UNCHANGED <<written, scanned, storeVars, wire, request, clientVars, exits, misses>>

Reply(t) ==
  /\ running = t /\ ~turns[t].replied
  /\ turns' = [turns EXCEPT ![t].replied = TRUE]
  /\ Produce(<<Line("agent_event", t, "reply"), Line("agent_item", t, "reply")>>)
  /\ Tell(t, <<Note("assistant_message", t, "")>>)
  /\ UNCHANGED <<running, written, scanned, storeVars, wire, request, clientVars, exits, misses>>

\* A turn ends.  The rollout has no line for a turn that failed but its end.
Finish(t, how) ==
  /\ running = t
  /\ turns' = [turns EXCEPT ![t].status = how]
  /\ running' = 0
  /\ Produce(<<Line(IF how = "interrupted" THEN "turn_aborted" ELSE "task_complete", t, "")>>)
  /\ Tell(t, <<Note(IF how = "failed" THEN "turn_failed" ELSE "turn_completed", t, how)>>)
  /\ UNCHANGED <<written, scanned, storeVars, wire, request, clientVars, exits, misses>>

\* The desktop app takes the last turn back; nobody is told.
RollBack(t) ==
  /\ running = 0 /\ turns[t].status \in Ended /\ \A u \in Begun : u <= t
  /\ turns' = [turns EXCEPT ![t].status = "erased"]
  /\ Produce(<<Line("thread_rolled_back", 0, "")>>)
  /\ UNCHANGED <<running, notes, written, scanned, storeVars, wire, request, clientVars, exits, misses>>

\* What Codex has produced reaches the disk.
Write ==
  /\ written < Len(lines)
  /\ written' = Len(lines)
  /\ UNCHANGED <<codexVars, scanned, notes, storeVars, wire, request, clientVars, exits, misses>>

-----------------------------------------------------------------------------
(* The bridge.                                                             *)

Recorded(note) ==
  Event(note.type, note.turn, note.status, StoreBase + Len(stored) + 1, "store")

Publish(e) ==
  /\ stored' = Append(stored, e)
  /\ wire' = IF Client THEN Append(wire, [event |-> e, time |-> Len(lines)]) ELSE wire

\* CodexManager.notification: store the event, keep active, publish.
Notification ==
  /\ notes # <<>> /\ (Client => Len(wire) < MaxWire)
  /\ notes' = Tail(notes)
  /\ Publish(Recorded(Head(notes)))
  /\ active' = CASE Head(notes).type = "turn_started" -> Head(notes).turn
                 [] Terminal(Head(notes)) /\ Head(notes).turn = active -> 0
                 [] OTHER -> active
  /\ UNCHANGED <<codexVars, written, scanned, request, clientVars, exits, misses>>

(* The app-server exits: its turn stops without a line, and the            *)
(* 'unavailable' listener ends the active turn.  What was in the pipe is   *)
(* lost, or read after the exit.                                           *)
Exit ==
  /\ exits < MaxExit /\ exits' = exits + 1
  /\ LET gone == running # 0 /\ turns[running].by = "bridge" IN
     /\ turns' = IF gone THEN [turns EXCEPT ![running].status = "interrupted"] ELSE turns
     /\ running' = IF gone THEN 0 ELSE running
  /\ notes' \in {<<>>, notes}
  /\ IF active = 0 THEN UNCHANGED <<stored, wire>>
     ELSE Publish(Recorded(Note("turn_failed", active, "unavailable")))
  /\ active' = 0
  /\ UNCHANGED <<lines, written, scanned, request, clientVars, misses>>

(* doRefresh: a scan reads further than the last one did, be it for a list *)
(* or for the details of a session nobody has scanned.                     *)
Scan ==
  /\ Client /\ scanned < written
  /\ scanned' = written
  /\ UNCHANGED <<codexVars, written, notes, storeVars, wire, request, clientVars, exits, misses>>

(* One request for details: the thread and the rollout are read side by    *)
(* side, then the stored events.                                           *)
ReadThread(thread) ==
  /\ request.pc \in {"asked", "rollout"}
  /\ request' = [request EXCEPT !.thread = thread,
                                !.pc = IF request.pc = "asked" THEN "thread" ELSE "read"]
  /\ UNCHANGED <<codexVars, written, scanned, notes, storeVars, wire, clientVars, exits>>

ThreadRead == ReadThread([t \in Known |-> turns[t]]) /\ UNCHANGED misses

ThreadFails ==
  /\ misses < MaxMiss /\ misses' = misses + 1
  /\ ReadThread(NoThread)

\* The catalog reads the file of a session it knows.
RolloutRead ==
  /\ request.pc \in {"asked", "thread"}
  /\ request' = [request EXCEPT !.lines = IF scanned = 0 THEN 0 ELSE written, !.seen = scanned,
                                !.pc = IF request.pc = "asked" THEN "rollout" ELSE "read"]
  /\ UNCHANGED <<codexVars, written, scanned, notes, storeVars, wire, clientVars, exits, misses>>

\* The tools in a thread whose rollout is not known are left out.
Detail ==
  /\ request.pc = "read"
  /\ \E at \in Times(request.thread, request.seen) :
       request' = [request EXCEPT !.pc = "answered", !.thread = NoThread, !.seen = 0,
                     !.messages = DetailMessages(request.thread, request.lines, at),
                     !.events = DetailEvents(request.thread, request.lines)]
  /\ UNCHANGED <<codexVars, written, scanned, notes, storeVars, wire, clientVars, exits, misses>>

\* Neither the thread nor a rollout: the answer is 404, and the view stays.
Unknown ==
  /\ request.pc = "read" /\ request.thread = NoThread /\ request.lines = 0
  /\ request' = NoRequest
  /\ UNCHANGED <<codexVars, written, scanned, notes, storeVars, wire, clientVars, exits, misses>>

-----------------------------------------------------------------------------
(* The client.                                                             *)

\* The answer of POST messages: the turn is one of this client's.
Accepted(t) ==
  /\ Client /\ turns[t].by = "bridge" /\ t \notin ours
  /\ ours' = ours \cup {t}
  /\ UNCHANGED <<codexVars, written, scanned, notes, storeVars, wire, request, view, exits, misses>>

Project ==
  /\ wire # <<>>
  /\ view' = MergeBridgeEvent(view, Head(wire).event, Head(wire).time)
  /\ wire' = Tail(wire)
  /\ UNCHANGED <<codexVars, written, scanned, notes, storeVars, request, ours, exits, misses>>

\* Mutant: not while any turn runs.
PollIdle ==
  /\ Client /\ request.pc = "none" /\ ~view.active
  /\ request' = [NoRequest EXCEPT !.pc = "asked"]
  /\ UNCHANGED <<codexVars, written, scanned, notes, storeVars, wire, clientVars, exits, misses>>

(* settleActiveTurnAfterSync, every five seconds: not while a turn of this *)
(* client runs, as far as the view knows when the request is made.         *)
Poll ==
  /\ Client /\ request.pc = "none"
  /\ view.active => Foreign(view)
  /\ request' = [NoRequest EXCEPT !.pc = "asked"]
  /\ UNCHANGED <<codexVars, written, scanned, notes, storeVars, wire, clientVars, exits, misses>>

(* The answer replaces the view, whatever was projected since.             *)
Take ==
  /\ request.pc = "answered"
  /\ view' = [messages |-> request.messages, events |-> request.events,
              active |-> DeriveActive(request.events), lines |-> request.lines]
  /\ request' = NoRequest
  /\ UNCHANGED <<codexVars, written, scanned, notes, storeVars, wire, ours, exits, misses>>

-----------------------------------------------------------------------------
Codex ==
  \E t \in Turn :
    \/ \E by \in By, text \in Text : BeginTurn(t, by, text)
    \/ UseTool(t)
    \/ Reply(t)
    \/ \E how \in Ends : Finish(t, how)
    \/ RollBack(t)

Next ==
  \/ Codex
  \/ Write
  \/ Notification
  \/ Exit
  \/ Scan
  \/ ThreadRead
  \/ ThreadFails
  \/ RolloutRead
  \/ Detail
  \/ Unknown
  \/ \E t \in Turn : Accepted(t)
  \/ Project
  \/ Poll
  \/ Take

Spec == Init /\ [][Next]_vars

(* The file is written, notifications and events arrive, requests are      *)
(* answered, and the timers of the poll and of the list, for which the     *)
(* catalog scans, run on.  Codex owes nothing.  Weak fairness of a step    *)
(* that leaves itself nothing to do is said by that.                       *)
Fairness ==
  /\ []<>(written = Len(lines)) /\ []<>(Client => scanned = written)
  /\ WF_vars(Notification) /\ WF_vars(Project) /\ WF_vars(Poll)
  /\ []<>(request.pc \notin {"asked", "rollout"}) /\ []<>(request.pc \notin {"asked", "thread"})
  /\ []<>(request.pc \notin {"read", "answered"})
  /\ \A t \in Turn : []<>(turns[t].by # "bridge" \/ t \in ours)

FairSpec == Spec /\ Fairness

-----------------------------------------------------------------------------
Message == [id : ({"line"} \X Nat) \cup ({"user", "assistant"} \X Turn),
            role : {"user", "assistant"}, text : Text \cup {"reply"},
            turn : Turn, client : BOOLEAN, time : Nat]

(* What a reader of the conversation should see: prompts and replies of    *)
(* the turns Codex knows of, in order, a prompt repeated without a reply   *)
(* in between once.                                                        *)
SpokenIn(t) ==
  IF t \notin Known THEN <<>>
  ELSE IF turns[t].replied THEN <<<<"user", turns[t].text>>, <<"assistant", "reply">>>>
  ELSE <<<<"user", turns[t].text>>>>

Spoken == LET Add(s, t) == s \o SpokenIn(t) IN Folded(Add, <<>>, InTurn)

Heard(s, m) == IF s # <<>> /\ s[Len(s)] = m THEN s ELSE Append(s, m)

Conversation == Folded(Heard, <<>>, Spoken)

Read(messages, events) ==
  LET shown == ShownMessages(messages, events)
  IN [i \in DOMAIN shown |-> <<shown[i].role, shown[i].text>>]

Flushed == written = Len(lines)
Erased(n) == {t \in Turn : turns[t].status = "erased"
               /\ \E i \in 1..n : lines[i].kind = "thread_rolled_back"
                    /\ lines[StartOf(lines, i)].turn = t}
StoredFailed == {e.turn : e \in {f \in Stored : f.type = "turn_failed"}}

TypeOK ==
  /\ turns \in [Turn -> [by : {"none", "bridge", "desktop"}, text : Text \cup {"none"},
                         status : {"none", "running", "erased"} \cup Ended, replied : BOOLEAN]]
  /\ running \in {0} \cup Turn /\ active \in {0} \cup Turn
  /\ written \in 0..Len(lines) /\ scanned \in 0..written
  /\ view.messages \in Seq(Message) /\ request.messages \in Seq(Message)
  /\ view.active \in BOOLEAN /\ view.lines \in 0..Len(lines)
  /\ ours \subseteq Turn /\ exits \in 0..MaxExit /\ misses \in 0..MaxMiss

(* The thread's replies are no older than their lines: the catalog has     *)
(* scanned the last one, and items come ten milliseconds apart.            *)
Timely(at) ==
  \A i \in DOMAIN lines : lines[i].kind = "agent_event" /\ lines[i].turn \in DOMAIN at
                           => i <= at[lines[i].turn]

(* Once the file is written, the details of a conversation show each of    *)
(* its prompts and replies once, in order, whether the thread can be read  *)
(* or not, however far the notifications are and however old the           *)
(* updated_at of the catalog is beyond the last reply: readRolloutMessages,*)
(* mergeHistoryMessages and dedupeMessages neither lose nor repeat any.    *)
(* A reply the catalog has not scanned is shown before its prompt instead. *)
HistoryExact ==
  Flushed => \A thread \in {NoThread, [t \in Known |-> turns[t]]} :
    LET events == DetailEvents(thread, written)
        said == Conversation
    IN \A seen \in 0..written : \A at \in Times(thread, seen) :
         Timely(at) => Read(DetailMessages(thread, written, at), events) = said

(* A turn whose rollback is in the file the view was read from leaves no   *)
(* message and no tool call in it, though its events may still come in and *)
(* the thread may have been read before: the ranges of the messages and    *)
(* the ends of the turns agree.  Turns the bridge has stored as failed are *)
(* left out: mergeEvents puts the stored status over the rollback.         *)
ErasedHidden ==
  LET gone == Erased(view.lines) \ StoredFailed
      shown == ShownMessages(view.messages, view.events)
  IN /\ \A i \in DOMAIN shown : shown[i].turn \notin gone
     /\ \A e \in ShownTools(view.events) : e.turn \notin gone

(* Turns stopped by an exit, of which the file has no end, whose stored    *)
(* end has a number below that of the line they began with.                *)
Misplaced ==
  {t \in Turn :
     /\ turns[t].status \in Ended
     /\ \A i \in DOMAIN lines :
          lines[i].turn = t => lines[i].kind \notin {"task_complete", "turn_aborted"}
     /\ \E e \in Stored, i \in DOMAIN lines :
          /\ e.type = "turn_failed" /\ e.turn = t
          /\ lines[i].kind = "task_started" /\ lines[i].turn = t /\ e.seq < i}

(* With everything written, the details show a turn under way exactly when *)
(* there is one, whatever became of its app-server and whatever of it was  *)
(* told, or when there is a turn deriveActiveTurn takes the beginning of   *)
(* for later than its end: it compares the numbers of the store with those *)
(* of the lines (reconcileTurnLifecycle, mergeEvents, deriveActiveTurn).   *)
ActiveTrue ==
  Flushed => (DeriveActive(DetailEvents([t \in Known |-> turns[t]], written))
                <=> running # 0 \/ Misplaced # {})

Settled ==
  /\ view.active <=> running # 0
  /\ Read(view.messages, view.events) = Conversation
Suspended == view.active /\ ~Foreign(view)

(* Once Codex rests the view comes to show the conversation and stays so,  *)
(* unless a turn the client takes for its own keeps it from polling        *)
(* (settleActiveTurnAfterSync).                                            *)
Settles == <>[](Settled \/ Suspended)
=============================================================================
