--------------------------- MODULE TimelineProofs ----------------------------
(***************************************************************************)
(* What the details of a conversation and the view made of them show, for  *)
(* any number of turns, prompts, exits and reads.  TurnsInv says how turns *)
(* follow one another, Book what the rollout has of them whatever part of  *)
(* it is read, Script how turns speak in it, EventsInv what the bridge was *)
(* told, and ClientInv what is on its way to the client and shown by it.   *)
(* The readers of the rollout, the merges and the reconciliation are       *)
(* described line by line and event by event under Rollout alone; folds    *)
(* are unfolded once, and induction on how many elements have been taken   *)
(* goes over a set of numbers (UpTo).  The messages of the details are put *)
(* beside the conversation in the order of voices: the prompt and then the *)
(* reply of a turn (Gathered, Recounted, Merged, Kept).                    *)
(***************************************************************************)
EXTENDS Timeline, FiniteSetTheorems, WellFoundedInduction, TLAPS

Marker == Lifecycle \cup {"thread_rolled_back"}
Kind == Marker \cup DOMAIN Said \cup {"tool_call"}
RolloutLine == [kind : Kind, turn : 0..MaxTurn, text : Text \cup {"", "reply"}]
SomeTurn == [by : {"none", "bridge", "desktop"}, text : Text \cup {"none"},
             status : {"none", "running", "erased"} \cup Ended, replied : BOOLEAN]

(* Turns begin one after the other, and the one under way is the last.     *)
TurnsInv ==
  /\ turns \in [Turn -> SomeTurn] /\ running \in {0} \cup Turn
  /\ \A t \in Turn : turns[t].status = "running" <=> running = t
  /\ \A t \in Begun : turns[t].by \in {"bridge", "desktop"} /\ turns[t].text \in Text
  /\ \A t \in Turn \ Begun : ~turns[t].replied
  /\ \A t \in Begun, u \in Turn : u < t => u \in Begun
  /\ running # 0 => \A t \in Begun : t <= running

\* Line m is the last marker of turns before line i.
MarkedBy(entries, m, i) ==
  /\ m \in DOMAIN entries /\ m < i /\ entries[m].kind \in Lifecycle
  /\ \A k \in DOMAIN entries : m < k /\ k < i => entries[k].kind \notin Marker

\* What a rollout is like, whatever part of it is read.
Rollout(entries) ==
  /\ entries \in Seq(RolloutLine)
  /\ \A i \in DOMAIN entries :
       /\ entries[i].kind = "thread_rolled_back" <=> entries[i].turn = 0
       /\ entries[i].kind = "thread_rolled_back" => \E m \in DOMAIN entries : MarkedBy(entries, m, i)
       /\ entries[i].kind # "thread_rolled_back" =>
            /\ \E j \in DOMAIN entries :
                 j <= i /\ entries[j].kind = "task_started" /\ entries[j].turn = entries[i].turn
            /\ \A j \in DOMAIN entries : j < i =>
                 /\ entries[j].turn <= entries[i].turn
                 /\ entries[i].kind = "task_started" => entries[j].turn # entries[i].turn

\* Line i takes back turn t.
TakesBack(entries, i, t) ==
  /\ i \in DOMAIN entries /\ entries[i].kind = "thread_rolled_back"
  /\ \E m \in DOMAIN entries : MarkedBy(entries, m, i) /\ entries[m].turn = t

(* The rollout against what Codex knows of the turns: every turn that has  *)
(* begun has its line, one that is taken back has that line too, and the   *)
(* last turn, unless it is taken back, is what the next rollback is about. *)
Book(entries, T, run) ==
  /\ Rollout(entries)
  /\ \A i \in DOMAIN entries :
       /\ entries[i].turn # 0 => T[entries[i].turn].status # "none"
       /\ entries[i].kind \in {"task_complete", "turn_aborted"} => entries[i].turn # run
       /\ \A t \in Turn : TakesBack(entries, i, t) => T[t].status = "erased"
  /\ \A t \in Turn :
       /\ T[t].status # "none" =>
            \E i \in DOMAIN entries : entries[i].kind = "task_started" /\ entries[i].turn = t
       /\ T[t].status = "erased" => \E i \in DOMAIN entries : TakesBack(entries, i, t)
       /\ /\ T[t].status \notin {"none", "erased"}
          /\ \A u \in Turn : T[u].status # "none" => u <= t
          => \E m \in DOMAIN entries : MarkedBy(entries, m, Len(entries) + 1)

(* How turns speak: the prompt right after the beginning, each message as  *)
(* an item and an event side by side, the reply once.                      *)
ScriptAt(entries, T, i) ==
  /\ entries[i].kind \in {"user_item", "user_event"} => entries[i].text = T[entries[i].turn].text
  /\ entries[i].kind \in {"agent_event", "agent_item"} =>
       entries[i].text = "reply" /\ T[entries[i].turn].replied
  /\ entries[i].kind = "task_started" =>
       i + 1 \in DOMAIN entries /\ entries[i + 1].kind = "user_item"
  /\ entries[i].kind = "user_item" =>
       /\ i - 1 \in DOMAIN entries
       /\ entries[i - 1].kind = "task_started" /\ entries[i - 1].turn = entries[i].turn
  /\ entries[i].kind = "user_event" =>
       /\ i - 1 \in DOMAIN entries
       /\ entries[i - 1].kind = "user_item" /\ entries[i - 1].turn = entries[i].turn
  /\ entries[i].kind = "agent_item" =>
       /\ i - 1 \in DOMAIN entries
       /\ entries[i - 1].kind = "agent_event" /\ entries[i - 1].turn = entries[i].turn
  /\ entries[i].kind = "agent_event" => \A j \in DOMAIN entries :
       entries[j].kind = "agent_event" /\ entries[j].turn = entries[i].turn => j = i

Script(entries, T) ==
  /\ \A i \in DOMAIN entries : ScriptAt(entries, T, i)
  /\ \A t \in Turn : T[t].replied =>
       \E i \in DOMAIN entries : entries[i].kind = "agent_event" /\ entries[i].turn = t

LinesInv == Book(lines, turns, running) /\ written \in 0..Len(lines)

Types == {"turn_started", "user_message", "tool_call", "assistant_message",
          "turn_completed", "turn_failed"}
Statuses == {"", "started", "unavailable"} \cup Ended
Notes == [type : Types, turn : Turn, status : Statuses]
StoredEvent == [type : Types, turn : Turn, status : Statuses, seq : Nat, from : {"store"}]

\* The file has the end of a turn.
Closed(entries, t) ==
  \E i \in DOMAIN entries :
    entries[i].kind \in {"task_complete", "turn_aborted"} /\ entries[i].turn = t

(* The bridge is told of its own turns, of their ends when they are over,  *)
(* and that they are completed when the file says so too.                  *)
Told(type, t) ==
  /\ t \in Begun /\ turns[t].by = "bridge"
  /\ type \in {"turn_completed", "turn_failed"} => t # running
  /\ type = "turn_completed" => Closed(lines, t)

ToldNotes == {n \in Notes : Told(n.type, n.turn)}
ToldEvents == {e \in StoredEvent : Told(e.type, e.turn)}

EventsInv ==
  /\ notes \in Seq(ToldNotes) /\ stored \in Seq(ToldEvents)
  /\ \A i \in DOMAIN stored : stored[i].seq = StoreBase + i
  /\ active # 0 => active \in Begun /\ turns[active].by = "bridge"

\* A rollback in what was read is in the events, unless the store has an end of the turn.
Withdrawn(n, events) ==
  \A t \in Turn : (\E i \in 1..n : TakesBack(lines, i, t)) /\ t \notin StoredFailed =>
    \E e \in events : e.type = "turn_failed" /\ e.status = "rolled_back" /\ e.turn = t

\* What the app-server can report of turns.
Threads == UNION {[D -> {r \in SomeTurn : r.text \in Text}] : D \in SUBSET Turn}

Wired == {w \in [event : StoredEvent, time : Nat] : w.event.turn \in Begun}

ViewInv ==
  /\ view = [messages |-> view.messages, events |-> view.events, active |-> view.active,
             lines |-> view.lines]
  /\ view.messages \in Seq(Message) /\ view.lines \in 0..Len(lines) /\ view.active \in BOOLEAN
  /\ Withdrawn(view.lines, view.events)

RequestInv ==
  /\ request = [pc |-> request.pc, thread |-> request.thread, lines |-> request.lines,
                seen |-> request.seen, messages |-> request.messages, events |-> request.events]
  /\ request.thread \in Threads /\ request.lines \in 0..Len(lines) /\ request.seen \in Nat
  /\ request.messages \in Seq(Message)
  /\ request.pc = "answered" => Withdrawn(request.lines, request.events)

(* What the client reads and shows: of turns that have begun, no further   *)
(* than the file goes, and with the rollbacks in what was read.            *)
ClientInv ==
  /\ wire \in Seq(Wired) /\ ViewInv /\ RequestInv /\ scanned \in 0..written
  /\ ours \subseteq Turn /\ exits \in 0..MaxExit /\ misses \in 0..MaxMiss

-----------------------------------------------------------------------------
(* A rollout and its beginnings                                            *)

Prefix(p, q) ==
  /\ p \in Seq(RolloutLine) /\ q \in Seq(RolloutLine)
  /\ Len(p) <= Len(q) /\ \A i \in 1..Len(p) : q[i] = p[i]

LEMMA TurnNumbers == MaxTurn \in Nat /\ MaxTurn # 0 /\ \A t \in Turn : t \in Nat /\ t # 0
BY TimelineAssumption DEF Turn

LEMMA LineFields ==
  ASSUME NEW l \in RolloutLine
  PROVE  l.kind \in Kind /\ l.turn \in 0..MaxTurn /\ l.turn \in Nat /\ l.text \in Text \cup {"", "reply"}
<1>1. l.kind \in Kind /\ l.turn \in 0..MaxTurn /\ l.text \in Text \cup {"", "reply"}
  BY DEF RolloutLine
<1>2. \A n \in 0..MaxTurn : n \in Nat
  BY TurnNumbers
<1> QED
  BY <1>1, <1>2

LEMMA AppendIsLonger ==
  ASSUME NEW p \in Seq(RolloutLine), NEW l \in RolloutLine
  PROVE  /\ Prefix(p, Append(p, l)) /\ Len(p) \in Nat
         /\ Len(Append(p, l)) = Len(p) + 1 /\ Append(p, l)[Len(p) + 1] = l
         /\ DOMAIN Append(p, l) = 1..(Len(p) + 1) /\ DOMAIN p = 1..Len(p)
         /\ \A i \in DOMAIN p : i \in DOMAIN Append(p, l) /\ Append(p, l)[i] = p[i]
         /\ \A i \in DOMAIN Append(p, l) : i \in DOMAIN p \/ i = Len(p) + 1
BY DEF Prefix

LEMMA PrefixMarked ==
  ASSUME NEW p, NEW q, Prefix(p, q), NEW i \in 1..(Len(p) + 1), NEW m
  PROVE  MarkedBy(p, m, i) <=> MarkedBy(q, m, i)
<1>1. /\ DOMAIN p = 1..Len(p) /\ DOMAIN q = 1..Len(q) /\ Len(p) \in Nat /\ Len(q) \in Nat
      /\ Len(p) <= Len(q) /\ \A k \in 1..Len(p) : q[k] = p[k]
  BY DEF Prefix
<1>2. \A k \in DOMAIN q : k < i => k \in DOMAIN p /\ q[k] = p[k]
  BY <1>1
<1>3. \A k \in DOMAIN p : k \in DOMAIN q
  BY <1>1
<1> QED
  BY <1>1, <1>2, <1>3 DEF MarkedBy

LEMMA PrefixTakesBack ==
  ASSUME NEW p, NEW q, Prefix(p, q), NEW i \in 1..Len(p), NEW t
  PROVE  TakesBack(p, i, t) <=> TakesBack(q, i, t)
<1>1. /\ DOMAIN p = 1..Len(p) /\ DOMAIN q = 1..Len(q) /\ Len(p) \in Nat /\ Len(q) \in Nat
      /\ Len(p) <= Len(q) /\ \A k \in 1..Len(p) : q[k] = p[k]
  BY DEF Prefix
<1>2. i \in DOMAIN p /\ i \in DOMAIN q /\ q[i] = p[i] /\ i \in 1..(Len(p) + 1)
  BY <1>1
<1>3. \A m : MarkedBy(p, m, i) <=> MarkedBy(q, m, i)
  BY <1>2, PrefixMarked
<1>4. \A m : MarkedBy(p, m, i) => m \in DOMAIN p /\ m \in DOMAIN q /\ q[m] = p[m]
  BY <1>1 DEF MarkedBy
<1> QED
  BY <1>2, <1>3, <1>4 DEF TakesBack

LEMMA PrefixRollout ==
  ASSUME NEW p, NEW q, Prefix(p, q), Rollout(q)
  PROVE  Rollout(p)
<1>1. /\ DOMAIN p = 1..Len(p) /\ DOMAIN q = 1..Len(q) /\ Len(p) \in Nat /\ Len(q) \in Nat
      /\ Len(p) <= Len(q) /\ \A k \in 1..Len(p) : q[k] = p[k]
      /\ p \in Seq(RolloutLine)
  BY DEF Prefix
<1> SUFFICES ASSUME NEW i \in DOMAIN p
             PROVE  /\ p[i].kind = "thread_rolled_back" <=> p[i].turn = 0
                    /\ p[i].kind = "thread_rolled_back" => \E m \in DOMAIN p : MarkedBy(p, m, i)
                    /\ p[i].kind # "thread_rolled_back" =>
                         /\ \E j \in DOMAIN p :
                              j <= i /\ p[j].kind = "task_started" /\ p[j].turn = p[i].turn
                         /\ \A j \in DOMAIN p : j < i =>
                              /\ p[j].turn <= p[i].turn
                              /\ p[i].kind = "task_started" => p[j].turn # p[i].turn
  BY <1>1 DEF Rollout
<1>2. i \in DOMAIN q /\ q[i] = p[i] /\ i \in 1..(Len(p) + 1) /\ i \in Nat
  BY <1>1
<1>3. p[i].kind = "thread_rolled_back" => \E m \in DOMAIN p : MarkedBy(p, m, i)
  <2> SUFFICES ASSUME p[i].kind = "thread_rolled_back"
               PROVE  \E m \in DOMAIN p : MarkedBy(p, m, i)
    OBVIOUS
  <2>1. PICK m \in DOMAIN q : MarkedBy(q, m, i)
    BY <1>2 DEF Rollout
  <2>2. MarkedBy(p, m, i)
    BY <1>2, <2>1, PrefixMarked
  <2> QED
    BY <2>2 DEF MarkedBy
<1>4. ASSUME p[i].kind # "thread_rolled_back"
      PROVE  \E j \in DOMAIN p : j <= i /\ p[j].kind = "task_started" /\ p[j].turn = p[i].turn
  <2>1. PICK j \in DOMAIN q : j <= i /\ q[j].kind = "task_started" /\ q[j].turn = q[i].turn
    BY <1>2, <1>4 DEF Rollout
  <2>2. j \in DOMAIN p /\ q[j] = p[j]
    BY <1>1, <2>1
  <2> QED
    BY <1>2, <2>1, <2>2
<1>5. ASSUME p[i].kind # "thread_rolled_back", NEW j \in DOMAIN p, j < i
      PROVE  /\ p[j].turn <= p[i].turn
             /\ p[i].kind = "task_started" => p[j].turn # p[i].turn
  <2>1. j \in DOMAIN q /\ q[j] = p[j]
    BY <1>1
  <2> QED
    BY <1>2, <1>5, <2>1 DEF Rollout
<1>6. p[i].kind = "thread_rolled_back" <=> p[i].turn = 0
  BY <1>2 DEF Rollout
<1> QED
  BY <1>3, <1>4, <1>5, <1>6

LEMMA RolloutGrows ==
  ASSUME NEW p, Rollout(p), NEW l \in RolloutLine,
         l.kind = "thread_rolled_back" <=> l.turn = 0,
         l.kind = "thread_rolled_back" => \E m \in DOMAIN p : MarkedBy(p, m, Len(p) + 1),
         l.kind \notin {"thread_rolled_back", "task_started"} =>
           \E j \in DOMAIN p : p[j].kind = "task_started" /\ p[j].turn = l.turn,
         l.kind # "thread_rolled_back" => \A j \in DOMAIN p : p[j].turn <= l.turn,
         l.kind = "task_started" => \A j \in DOMAIN p : p[j].turn # l.turn
  PROVE  Rollout(Append(p, l))
<1> DEFINE q == Append(p, l)
<1>1. p \in Seq(RolloutLine) /\ q \in Seq(RolloutLine)
  BY DEF Rollout
<1>2. /\ Prefix(p, q) /\ Len(p) \in Nat /\ Len(q) = Len(p) + 1 /\ q[Len(p) + 1] = l
      /\ DOMAIN q = 1..(Len(p) + 1) /\ DOMAIN p = 1..Len(p)
      /\ \A i \in DOMAIN p : i \in DOMAIN q /\ q[i] = p[i]
      /\ \A i \in DOMAIN q : i \in DOMAIN p \/ i = Len(p) + 1
  BY <1>1, AppendIsLonger
<1> HIDE DEF q
<1> SUFFICES ASSUME NEW i \in DOMAIN q
             PROVE  /\ q[i].kind = "thread_rolled_back" <=> q[i].turn = 0
                    /\ q[i].kind = "thread_rolled_back" => \E m \in DOMAIN q : MarkedBy(q, m, i)
                    /\ q[i].kind # "thread_rolled_back" =>
                         /\ \E j \in DOMAIN q :
                              j <= i /\ q[j].kind = "task_started" /\ q[j].turn = q[i].turn
                         /\ \A j \in DOMAIN q : j < i =>
                              /\ q[j].turn <= q[i].turn
                              /\ q[i].kind = "task_started" => q[j].turn # q[i].turn
  BY <1>1 DEF Rollout, q
<1>3. CASE i \in DOMAIN p
  <2>1. q[i] = p[i] /\ i \in 1..(Len(p) + 1)
    BY <1>2, <1>3
  <2>2. /\ p[i].kind = "thread_rolled_back" <=> p[i].turn = 0
        /\ p[i].kind = "thread_rolled_back" => \E m \in DOMAIN p : MarkedBy(p, m, i)
        /\ p[i].kind # "thread_rolled_back" =>
             /\ \E j \in DOMAIN p :
                  j <= i /\ p[j].kind = "task_started" /\ p[j].turn = p[i].turn
             /\ \A j \in DOMAIN p : j < i =>
                  /\ p[j].turn <= p[i].turn
                  /\ p[i].kind = "task_started" => p[j].turn # p[i].turn
    BY <1>3 DEF Rollout
  <2>3. \A m : MarkedBy(p, m, i) => m \in DOMAIN q /\ MarkedBy(q, m, i)
    BY <1>2, <2>1, PrefixMarked DEF MarkedBy
  <2>4. \A j \in DOMAIN q : j < i => j \in DOMAIN p /\ q[j] = p[j]
    BY <1>2, <1>3
  <2> QED
    BY <1>2, <2>1, <2>2, <2>3, <2>4
<1>4. CASE i = Len(p) + 1
  <2>1. q[i] = l /\ i \in 1..(Len(p) + 1)
    BY <1>2, <1>4
  <2>2. \A m : MarkedBy(p, m, i) => m \in DOMAIN q /\ MarkedBy(q, m, i)
    BY <1>2, <2>1, PrefixMarked DEF MarkedBy
  <2>3. l.kind = "thread_rolled_back" => \E m \in DOMAIN q : MarkedBy(q, m, i)
    BY <1>4, <2>2
  <2>4. \A j \in DOMAIN p : j <= i /\ j \in DOMAIN q /\ q[j] = p[j]
    BY <1>2, <1>4
  <2>5. l.kind # "thread_rolled_back" =>
          \E j \in DOMAIN q : j <= i /\ q[j].kind = "task_started" /\ q[j].turn = l.turn
    BY <1>2, <1>4, <2>1, <2>4
  <2>6. \A j \in DOMAIN q : j < i => j \in DOMAIN p
    BY <1>2, <1>4
  <2> QED
    BY <2>1, <2>3, <2>4, <2>5, <2>6
<1> QED
  BY <1>2, <1>3, <1>4

-----------------------------------------------------------------------------
(* The rollout against the turns                                           *)

LEMMA BookFields ==
  ASSUME NEW p, NEW T, NEW run, Book(p, T, run)
  PROVE  /\ Rollout(p) /\ p \in Seq(RolloutLine) /\ Len(p) \in Nat /\ DOMAIN p = 1..Len(p)
         /\ \A i \in DOMAIN p : p[i] \in RolloutLine /\ p[i].turn \in 0..MaxTurn /\ p[i].turn \in Nat
         /\ \A i \in DOMAIN p : p[i].turn # 0 => p[i].turn \in Turn
<1>1. Rollout(p) /\ p \in Seq(RolloutLine)
  BY DEF Book, Rollout
<1>2. \A i \in DOMAIN p : p[i] \in RolloutLine
  BY <1>1
<1>3. \A i \in DOMAIN p : p[i].turn \in 0..MaxTurn /\ p[i].turn \in Nat
  BY <1>2, LineFields
<1>4. \A i \in DOMAIN p : p[i].turn # 0 => p[i].turn \in Turn
  BY <1>3, TurnNumbers DEF Turn
<1> QED
  BY <1>1, <1>2, <1>3, <1>4

\* A line of the last turn that is no marker.
LEMMA BookLine ==
  ASSUME NEW p, NEW T, NEW run, Book(p, T, run), NEW l \in RolloutLine,
         l.kind \notin Marker, l.turn \in Turn, T[l.turn].status # "none",
         \A u \in Turn : T[u].status # "none" => u <= l.turn
  PROVE  Book(Append(p, l), T, run)
<1> DEFINE q == Append(p, l)
<1>1. /\ Rollout(p) /\ p \in Seq(RolloutLine) /\ Len(p) \in Nat /\ DOMAIN p = 1..Len(p)
      /\ \A i \in DOMAIN p : p[i].turn \in Nat /\ (p[i].turn # 0 => p[i].turn \in Turn)
  BY BookFields
<1>2. /\ Prefix(p, q) /\ Len(q) = Len(p) + 1 /\ q[Len(p) + 1] = l
      /\ DOMAIN q = 1..(Len(p) + 1)
      /\ \A i \in DOMAIN p : i \in DOMAIN q /\ q[i] = p[i]
      /\ \A i \in DOMAIN q : i \in DOMAIN p \/ i = Len(p) + 1
  BY <1>1, AppendIsLonger
<1>3. l.turn # 0 /\ l.turn \in Nat
  BY TurnNumbers
<1>4. l.kind \notin {"thread_rolled_back", "task_started", "task_complete", "turn_aborted"}
  BY DEF Marker, Lifecycle
<1>5. Rollout(q)
  <2>1. \E j \in DOMAIN p : p[j].kind = "task_started" /\ p[j].turn = l.turn
    BY DEF Book
  <2>2. \A j \in DOMAIN p : p[j].turn <= l.turn
    <3> TAKE j \in DOMAIN p
    <3>1. CASE p[j].turn = 0
      BY <1>3, <3>1
    <3>2. CASE p[j].turn # 0
      <4>1. p[j].turn \in Turn /\ T[p[j].turn].status # "none"
        BY <1>1, <3>2 DEF Book
      <4> QED
        BY <4>1
    <3> QED
      BY <3>1, <3>2
  <2> QED
    BY <1>1, <1>3, <1>4, <2>1, <2>2, RolloutGrows
<1> HIDE DEF q
<1>6. \A i \in DOMAIN p, t \in Turn : TakesBack(p, i, t) <=> TakesBack(q, i, t)
  BY <1>1, <1>2, PrefixTakesBack
<1>7. \A t \in Turn : ~TakesBack(q, Len(p) + 1, t)
  BY <1>2, <1>4 DEF TakesBack
<1>8. ASSUME NEW i \in DOMAIN q
      PROVE  /\ q[i].turn # 0 => T[q[i].turn].status # "none"
             /\ q[i].kind \in {"task_complete", "turn_aborted"} => q[i].turn # run
             /\ \A t \in Turn : TakesBack(q, i, t) => T[t].status = "erased"
  <2>1. CASE i \in DOMAIN p
    BY <1>2, <1>6, <2>1 DEF Book
  <2>2. CASE i = Len(p) + 1
    BY <1>2, <1>4, <1>7, <2>2
  <2> QED
    BY <1>2, <2>1, <2>2
<1>9. ASSUME NEW t \in Turn
      PROVE  /\ T[t].status # "none" =>
                  \E i \in DOMAIN q : q[i].kind = "task_started" /\ q[i].turn = t
             /\ T[t].status = "erased" => \E i \in DOMAIN q : TakesBack(q, i, t)
  BY <1>2, <1>6 DEF Book
<1>10. ASSUME NEW t \in Turn, T[t].status \notin {"none", "erased"},
              \A u \in Turn : T[u].status # "none" => u <= t
       PROVE  \E m \in DOMAIN q : MarkedBy(q, m, Len(q) + 1)
  <2>1. PICK m \in DOMAIN p : MarkedBy(p, m, Len(p) + 1)
    BY <1>10 DEF Book
  <2>2. /\ m < Len(p) + 1 /\ p[m].kind \in Lifecycle /\ m \in Nat
        /\ \A k \in DOMAIN p : m < k => p[k].kind \notin Marker
    BY <1>1, <2>1 DEF MarkedBy
  <2>3. \A k \in DOMAIN q : m < k => q[k].kind \notin Marker
    BY <1>2, <2>2
  <2>4. m \in DOMAIN q /\ m < Len(q) + 1 /\ q[m].kind \in Lifecycle
    BY <1>1, <1>2, <2>1, <2>2
  <2> QED
    BY <2>3, <2>4 DEF MarkedBy
<1> QED
  BY <1>5, <1>8, <1>9, <1>10 DEF Book, q

(* A step of Codex changes the status of one turn, t, the last one, and    *)
(* adds a marker of it, l.                                                 *)
LEMMA BookMarker ==
  ASSUME NEW p, NEW T, NEW run, Book(p, T, run), NEW l \in RolloutLine, l.kind \in Marker,
         NEW t \in Turn, NEW T2, NEW run2,
         \A u \in Turn : u # t => T2[u] = T[u],
         T2[t].status # "none",
         \A u \in Turn : T[u].status # "none" => u <= t,
         T[t].status # "erased",
         Rollout(Append(p, l)),
         l.turn \in {0, t},
         l.kind = "task_started" => l.turn = t,
         T[t].status = "none" => l.kind = "task_started",
         l.kind = "thread_rolled_back" => l.turn = 0,
         \A u \in Turn : TakesBack(Append(p, l), Len(p) + 1, u) => T2[u].status = "erased",
         T2[t].status = "erased" => TakesBack(Append(p, l), Len(p) + 1, t),
         T2[t].status # "erased" => l.kind \in Lifecycle,
         run2 = 0 \/ (run2 = t /\ l.kind = "task_started" /\ T[t].status = "none")
  PROVE  Book(Append(p, l), T2, run2)
<1> DEFINE q == Append(p, l)
<1>1. /\ Rollout(p) /\ p \in Seq(RolloutLine) /\ Len(p) \in Nat /\ DOMAIN p = 1..Len(p)
      /\ \A i \in DOMAIN p : p[i].turn \in Nat /\ (p[i].turn # 0 => p[i].turn \in Turn)
  BY BookFields
<1>2. /\ Prefix(p, q) /\ Len(q) = Len(p) + 1 /\ q[Len(p) + 1] = l
      /\ DOMAIN q = 1..(Len(p) + 1)
      /\ \A i \in DOMAIN p : i \in DOMAIN q /\ q[i] = p[i]
      /\ \A i \in DOMAIN q : i \in DOMAIN p \/ i = Len(p) + 1
  BY <1>1, AppendIsLonger
<1>3. t # 0 /\ t \in Nat
  BY TurnNumbers
<1>4. Rollout(q)
  OBVIOUS
<1>5. /\ \A u \in Turn : TakesBack(q, Len(p) + 1, u) => T2[u].status = "erased"
      /\ T2[t].status = "erased" => TakesBack(q, Len(p) + 1, t)
  OBVIOUS
<1> HIDE DEF q
<1>6. \A i \in DOMAIN p, u \in Turn : TakesBack(p, i, u) <=> TakesBack(q, i, u)
  BY <1>1, <1>2, PrefixTakesBack
<1>7. \A u \in Turn : T[u].status # "none" => T2[u].status # "none"
  OBVIOUS
<1>8. ASSUME NEW i \in DOMAIN q
      PROVE  /\ q[i].turn # 0 => T2[q[i].turn].status # "none"
             /\ q[i].kind \in {"task_complete", "turn_aborted"} => q[i].turn # run2
             /\ \A u \in Turn : TakesBack(q, i, u) => T2[u].status = "erased"
  <2>1. CASE i \in DOMAIN p
    <3>1. q[i] = p[i] /\ (p[i].turn # 0 => T[p[i].turn].status # "none" /\ p[i].turn \in Turn)
      BY <1>1, <1>2, <2>1 DEF Book
    <3>2. \A u \in Turn : TakesBack(q, i, u) => T[u].status = "erased"
      BY <1>6, <2>1 DEF Book
    <3>3. \A u \in Turn : T[u].status = "erased" => T2[u].status = "erased"
      OBVIOUS
    <3>4. q[i].kind \in {"task_complete", "turn_aborted"} => q[i].turn # run2
      <4>1. CASE run2 = 0
        <5>1. p[i].turn = 0 => p[i].kind = "thread_rolled_back"
          BY <1>1, <2>1 DEF Rollout
        <5> QED
          BY <3>1, <4>1, <5>1
      <4>2. CASE run2 = t /\ T[t].status = "none"
        BY <1>3, <3>1, <4>2
      <4> QED
        BY <4>1, <4>2
    <3> QED
      BY <1>7, <3>1, <3>2, <3>3, <3>4
  <2>2. CASE i = Len(p) + 1
    <3>1. l.kind \in {"task_complete", "turn_aborted"} => l.turn # run2
      <4>1. l.turn = 0 => l.kind = "thread_rolled_back"
        BY <1>2, <1>4, <2>2 DEF Rollout
      <4> QED
        BY <4>1
    <3> QED
      BY <1>2, <1>5, <2>2, <3>1
  <2> QED
    BY <1>2, <2>1, <2>2
<1>9. ASSUME NEW u \in Turn
      PROVE  /\ T2[u].status # "none" =>
                  \E i \in DOMAIN q : q[i].kind = "task_started" /\ q[i].turn = u
             /\ T2[u].status = "erased" => \E i \in DOMAIN q : TakesBack(q, i, u)
  <2>1. CASE T[u].status = "none" /\ T2[u].status # "none"
    <3>1. u = t /\ Len(p) + 1 \in DOMAIN q /\ q[Len(p) + 1].kind = "task_started" /\ l.turn = t
      BY <1>1, <1>2, <2>1
    <3> QED
      BY <1>2, <1>5, <3>1
  <2>2. CASE T[u].status # "none" \/ T2[u].status = "none"
    <3>1. T2[u].status # "none" => \E i \in DOMAIN p : p[i].kind = "task_started" /\ p[i].turn = u
      BY <2>2 DEF Book
    <3>2. T[u].status = "erased" => \E i \in DOMAIN p : TakesBack(p, i, u)
      BY DEF Book
    <3>3. T2[u].status = "erased" => T[u].status = "erased" \/ u = t
      OBVIOUS
    <3>4. Len(p) + 1 \in DOMAIN q
      BY <1>1, <1>2
    <3> QED
      BY <1>2, <1>5, <1>6, <3>1, <3>2, <3>3, <3>4
  <2> QED
    BY <2>1, <2>2
<1>10. ASSUME NEW u \in Turn, T2[u].status \notin {"none", "erased"},
              \A v \in Turn : T2[v].status # "none" => v <= u
       PROVE  \E m \in DOMAIN q : MarkedBy(q, m, Len(q) + 1)
  <2>1. u = t
    <3>1. t <= u /\ u \in Nat
      BY <1>10, TurnNumbers
    <3>2. u # t => u <= t
      BY <1>10
    <3> QED
      BY <1>3, <3>1, <3>2
  <2>2. l.kind \in Lifecycle
    BY <1>10, <2>1
  <2>3. Len(p) + 1 \in DOMAIN q /\ Len(p) + 1 < Len(q) + 1
    BY <1>1, <1>2
  <2>4. \A k \in DOMAIN q : ~(Len(p) + 1 < k /\ k < Len(q) + 1)
    BY <1>1, <1>2
  <2> QED
    BY <1>2, <2>2, <2>3, <2>4 DEF MarkedBy
<1> QED
  BY <1>4, <1>8, <1>9, <1>10 DEF Book, q

\* The last marker is about the last turn, unless that is taken back.
LEMMA LastMarker ==
  ASSUME NEW p, NEW T, NEW run, Book(p, T, run), NEW t \in Turn,
         T[t].status \notin {"none", "erased"}, \A u \in Turn : T[u].status # "none" => u <= t
  PROVE  \E m \in DOMAIN p : /\ MarkedBy(p, m, Len(p) + 1) /\ p[m].turn = t
                             /\ \A n : MarkedBy(p, n, Len(p) + 1) => n = m
<1>1. /\ Rollout(p) /\ p \in Seq(RolloutLine) /\ Len(p) \in Nat /\ DOMAIN p = 1..Len(p)
      /\ \A i \in DOMAIN p : p[i].turn \in Nat /\ (p[i].turn # 0 => p[i].turn \in Turn)
  BY BookFields
<1>2. PICK m \in DOMAIN p : MarkedBy(p, m, Len(p) + 1)
  BY DEF Book
<1>3. PICK j \in DOMAIN p : p[j].kind = "task_started" /\ p[j].turn = t
  BY DEF Book
<1>4. p[m].kind \in Lifecycle /\ \A k \in DOMAIN p : m < k => p[k].kind \notin Marker
  BY <1>1, <1>2 DEF MarkedBy
<1>5. "task_started" \in Marker /\ "thread_rolled_back" \notin Lifecycle /\ Lifecycle \subseteq Marker
  BY DEF Marker, Lifecycle
<1>6. j <= m
  BY <1>1, <1>3, <1>4, <1>5
<1>7. p[m].turn = t
  <2>1. CASE j = m
    BY <1>3, <2>1
  <2>2. CASE j < m
    <3>1. p[m].kind # "thread_rolled_back"
      BY <1>4, <1>5
    <3>2. t <= p[m].turn
      BY <1>1, <1>3, <2>2, <3>1 DEF Rollout
    <3>3. p[m].turn # 0 /\ t \in Nat
      BY <1>1, <3>1, TurnNumbers DEF Rollout
    <3>4. p[m].turn \in Turn /\ p[m].turn <= t
      BY <1>1, <3>3 DEF Book
    <3> QED
      BY <1>1, <3>2, <3>4, TurnNumbers
  <2> QED
    BY <1>1, <1>6, <2>1, <2>2
<1>8. ASSUME NEW n, MarkedBy(p, n, Len(p) + 1) PROVE n = m
  <2>1. n \in DOMAIN p /\ p[n].kind \in Marker /\ \A k \in DOMAIN p : n < k => p[k].kind \notin Marker
    BY <1>1, <1>5, <1>8 DEF MarkedBy
  <2>2. ~(n < m) /\ ~(m < n)
    BY <1>4, <1>5, <2>1
  <2> QED
    BY <1>1, <2>1, <2>2
<1> QED
  BY <1>2, <1>7, <1>8

-----------------------------------------------------------------------------
(* What Codex does to the turns and to the rollout                         *)

LEMMA BeginTurns ==
  ASSUME TurnsInv, NEW t \in Turn, NEW by \in By, NEW text \in Text, BeginTurn(t, by, text)
  PROVE  /\ TurnsInv' /\ running = 0 /\ turns[t].status = "none" /\ turns'[t].status = "running"
         /\ \A u \in Turn : u # t => turns'[u] = turns[u]
         /\ \A u \in Begun : u < t
<1> DEFINE r == [by |-> by, text |-> text, status |-> "running", replied |-> FALSE]
<1>1. /\ running = 0 /\ running' = t /\ turns[t].status = "none"
      /\ turns' = [turns EXCEPT ![t] = r] /\ \A u \in 1..(t - 1) : u \in Begun
  BY DEF BeginTurn
<1>2. /\ turns \in [Turn -> SomeTurn]
      /\ \A u \in Turn : turns[u].status = "running" <=> running = u
      /\ \A u \in Begun : turns[u].by \in {"bridge", "desktop"} /\ turns[u].text \in Text
      /\ \A u \in Turn \ Begun : ~turns[u].replied
      /\ \A u \in Begun, v \in Turn : v < u => v \in Begun
  BY DEF TurnsInv
<1>3. by \in {"bridge", "desktop"} /\ r \in SomeTurn
  BY TimelineAssumption DEF SomeTurn
<1>4. /\ r.by = by /\ r.text = text /\ r.status = "running" /\ r.replied = FALSE
  OBVIOUS
<1> HIDE DEF r
<1>5. turns' \in [Turn -> SomeTurn] /\ turns'[t] = r /\ \A u \in Turn : u # t => turns'[u] = turns[u]
  BY <1>1, <1>2, <1>3
<1>6. Begun' = Begun \cup {t}
  BY <1>4, <1>5 DEF Begun
<1>7. \A u \in Turn : u \in Nat /\ u # 0 /\ (u < t => u \in 1..(t - 1))
  BY TurnNumbers DEF Turn
<1>8. \A u \in Begun : u \in Turn /\ u < t
  <2> TAKE u \in Begun
  <2>1. u \in Turn /\ u # t
    BY <1>1 DEF Begun
  <2>2. ~(t < u)
    <3>1. t \notin Begun
      BY <1>1 DEF Begun
    <3> QED
      BY <1>2, <3>1
  <2> QED
    BY <1>7, <2>1, <2>2
<1>9. \A u \in Begun', v \in Turn : v < u => v \in Begun'
  BY <1>1, <1>2, <1>6, <1>7
<1>10. \A u \in Turn : turns'[u].status = "running" <=> running' = u
  <2> TAKE u \in Turn
  <2>1. CASE u = t
    BY <1>1, <1>4, <1>5, <2>1
  <2>2. CASE u # t
    BY <1>1, <1>2, <1>5, <1>7, <2>2
  <2> QED
    BY <2>1, <2>2
<1>11. running' # 0 => \A u \in Begun' : u <= running'
  BY <1>1, <1>6, <1>7, <1>8
<1>12. \A u \in Begun' : turns'[u].by \in {"bridge", "desktop"} /\ turns'[u].text \in Text
  <2> TAKE u \in Begun'
  <2>1. CASE u = t
    BY <1>3, <1>4, <1>5, <2>1
  <2>2. CASE u # t
    BY <1>2, <1>5, <1>6, <1>8, <2>2
  <2> QED
    BY <2>1, <2>2
<1>13. \A u \in Turn \ Begun' : ~turns'[u].replied
  BY <1>2, <1>5, <1>6
<1> QED
  BY <1>1, <1>4, <1>5, <1>8, <1>9, <1>10, <1>11, <1>12, <1>13 DEF TurnsInv

\* A turn that has begun goes on, ends or is taken back.
LEMMA TurnGoesOn ==
  ASSUME TurnsInv, NEW t \in Begun, NEW r \in SomeTurn,
         turns' = [turns EXCEPT ![t] = r], r.by = turns[t].by, r.text = turns[t].text,
         r.status # "none", running' \in {0, running},
         r.status = "running" <=> running' = t,
         running' = 0 => running \in {0, t}
  PROVE  /\ TurnsInv' /\ Begun' = Begun /\ t \in Turn /\ turns'[t] = r
         /\ \A u \in Turn : u # t => turns'[u] = turns[u]
<1>1. /\ turns \in [Turn -> SomeTurn] /\ running \in {0} \cup Turn
      /\ \A u \in Turn : turns[u].status = "running" <=> running = u
      /\ \A u \in Begun : turns[u].by \in {"bridge", "desktop"} /\ turns[u].text \in Text
      /\ \A u \in Turn \ Begun : ~turns[u].replied
      /\ \A u \in Begun, v \in Turn : v < u => v \in Begun
      /\ running # 0 => \A u \in Begun : u <= running
  BY DEF TurnsInv
<1>2. t \in Turn
  BY DEF Begun
<1>3. turns' \in [Turn -> SomeTurn] /\ turns'[t] = r /\ \A u \in Turn : u # t => turns'[u] = turns[u]
  BY <1>1, <1>2
<1>4. Begun' = Begun
  BY <1>3 DEF Begun
<1>5. \A u \in Turn : turns'[u].status = "running" <=> running' = u
  <2> TAKE u \in Turn
  <2>1. CASE u = t
    BY <1>3, <2>1
  <2>2. CASE u # t
    BY <1>1, <1>3, <2>2, TurnNumbers
  <2> QED
    BY <2>1, <2>2
<1>6. \A u \in Begun : turns'[u].by \in {"bridge", "desktop"} /\ turns'[u].text \in Text
  <2> TAKE u \in Begun
  <2>1. CASE u = t
    BY <1>1, <1>3, <2>1
  <2>2. CASE u # t
    BY <1>1, <1>3, <2>2 DEF Begun
  <2> QED
    BY <2>1, <2>2
<1>7. \A u \in Turn \ Begun : ~turns'[u].replied
  BY <1>1, <1>3
<1> QED
  BY <1>1, <1>2, <1>3, <1>4, <1>5, <1>6, <1>7 DEF TurnsInv

LEMMA KindsKnown ==
  /\ Kind = {"task_started", "task_complete", "turn_aborted", "thread_rolled_back", "tool_call",
             "user_event", "user_item", "agent_event", "agent_item"}
  /\ Marker = {"task_started", "task_complete", "turn_aborted", "thread_rolled_back"}
  /\ Turn \subseteq 0..MaxTurn
BY TimelineAssumption DEF Kind, Marker, Lifecycle, Said, Turn

LEMMA LinesGrow ==
  ASSUME NEW p \in Seq(RolloutLine), NEW a \in RolloutLine, NEW b \in RolloutLine, NEW c \in RolloutLine
  PROVE  /\ p \o <<a>> = Append(p, a)
         /\ p \o <<a, b>> = Append(Append(p, a), b)
         /\ p \o <<a, b, c>> = Append(Append(Append(p, a), b), c)
OBVIOUS

LEMMA BeginLines ==
  ASSUME TurnsInv, LinesInv, NEW t \in Turn, NEW by \in By, NEW text \in Text, BeginTurn(t, by, text)
  PROVE  LinesInv'
<1> DEFINE a == Line("task_started", t, "")
           b == Line("user_item", t, text)
           c == Line("user_event", t, text)
           p == Append(lines, a)
<1>1. /\ running = 0 /\ turns[t].status = "none" /\ turns'[t].status = "running"
      /\ \A u \in Turn : u # t => turns'[u] = turns[u]
      /\ \A u \in Begun : u < t
  BY BeginTurns
<1>2. lines' = lines \o <<a, b, c>> /\ running' = t /\ written' = written
  BY DEF BeginTurn, Produce
<1>3. Book(lines, turns, running) /\ lines \in Seq(RolloutLine)
  BY BookFields DEF LinesInv
<1>4. /\ a \in RolloutLine /\ b \in RolloutLine /\ c \in RolloutLine
      /\ a.kind = "task_started" /\ b.kind = "user_item" /\ c.kind = "user_event"
      /\ a.turn = t /\ b.turn = t /\ c.turn = t
  <2>1. "task_started" \in Kind /\ "user_item" \in Kind /\ "user_event" \in Kind
    BY KindsKnown
  <2> QED
    BY <2>1, KindsKnown DEF Line, RolloutLine
<1> HIDE DEF a, b, c
<1>5. \A u \in Turn : u \in Nat /\ u # 0
  BY TurnNumbers
<1>6. \A u \in Turn : turns[u].status # "none" => u < t
  BY <1>1 DEF Begun
<1>7. Rollout(p)
  <2>1. \A j \in DOMAIN lines : lines[j].turn <= t /\ lines[j].turn # t
    <3> TAKE j \in DOMAIN lines
    <3>1. lines[j].turn # 0 => turns[lines[j].turn].status # "none"
      BY <1>3 DEF Book
    <3>2. lines[j].turn # 0 => lines[j].turn \in Turn
      BY <1>3, BookFields
    <3> QED
      BY <1>5, <1>6, <3>1, <3>2
  <2> QED
    BY <1>3, <1>4, <1>5, <2>1, RolloutGrows DEF Book
<1>8. \A u \in Turn : ~TakesBack(p, Len(lines) + 1, u)
  BY <1>3, <1>4, AppendIsLonger DEF TakesBack
<1>9. Book(p, turns', t)
  <2>1. \A u \in Turn : turns[u].status # "none" => u <= t
    BY <1>5, <1>6
  <2>2. "task_started" \in Lifecycle /\ "task_started" \in Marker
    BY DEF Lifecycle, Marker
  <2> QED
    BY <1>1, <1>3, <1>4, <1>7, <1>8, <2>1, <2>2, BookMarker
<1> HIDE DEF p
<1>10. \A u \in Turn : turns'[u].status # "none" => u <= t
  BY <1>1, <1>5, <1>6
<1>11. Book(Append(p, b), turns', t)
  BY <1>1, <1>4, <1>9, <1>10, BookLine, KindsKnown
<1>12. Book(Append(Append(p, b), c), turns', t)
  BY <1>1, <1>4, <1>10, <1>11, BookLine, KindsKnown
<1>13. lines' = Append(Append(p, b), c)
  BY <1>2, <1>3, <1>4, LinesGrow DEF p
<1>14. written' \in 0..Len(lines')
  <2>1. written \in 0..Len(lines)
    BY DEF LinesInv
  <2>2. Len(lines') = Len(lines) + 3 /\ Len(lines) \in Nat
    BY <1>2, <1>3, <1>4
  <2> QED
    BY <1>2, <2>1, <2>2
<1> QED
  BY <1>2, <1>12, <1>13, <1>14 DEF LinesInv

\* Lines that are no markers come from the last turn only.
LEMMA TurnSpeaks ==
  ASSUME TurnsInv, LinesInv, NEW t \in Turn, running = t, running' = t,
         TurnsInv', Begun' = Begun, \A u \in Turn : turns'[u].status = turns[u].status,
         NEW a \in RolloutLine, NEW b \in RolloutLine,
         a.kind \notin Marker, b.kind \notin Marker, a.turn = t, b.turn = t,
         lines' \in {lines \o <<a>>, lines \o <<a, b>>}, written' = written
  PROVE  LinesInv'
<1>1. Book(lines, turns, running) /\ lines \in Seq(RolloutLine) /\ written \in 0..Len(lines)
      /\ Len(lines) \in Nat
  BY BookFields DEF LinesInv
<1>2. Book(lines, turns', t)
  <2>1. \A i \in DOMAIN lines : lines[i].turn # 0 => lines[i].turn \in Turn
    BY <1>1, BookFields
  <2>2. \A i \in DOMAIN lines : lines[i].turn # 0 => turns'[lines[i].turn].status # "none"
    BY <1>1, <2>1 DEF Book
  <2> QED
    BY <1>1, <2>2 DEF Book
<1>3. turns'[t].status # "none" /\ \A u \in Turn : turns'[u].status # "none" => u <= t
  <2>1. t # 0 /\ turns[t].status = "running"
    BY TurnNumbers DEF TurnsInv
  <2>2. \A u \in Begun : u <= t
    BY <2>1 DEF TurnsInv
  <2> QED
    BY <2>1, <2>2 DEF Begun
<1>4. Book(Append(lines, a), turns', t)
  BY <1>2, <1>3, BookLine
<1>5. Book(Append(Append(lines, a), b), turns', t)
  BY <1>3, <1>4, BookLine
<1>6. /\ lines' \in {Append(lines, a), Append(Append(lines, a), b)}
      /\ written' \in 0..Len(lines')
  BY <1>1
<1> QED
  BY <1>4, <1>5, <1>6 DEF LinesInv

LEMMA UseToolKeeps ==
  ASSUME TurnsInv, LinesInv, NEW t \in Turn, UseTool(t)
  PROVE  TurnsInv' /\ LinesInv' /\ Begun' = Begun
<1>1. /\ running = t /\ UNCHANGED <<turns, running, written>>
      /\ lines' = lines \o <<Line("tool_call", t, "")>>
  BY DEF UseTool, Produce
<1>2. TurnsInv' /\ Begun' = Begun
  BY <1>1 DEF TurnsInv, Begun
<1>3. /\ Line("tool_call", t, "") \in RolloutLine /\ Line("tool_call", t, "").kind \notin Marker
      /\ Line("tool_call", t, "").turn = t
  <2>1. "tool_call" \in Kind /\ "tool_call" \notin Marker
    BY KindsKnown
  <2> QED
    BY <2>1, KindsKnown DEF Line, RolloutLine
<1>4. LinesInv'
  BY <1>1, <1>2, <1>3, TurnSpeaks
<1> QED
  BY <1>2, <1>4

LEMMA ReplyKeeps ==
  ASSUME TurnsInv, LinesInv, NEW t \in Turn, Reply(t)
  PROVE  TurnsInv' /\ LinesInv' /\ Begun' = Begun
<1> DEFINE a == Line("agent_event", t, "reply")
           b == Line("agent_item", t, "reply")
           r == [turns[t] EXCEPT !.replied = TRUE]
<1>1. /\ running = t /\ UNCHANGED <<running, written>> /\ lines' = lines \o <<a, b>>
      /\ turns' = [turns EXCEPT ![t] = r]
  BY DEF Reply, Produce
<1>2. turns[t] \in SomeTurn /\ turns[t].status = "running" /\ t \in Begun
  BY <1>1 DEF TurnsInv, Begun
<1>3. /\ r \in SomeTurn /\ r.by = turns[t].by /\ r.text = turns[t].text
      /\ r.status = "running"
  BY <1>2 DEF SomeTurn
<1>4. /\ a \in RolloutLine /\ b \in RolloutLine /\ a.kind \notin Marker /\ b.kind \notin Marker
      /\ a.turn = t /\ b.turn = t
  <2>1. /\ "agent_event" \in Kind /\ "agent_item" \in Kind
        /\ "agent_event" \notin Marker /\ "agent_item" \notin Marker
    BY KindsKnown
  <2> QED
    BY <2>1, KindsKnown DEF Line, RolloutLine
<1> HIDE DEF a, b, r
<1>5. /\ TurnsInv' /\ Begun' = Begun /\ turns'[t] = r
      /\ \A u \in Turn : u # t => turns'[u] = turns[u]
  BY <1>1, <1>2, <1>3, TurnNumbers, TurnGoesOn
<1>6. \A u \in Turn : turns'[u].status = turns[u].status
  BY <1>2, <1>3, <1>5
<1>7. LinesInv'
  BY <1>1, <1>4, <1>5, <1>6, TurnSpeaks
<1> QED
  BY <1>5, <1>7

LEMMA FinishKeeps ==
  ASSUME TurnsInv, LinesInv, NEW t \in Turn, NEW how \in Ends, Finish(t, how)
  PROVE  /\ TurnsInv' /\ LinesInv' /\ Begun' = Begun
         /\ \A u \in Turn : u # t => turns'[u] = turns[u]
<1> DEFINE kind == IF how = "interrupted" THEN "turn_aborted" ELSE "task_complete"
           l == Line(kind, t, "")
           r == [turns[t] EXCEPT !.status = how]
<1>1. /\ running = t /\ running' = 0 /\ written' = written /\ lines' = lines \o <<l>>
      /\ turns' = [turns EXCEPT ![t] = r]
  BY DEF Finish, Produce
<1>2. /\ turns[t] \in SomeTurn /\ turns[t].status = "running" /\ t \in Begun
      /\ \A u \in Begun : u <= t
  BY <1>1, TurnNumbers DEF TurnsInv, Begun
<1>3. how \in Ended
  BY TimelineAssumption DEF Ended
<1>4. r \in SomeTurn /\ r.by = turns[t].by /\ r.text = turns[t].text /\ r.status = how
  BY <1>2, <1>3 DEF SomeTurn
<1>5. kind \in {"task_complete", "turn_aborted"}
  OBVIOUS
<1> HIDE DEF kind
<1>6. l \in RolloutLine /\ l.kind = kind /\ l.turn = t
  <2>1. kind \in Kind
    BY <1>5, KindsKnown
  <2> QED
    BY <2>1, KindsKnown DEF Line, RolloutLine
<1> HIDE DEF l, r
<1>7. /\ TurnsInv' /\ Begun' = Begun /\ turns'[t] = r
      /\ \A u \in Turn : u # t => turns'[u] = turns[u]
  BY <1>1, <1>2, <1>3, <1>4, TurnNumbers, TurnGoesOn DEF Ended
<1>8. Book(lines, turns, running) /\ lines \in Seq(RolloutLine) /\ written \in 0..Len(lines)
      /\ Len(lines) \in Nat
  BY BookFields DEF LinesInv
<1>9. \A u \in Turn : turns[u].status # "none" => u <= t
  BY <1>2 DEF Begun
<1>10. Rollout(Append(lines, l))
  <2>1. \A j \in DOMAIN lines : lines[j].turn <= t
    <3> TAKE j \in DOMAIN lines
    <3>1. lines[j].turn # 0 => turns[lines[j].turn].status # "none"
      BY <1>8 DEF Book
    <3>2. lines[j].turn # 0 => lines[j].turn \in Turn
      BY <1>8, BookFields
    <3> QED
      BY <1>9, <3>1, <3>2, TurnNumbers
  <2>2. \E j \in DOMAIN lines : lines[j].kind = "task_started" /\ lines[j].turn = t
    BY <1>2, <1>8 DEF Book
  <2> QED
    BY <1>5, <1>6, <1>8, <2>1, <2>2, RolloutGrows, TurnNumbers DEF Book
<1>11. \A u \in Turn : ~TakesBack(Append(lines, l), Len(lines) + 1, u)
  BY <1>5, <1>6, <1>8, AppendIsLonger DEF TakesBack
<1>12. Book(Append(lines, l), turns', 0)
  <2>1. kind \in Marker /\ kind \in Lifecycle
    BY <1>5 DEF Marker, Lifecycle
  <2>2. turns'[t].status \notin {"none", "erased"}
    BY <1>3, <1>4, <1>7 DEF Ended
  <2> QED
    BY <1>2, <1>5, <1>6, <1>7, <1>8, <1>9, <1>10, <1>11, <2>1, <2>2, BookMarker
<1>13. lines' = Append(lines, l) /\ written' \in 0..Len(lines')
  BY <1>1, <1>6, <1>8
<1>14. LinesInv'
  BY <1>1, <1>12, <1>13 DEF LinesInv
<1> QED
  BY <1>7, <1>14

LEMMA RollBackKeeps ==
  ASSUME TurnsInv, LinesInv, NEW t \in Turn, RollBack(t)
  PROVE  /\ TurnsInv' /\ LinesInv' /\ Begun' = Begun
         /\ \A u \in Turn : u # t => turns'[u] = turns[u]
<1> DEFINE l == Line("thread_rolled_back", 0, "")
           r == [turns[t] EXCEPT !.status = "erased"]
<1>1. /\ running = 0 /\ running' = 0 /\ written' = written /\ lines' = lines \o <<l>>
      /\ turns' = [turns EXCEPT ![t] = r] /\ turns[t].status \in Ended
      /\ \A u \in Begun : u <= t
  BY DEF RollBack, Produce
<1>2. turns[t] \in SomeTurn /\ t \in Begun /\ turns[t].status \notin {"none", "erased"}
  BY <1>1 DEF TurnsInv, Begun, Ended
<1>3. r \in SomeTurn /\ r.by = turns[t].by /\ r.text = turns[t].text /\ r.status = "erased"
  BY <1>2 DEF SomeTurn
<1>4. l \in RolloutLine /\ l.kind = "thread_rolled_back" /\ l.turn = 0
  BY KindsKnown, TurnNumbers DEF Line, RolloutLine
<1> HIDE DEF l, r
<1>5. /\ TurnsInv' /\ Begun' = Begun /\ turns'[t] = r
      /\ \A u \in Turn : u # t => turns'[u] = turns[u]
  BY <1>1, <1>2, <1>3, TurnNumbers, TurnGoesOn
<1>6. Book(lines, turns, running) /\ lines \in Seq(RolloutLine) /\ written \in 0..Len(lines)
      /\ Len(lines) \in Nat
  BY BookFields DEF LinesInv
<1>7. \A u \in Turn : turns[u].status # "none" => u <= t
  BY <1>1 DEF Begun
<1>8. PICK m \in DOMAIN lines : /\ MarkedBy(lines, m, Len(lines) + 1) /\ lines[m].turn = t
                                /\ \A n : MarkedBy(lines, n, Len(lines) + 1) => n = m
  BY <1>2, <1>6, <1>7, LastMarker
<1>9. Rollout(Append(lines, l))
  BY <1>4, <1>6, <1>8, RolloutGrows DEF Book
<1>10. \A u \in Turn : TakesBack(Append(lines, l), Len(lines) + 1, u) <=> u = t
  <2> DEFINE q == Append(lines, l)
  <2>1. /\ Prefix(lines, q) /\ q[Len(lines) + 1] = l /\ Len(lines) + 1 \in DOMAIN q
        /\ \A i \in DOMAIN lines : q[i] = lines[i] /\ i \in DOMAIN q
    BY <1>4, <1>6, AppendIsLonger
  <2> HIDE DEF q
  <2>2. Len(lines) + 1 \in 1..(Len(lines) + 1)
    BY <1>6
  <2>3. \A n : MarkedBy(lines, n, Len(lines) + 1) <=> MarkedBy(q, n, Len(lines) + 1)
    BY <2>1, <2>2, PrefixMarked
  <2>4. \A u : TakesBack(q, Len(lines) + 1, u) <=> u = t
    BY <1>4, <1>8, <2>1, <2>3 DEF TakesBack
  <2> QED
    BY <2>4 DEF q
<1>11. Book(Append(lines, l), turns', 0)
  <2>1. "thread_rolled_back" \in Marker
    BY DEF Marker
  <2>2. turns'[t].status = "erased"
    BY <1>3, <1>5
  <2> QED
    BY <1>2, <1>4, <1>5, <1>6, <1>7, <1>9, <1>10, <2>1, <2>2, BookMarker
<1>12. lines' = Append(lines, l) /\ written' \in 0..Len(lines')
  BY <1>1, <1>4, <1>6
<1>13. LinesInv'
  BY <1>1, <1>11, <1>12 DEF LinesInv
<1> QED
  BY <1>5, <1>13

\* The turn of an app-server that exits stops without a line.
LEMMA ExitKeepsLines ==
  ASSUME TurnsInv, LinesInv, Exit
  PROVE  /\ TurnsInv' /\ LinesInv' /\ Begun' = Begun
         /\ \A u \in Turn : turns'[u].by = turns[u].by /\ turns'[u].text = turns[u].text
         /\ running' # 0 => running' = running /\ turns[running].by # "bridge"
<1>1. lines' = lines /\ written' = written
  BY DEF Exit
<1>2. Book(lines, turns, running) /\ written \in 0..Len(lines)
      /\ \A i \in DOMAIN lines : lines[i].turn \in Nat /\ (lines[i].turn # 0 => lines[i].turn \in Turn)
  BY BookFields DEF LinesInv
<1>3. CASE running # 0 /\ turns[running].by = "bridge"
  <2> DEFINE t == running
             r == [turns[t] EXCEPT !.status = "interrupted"]
  <2>1. running' = 0 /\ turns' = [turns EXCEPT ![t] = r]
    BY <1>3 DEF Exit
  <2>2. t \in Turn /\ turns[t] \in SomeTurn /\ turns[t].status = "running" /\ t \in Begun
    BY <1>3 DEF TurnsInv, Begun
  <2>3. r \in SomeTurn /\ r.by = turns[t].by /\ r.text = turns[t].text /\ r.status = "interrupted"
    BY <2>2 DEF SomeTurn, Ended
  <2> HIDE DEF r
  <2>4. /\ TurnsInv' /\ Begun' = Begun /\ turns'[t] = r
        /\ \A u \in Turn : u # t => turns'[u] = turns[u]
    BY <2>1, <2>2, <2>3, TurnNumbers, TurnGoesOn
  <2>5. \A u \in Turn : /\ turns'[u].by = turns[u].by /\ turns'[u].text = turns[u].text
                        /\ turns'[u].status = "erased" <=> turns[u].status = "erased"
                        /\ turns'[u].status = "none" <=> turns[u].status = "none"
    <3> TAKE u \in Turn
    <3>1. CASE u = t
      BY <2>2, <2>3, <2>4, <3>1
    <3>2. CASE u # t
      BY <2>4, <3>2
    <3> QED
      BY <3>1, <3>2
  <2>6. Book(lines, turns', 0)
    <3>1. \A i \in DOMAIN lines :
            lines[i].kind \in {"task_complete", "turn_aborted"} => lines[i].turn # 0
      BY <1>2 DEF Book, Rollout
    <3>2. \A i \in DOMAIN lines : lines[i].turn # 0 => turns'[lines[i].turn].status # "none"
      BY <1>2, <2>5 DEF Book
    <3> QED
      BY <1>2, <2>5, <3>1, <3>2 DEF Book
  <2> QED
    BY <1>1, <1>2, <2>1, <2>4, <2>5, <2>6 DEF LinesInv
<1>4. CASE ~(running # 0 /\ turns[running].by = "bridge")
  <2>1. running' = running /\ turns' = turns
    BY <1>4 DEF Exit
  <2>2. TurnsInv' /\ Begun' = Begun
    BY <2>1 DEF TurnsInv, Begun
  <2> QED
    BY <1>1, <1>2, <1>4, <2>1, <2>2 DEF LinesInv
<1> QED
  BY <1>3, <1>4

\* What no step undoes.
Onward ==
  /\ Begun \subseteq Begun'
  /\ \A u \in Begun : /\ turns'[u].by = turns[u].by /\ turns'[u].text = turns[u].text
                      /\ u = running' => u = running
  /\ Prefix(lines, lines')

LEMMA LinesMore ==
  ASSUME NEW p \in Seq(RolloutLine), NEW q \in Seq(RolloutLine)
  PROVE  Prefix(p, p \o q)
BY DEF Prefix

LEMMA LinesListed ==
  ASSUME NEW a \in RolloutLine, NEW b \in RolloutLine, NEW c \in RolloutLine
  PROVE  /\ <<a>> \in Seq(RolloutLine) /\ <<a, b>> \in Seq(RolloutLine)
         /\ <<a, b, c>> \in Seq(RolloutLine)
OBVIOUS

LEMMA PlainTurns ==
  ASSUME TurnsInv, NEW t \in Turn, NEW s,
         turns' \in {[turns EXCEPT ![t].status = s], [turns EXCEPT ![t].replied = s]}
  PROVE  \A u \in Turn : turns'[u].by = turns[u].by /\ turns'[u].text = turns[u].text
<1>1. turns \in [Turn -> SomeTurn]
  BY DEF TurnsInv
<1> TAKE u \in Turn
<1>2. CASE u = t
  <2>1. turns[t] \in SomeTurn
    BY <1>1
  <2>2. turns'[t] \in {[turns[t] EXCEPT !.status = s], [turns[t] EXCEPT !.replied = s]}
    BY <1>1
  <2> QED
    BY <1>2, <2>1, <2>2 DEF SomeTurn
<1>3. CASE u # t
  BY <1>1, <1>3
<1> QED
  BY <1>2, <1>3

LEMMA CodexKeeps ==
  ASSUME TurnsInv, LinesInv, Codex
  PROVE  TurnsInv' /\ LinesInv' /\ Onward
<1>1. lines \in Seq(RolloutLine) /\ Len(lines) \in Nat
  BY BookFields DEF LinesInv
<1>2. ASSUME LinesInv', NEW more, lines' = lines \o more, more \in Seq(RolloutLine)
      PROVE  Prefix(lines, lines')
  BY <1>1, <1>2, LinesMore
<1>3. ASSUME NEW t \in Turn, NEW by \in By, NEW text \in Text, BeginTurn(t, by, text)
      PROVE  TurnsInv' /\ LinesInv' /\ Onward
  <2>1. TurnsInv' /\ LinesInv'
    BY <1>3, BeginTurns, BeginLines
  <2>2. /\ running = 0 /\ turns[t].status = "none" /\ turns'[t].status = "running"
        /\ \A u \in Turn : u # t => turns'[u] = turns[u]
    BY <1>3, BeginTurns
  <2>3. \A u \in Begun : u # t /\ u \in Turn
    BY <2>2 DEF Begun
  <2>4. /\ lines' = lines \o <<Line("task_started", t, ""), Line("user_item", t, text),
                               Line("user_event", t, text)>>
        /\ running' = t
    BY <1>3 DEF BeginTurn, Produce
  <2>5. /\ Line("task_started", t, "") \in RolloutLine /\ Line("user_item", t, text) \in RolloutLine
        /\ Line("user_event", t, text) \in RolloutLine
    <3>1. "task_started" \in Kind /\ "user_item" \in Kind /\ "user_event" \in Kind
      BY KindsKnown
    <3> QED
      BY <3>1, KindsKnown DEF Line, RolloutLine
  <2>6. Prefix(lines, lines')
    <3>1. <<Line("task_started", t, ""), Line("user_item", t, text), Line("user_event", t, text)>>
            \in Seq(RolloutLine)
      BY <2>5, LinesListed
    <3> QED
      BY <1>1, <2>4, <3>1, LinesMore
  <2>7. Begun \subseteq Begun'
    BY <2>2, <2>3 DEF Begun
  <2> QED
    BY <2>1, <2>2, <2>3, <2>4, <2>6, <2>7 DEF Onward
<1>4. ASSUME NEW t \in Turn, UseTool(t)
      PROVE  TurnsInv' /\ LinesInv' /\ Onward
  <2>1. TurnsInv' /\ LinesInv' /\ Begun' = Begun
    BY <1>4, UseToolKeeps
  <2>2. /\ UNCHANGED <<turns, running>> /\ lines' = lines \o <<Line("tool_call", t, "")>>
    BY <1>4 DEF UseTool, Produce
  <2>3. Line("tool_call", t, "") \in RolloutLine
    <3>1. "tool_call" \in Kind
      BY KindsKnown
    <3> QED
      BY <3>1, KindsKnown DEF Line, RolloutLine
  <2>4. Prefix(lines, lines')
    <3>1. <<Line("tool_call", t, "")>> \in Seq(RolloutLine)
      BY <2>3, LinesListed
    <3> QED
      BY <1>1, <2>2, <3>1, LinesMore
  <2> QED
    BY <2>1, <2>2, <2>4 DEF Onward
<1>5. ASSUME NEW t \in Turn, Reply(t)
      PROVE  TurnsInv' /\ LinesInv' /\ Onward
  <2>1. TurnsInv' /\ LinesInv' /\ Begun' = Begun
    BY <1>5, ReplyKeeps
  <2>2. /\ turns' = [turns EXCEPT ![t].replied = TRUE] /\ running' = running
        /\ lines' = lines \o <<Line("agent_event", t, "reply"), Line("agent_item", t, "reply")>>
    BY <1>5 DEF Reply, Produce
  <2>3. /\ Line("agent_event", t, "reply") \in RolloutLine
        /\ Line("agent_item", t, "reply") \in RolloutLine
    <3>1. "agent_event" \in Kind /\ "agent_item" \in Kind
      BY KindsKnown
    <3> QED
      BY <3>1, KindsKnown DEF Line, RolloutLine
  <2>4. Prefix(lines, lines')
    <3>1. <<Line("agent_event", t, "reply"), Line("agent_item", t, "reply")>> \in Seq(RolloutLine)
      BY <2>3, LinesListed
    <3> QED
      BY <1>1, <2>2, <3>1, LinesMore
  <2>5. \A u \in Turn : turns'[u].by = turns[u].by /\ turns'[u].text = turns[u].text
    BY <2>2, PlainTurns
  <2> QED
    BY <2>1, <2>2, <2>4, <2>5 DEF Onward, Begun
<1>6. ASSUME NEW t \in Turn, NEW how \in Ends, Finish(t, how)
      PROVE  TurnsInv' /\ LinesInv' /\ Onward
  <2>1. TurnsInv' /\ LinesInv' /\ Begun' = Begun
    BY <1>6, FinishKeeps
  <2> DEFINE kind == IF how = "interrupted" THEN "turn_aborted" ELSE "task_complete"
  <2>2. /\ turns' = [turns EXCEPT ![t].status = how] /\ running' = 0
        /\ lines' = lines \o <<Line(kind, t, "")>>
    BY <1>6 DEF Finish, Produce
  <2>3. Line(kind, t, "") \in RolloutLine
    <3>1. kind \in Kind
      BY KindsKnown
    <3> QED
      BY <3>1, KindsKnown DEF Line, RolloutLine
  <2>4. Prefix(lines, lines')
    <3>1. <<Line(kind, t, "")>> \in Seq(RolloutLine)
      BY <2>3, LinesListed
    <3> QED
      BY <1>1, <2>2, <3>1, LinesMore
  <2>5. \A u \in Turn : turns'[u].by = turns[u].by /\ turns'[u].text = turns[u].text
    <3>1. turns' \in {[turns EXCEPT ![t].status = how], [turns EXCEPT ![t].replied = how]}
      BY <2>2
    <3> QED
      BY <3>1, PlainTurns
  <2> QED
    BY <2>1, <2>2, <2>4, <2>5, TurnNumbers DEF Onward, Begun
<1>7. ASSUME NEW t \in Turn, RollBack(t)
      PROVE  TurnsInv' /\ LinesInv' /\ Onward
  <2>1. TurnsInv' /\ LinesInv' /\ Begun' = Begun
    BY <1>7, RollBackKeeps
  <2>2. /\ turns' = [turns EXCEPT ![t].status = "erased"] /\ running' = running
        /\ lines' = lines \o <<Line("thread_rolled_back", 0, "")>>
    BY <1>7 DEF RollBack, Produce
  <2>3. Line("thread_rolled_back", 0, "") \in RolloutLine
    <3>1. "thread_rolled_back" \in Kind
      BY KindsKnown
    <3> QED
      BY <3>1, KindsKnown, TurnNumbers DEF Line, RolloutLine
  <2>4. Prefix(lines, lines')
    <3>1. <<Line("thread_rolled_back", 0, "")>> \in Seq(RolloutLine)
      BY <2>3, LinesListed
    <3> QED
      BY <1>1, <2>2, <3>1, LinesMore
  <2>5. \A u \in Turn : turns'[u].by = turns[u].by /\ turns'[u].text = turns[u].text
    <3>1. turns' \in {[turns EXCEPT ![t].status = "erased"], [turns EXCEPT ![t].replied = "erased"]}
      BY <2>2
    <3> QED
      BY <3>1, PlainTurns
  <2> QED
    BY <2>1, <2>2, <2>4, <2>5 DEF Onward, Begun
<1> QED
  BY <1>3, <1>4, <1>5, <1>6, <1>7 DEF Codex

LEMMA RestKeeps ==
  ASSUME TurnsInv, LinesInv, [Next]_vars, ~Codex
  PROVE  TurnsInv' /\ LinesInv' /\ Onward
<1>1. Book(lines, turns, running) /\ lines \in Seq(RolloutLine) /\ Len(lines) \in Nat
  BY BookFields DEF LinesInv
<1>2. CASE Exit
  <2>1. /\ TurnsInv' /\ LinesInv' /\ Begun' = Begun
        /\ \A u \in Turn : turns'[u].by = turns[u].by /\ turns'[u].text = turns[u].text
        /\ running' # 0 => running' = running /\ turns[running].by # "bridge"
    BY <1>2, ExitKeepsLines
  <2>2. lines' = lines
    BY <1>2 DEF Exit
  <2>3. Prefix(lines, lines')
    BY <1>1, <2>2 DEF Prefix
  <2>4. \A u \in Begun : u \in Turn /\ u # 0
    BY TurnNumbers DEF Begun
  <2> QED
    BY <2>1, <2>3, <2>4 DEF Onward
<1>3. CASE ~Exit
  <2>1. UNCHANGED codexVars
    BY <1>3 DEF Next, vars, codexVars, Write, Notification, ThreadRead, ThreadFails, ReadThread, RolloutRead,
       Detail, Scan, Unknown, Accepted, Project, Poll, Take
  <2>2. UNCHANGED <<turns, running, lines>>
    BY <2>1 DEF codexVars
  <2>3. written' \in {written, Len(lines)}
    BY <1>3 DEF Next, vars, Write, Notification, ThreadRead, ThreadFails, ReadThread, RolloutRead,
       Detail, Scan, Unknown, Accepted, Project, Poll, Take
  <2>4. TurnsInv' /\ Begun' = Begun
    BY <2>2 DEF TurnsInv, Begun
  <2>5. LinesInv'
    BY <1>1, <2>2, <2>3 DEF LinesInv
  <2>6. Prefix(lines, lines')
    BY <1>1, <2>2 DEF Prefix
  <2> QED
    BY <2>2, <2>4, <2>5, <2>6 DEF Onward
<1> QED
  BY <1>2, <1>3

LEMMA HistoryKept ==
  ASSUME TurnsInv, LinesInv, [Next]_vars
  PROVE  TurnsInv' /\ LinesInv' /\ Onward
<1>1. CASE Codex
  BY <1>1, CodexKeeps
<1>2. CASE ~Codex
  BY <1>2, RestKeeps
<1> QED
  BY <1>1, <1>2

LEMMA HistoryBegins ==
  ASSUME Init
  PROVE  TurnsInv /\ LinesInv
<1>1. NoTurn \in SomeTurn /\ NoTurn.status = "none" /\ ~NoTurn.replied
  BY DEF NoTurn, SomeTurn
<1>2. turns = [t \in Turn |-> NoTurn] /\ running = 0 /\ lines = <<>> /\ written = 0
  BY DEF Init
<1>3. Begun = {} /\ \A t \in Turn : turns[t] = NoTurn
  BY <1>1, <1>2 DEF Begun
<1>4. TurnsInv
  BY <1>1, <1>2, <1>3, TurnNumbers DEF TurnsInv
<1>5. Rollout(lines) /\ DOMAIN lines = {} /\ Len(lines) = 0
  BY <1>2 DEF Rollout
<1>6. Book(lines, turns, running)
  BY <1>1, <1>3, <1>5 DEF Book
<1> QED
  BY <1>2, <1>4, <1>5, <1>6 DEF LinesInv

-----------------------------------------------------------------------------
(* How turns speak                                                         *)

\* The lines there are keep their place in the script.
LEMMA ScriptStays ==
  ASSUME NEW p, NEW q, Prefix(p, q), NEW T, NEW T2, NEW run, Book(p, T, run), Script(p, T),
         \A u \in Turn : T[u].status # "none" =>
           T2[u].text = T[u].text /\ (T[u].replied => T2[u].replied),
         \A j \in DOMAIN q : j \notin DOMAIN p /\ q[j].kind = "agent_event" =>
           ~T[q[j].turn].replied
  PROVE  \A i \in DOMAIN p : ScriptAt(q, T2, i)
<1>1. /\ DOMAIN p = 1..Len(p) /\ DOMAIN q = 1..Len(q) /\ Len(p) \in Nat /\ Len(q) \in Nat
      /\ Len(p) <= Len(q) /\ \A k \in 1..Len(p) : q[k] = p[k]
  BY DEF Prefix
<1>2. \A i \in DOMAIN p : i \in DOMAIN q /\ q[i] = p[i]
  BY <1>1
<1> TAKE i \in DOMAIN p
<1>3. ScriptAt(p, T, i)
  BY DEF Script
<1>4. p[i].turn # 0 => p[i].turn \in Turn /\ T[p[i].turn].status # "none"
  <2>1. p[i].turn # 0 => p[i].turn \in Turn
    BY BookFields
  <2> QED
    BY <2>1 DEF Book
<1>5. p[i].kind # "thread_rolled_back" => p[i].turn # 0
  BY DEF Book, Rollout
<1>6. p[i].kind \in {"user_item", "user_event"} => p[i].text = T2[p[i].turn].text
  BY <1>3, <1>4, <1>5 DEF ScriptAt
<1>7. p[i].kind \in {"agent_event", "agent_item"} => p[i].text = "reply" /\ T2[p[i].turn].replied
  BY <1>3, <1>4, <1>5 DEF ScriptAt
<1>8. ASSUME p[i].kind = "agent_event", NEW j \in DOMAIN q, q[j].kind = "agent_event",
             q[j].turn = p[i].turn
      PROVE  j = i
  <2>1. CASE j \in DOMAIN p
    BY <1>2, <1>3, <1>8, <2>1 DEF ScriptAt
  <2>2. CASE j \notin DOMAIN p
    BY <1>3, <1>8, <2>2 DEF ScriptAt
  <2> QED
    BY <2>1, <2>2
<1> QED
  BY <1>2, <1>3, <1>6, <1>7, <1>8 DEF ScriptAt

\* A line that is no part of a message or a beginning.
LEMMA ScriptLine ==
  ASSUME NEW p, NEW l \in RolloutLine, NEW T, NEW T2, NEW run, Book(p, T, run), Script(p, T),
         \A u \in Turn : T[u].status # "none" => T2[u].text = T[u].text,
         \A u \in Turn : T2[u].replied <=> T[u].replied,
         l.kind \in {"task_complete", "turn_aborted", "thread_rolled_back", "tool_call"}
  PROVE  Script(Append(p, l), T2)
<1> DEFINE q == Append(p, l)
<1>1. p \in Seq(RolloutLine)
  BY BookFields
<1>2. /\ Prefix(p, q) /\ Len(p) \in Nat /\ q[Len(p) + 1] = l /\ DOMAIN q = 1..(Len(p) + 1)
      /\ \A i \in DOMAIN p : i \in DOMAIN q /\ q[i] = p[i]
      /\ \A i \in DOMAIN q : i \in DOMAIN p \/ i = Len(p) + 1
  BY <1>1, AppendIsLonger
<1> HIDE DEF q
<1>3. \A i \in DOMAIN p : ScriptAt(q, T2, i)
  <2>1. \A j \in DOMAIN q : j \notin DOMAIN p => q[j].kind # "agent_event"
    BY <1>2
  <2> QED
    BY <1>2, <2>1, ScriptStays
<1>4. ScriptAt(q, T2, Len(p) + 1)
  BY <1>2 DEF ScriptAt
<1>5. ASSUME NEW t \in Turn, T2[t].replied
      PROVE  \E i \in DOMAIN q : q[i].kind = "agent_event" /\ q[i].turn = t
  <2>1. PICK i \in DOMAIN p : p[i].kind = "agent_event" /\ p[i].turn = t
    BY <1>5 DEF Script
  <2> QED
    BY <1>2, <2>1
<1>6. Script(q, T2)
  BY <1>2, <1>3, <1>4, <1>5 DEF Script
<1> QED
  BY <1>6 DEF q

LEMMA ThreeMore ==
  ASSUME NEW p \in Seq(RolloutLine), NEW a, NEW b, NEW c
  PROVE  /\ (p \o <<a, b, c>>)[Len(p) + 1] = a /\ (p \o <<a, b, c>>)[Len(p) + 2] = b
         /\ (p \o <<a, b, c>>)[Len(p) + 3] = c
         /\ DOMAIN (p \o <<a, b, c>>) = 1..(Len(p) + 3) /\ DOMAIN p = 1..Len(p)
         /\ \A i \in DOMAIN p : /\ i \in DOMAIN (p \o <<a, b, c>>)
                                /\ (p \o <<a, b, c>>)[i] = p[i]
OBVIOUS

LEMMA BeginScript ==
  ASSUME TurnsInv, LinesInv, Script(lines, turns), TurnsInv', LinesInv', Onward,
         NEW t \in Turn, NEW by \in By, NEW text \in Text, BeginTurn(t, by, text)
  PROVE  Script(lines, turns)'
<1> DEFINE a == Line("task_started", t, "")
           b == Line("user_item", t, text)
           c == Line("user_event", t, text)
           n == Len(lines)
<1>1. /\ turns[t].status = "none" /\ lines' = lines \o <<a, b, c>>
      /\ turns' = [turns EXCEPT ![t] = [by |-> by, text |-> text, status |-> "running",
                                        replied |-> FALSE]]
  BY DEF BeginTurn, Produce
<1>2. /\ turns \in [Turn -> SomeTurn] /\ \A u \in Turn \ Begun : ~turns[u].replied
      /\ Book(lines, turns, running) /\ Prefix(lines, lines')
      /\ lines \in Seq(RolloutLine) /\ n \in Nat
  BY BookFields DEF TurnsInv, LinesInv, Onward
<1>3. /\ turns'[t].text = text /\ ~turns'[t].replied
      /\ \A u \in Turn : u # t => turns'[u] = turns[u]
      /\ \A u \in Turn : turns'[u].replied <=> turns[u].replied
  BY <1>1, <1>2 DEF Begun
<1>4. /\ a.kind = "task_started" /\ b.kind = "user_item" /\ c.kind = "user_event"
      /\ a.turn = t /\ b.turn = t /\ c.turn = t /\ b.text = text /\ c.text = text
  BY DEF Line
<1> HIDE DEF a, b, c
<1>5. /\ lines'[n + 1] = a /\ lines'[n + 2] = b /\ lines'[n + 3] = c
      /\ DOMAIN lines' = 1..(n + 3) /\ DOMAIN lines = 1..n
      /\ \A i \in DOMAIN lines : i \in DOMAIN lines' /\ lines'[i] = lines[i]
  BY <1>1, <1>2, ThreeMore
<1> HIDE DEF n
<1>6. \A i \in DOMAIN lines' : i \in DOMAIN lines \/ i \in {n + 1, n + 2, n + 3}
  BY <1>2, <1>5
<1>7. \A i \in DOMAIN lines : ScriptAt(lines', turns', i)
  <2>1. \A j \in DOMAIN lines' : j \notin DOMAIN lines => lines'[j].kind # "agent_event"
    BY <1>4, <1>5, <1>6
  <2>2. \A u \in Turn : turns[u].status # "none" =>
          turns'[u].text = turns[u].text /\ (turns[u].replied => turns'[u].replied)
    BY <1>1, <1>3
  <2> QED
    BY <1>2, <2>1, <2>2, ScriptStays
<1>8. /\ n + 1 \in DOMAIN lines' /\ n + 2 \in DOMAIN lines' /\ n + 3 \in DOMAIN lines'
      /\ (n + 1) + 1 = n + 2 /\ (n + 2) - 1 = n + 1 /\ (n + 3) - 1 = n + 2
  BY <1>2, <1>5
<1>9. ScriptAt(lines', turns', n + 1) /\ ScriptAt(lines', turns', n + 2) /\ ScriptAt(lines', turns', n + 3)
  BY <1>3, <1>4, <1>5, <1>8 DEF ScriptAt
<1>10. ASSUME NEW u \in Turn, turns'[u].replied
       PROVE  \E i \in DOMAIN lines' : lines'[i].kind = "agent_event" /\ lines'[i].turn = u
  <2>1. PICK i \in DOMAIN lines : lines[i].kind = "agent_event" /\ lines[i].turn = u
    BY <1>3, <1>10 DEF Script
  <2> QED
    BY <1>5, <2>1
<1> QED
  BY <1>6, <1>7, <1>9, <1>10 DEF Script

LEMMA ReplyScript ==
  ASSUME TurnsInv, LinesInv, Script(lines, turns), TurnsInv', LinesInv', Onward,
         NEW t \in Turn, Reply(t)
  PROVE  Script(lines, turns)'
<1> DEFINE a == Line("agent_event", t, "reply")
           b == Line("agent_item", t, "reply")
           n == Len(lines)
<1>1. /\ running = t /\ ~turns[t].replied /\ lines' = lines \o <<a, b>>
      /\ turns' = [turns EXCEPT ![t].replied = TRUE]
  BY DEF Reply, Produce
<1>2. /\ turns \in [Turn -> SomeTurn]
      /\ Book(lines, turns, running) /\ Prefix(lines, lines')
      /\ lines \in Seq(RolloutLine) /\ n \in Nat
  BY BookFields DEF TurnsInv, LinesInv, Onward
<1>3. /\ turns'[t].replied /\ \A u \in Turn : turns'[u].text = turns[u].text
      /\ \A u \in Turn : u # t => turns'[u] = turns[u]
  <2>1. turns[t] \in SomeTurn
    BY <1>2
  <2>2. turns'[t] = [turns[t] EXCEPT !.replied = TRUE] /\ \A u \in Turn : u # t => turns'[u] = turns[u]
    BY <1>1, <1>2
  <2>3. turns'[t].replied /\ turns'[t].text = turns[t].text
    BY <2>1, <2>2 DEF SomeTurn
  <2> QED
    BY <2>2, <2>3
<1>4. /\ a.kind = "agent_event" /\ b.kind = "agent_item"
      /\ a.turn = t /\ b.turn = t /\ a.text = "reply" /\ b.text = "reply"
  BY DEF Line
<1>5. /\ lines'[n + 1] = a /\ lines'[n + 2] = b
      /\ DOMAIN lines' = 1..(n + 2) /\ DOMAIN lines = 1..n
      /\ \A i \in DOMAIN lines : i \in DOMAIN lines' /\ lines'[i] = lines[i]
  BY <1>1, <1>2
<1> HIDE DEF a, b, n
<1>6. \A i \in DOMAIN lines' : i \in DOMAIN lines \/ i \in {n + 1, n + 2}
  BY <1>2, <1>5
<1>7. \A i \in DOMAIN lines : ScriptAt(lines', turns', i)
  <2>1. \A j \in DOMAIN lines' : j \notin DOMAIN lines => ~turns[lines'[j].turn].replied
    BY <1>1, <1>4, <1>5, <1>6
  <2>2. \A u \in Turn : turns[u].status # "none" =>
          turns'[u].text = turns[u].text /\ (turns[u].replied => turns'[u].replied)
    BY <1>1, <1>3
  <2> QED
    BY <1>2, <2>1, <2>2, ScriptStays
<1>8. /\ n + 1 \in DOMAIN lines' /\ n + 2 \in DOMAIN lines' /\ (n + 2) - 1 = n + 1
  BY <1>2, <1>5
<1>9. ScriptAt(lines', turns', n + 2)
  BY <1>3, <1>4, <1>5, <1>8 DEF ScriptAt
<1>10. ScriptAt(lines', turns', n + 1)
  <2>1. ASSUME NEW j \in DOMAIN lines', lines'[j].kind = "agent_event", lines'[j].turn = t
        PROVE  j = n + 1
    <3>1. j \notin DOMAIN lines
      <4>1. ASSUME j \in DOMAIN lines PROVE FALSE
        <5>1. ScriptAt(lines, turns, j) /\ lines[j] = lines'[j]
          BY <1>5, <4>1 DEF Script
        <5> QED
          BY <1>1, <2>1, <5>1 DEF ScriptAt
      <4> QED
        BY <4>1
    <3> QED
      BY <1>4, <1>5, <1>6, <2>1, <3>1
  <2> QED
    BY <1>3, <1>4, <1>5, <2>1 DEF ScriptAt
<1>11. ASSUME NEW u \in Turn, turns'[u].replied
       PROVE  \E i \in DOMAIN lines' : lines'[i].kind = "agent_event" /\ lines'[i].turn = u
  <2>1. CASE u = t
    BY <1>4, <1>5, <1>8, <2>1
  <2>2. CASE u # t
    <3>1. PICK i \in DOMAIN lines : lines[i].kind = "agent_event" /\ lines[i].turn = u
      BY <1>3, <1>11, <2>2 DEF Script
    <3> QED
      BY <1>5, <3>1
  <2> QED
    BY <2>1, <2>2
<1> QED
  BY <1>6, <1>7, <1>9, <1>10, <1>11 DEF Script

LEMMA ScriptKept ==
  ASSUME TurnsInv, LinesInv, Script(lines, turns), TurnsInv', LinesInv', Onward, [Next]_vars
  PROVE  Script(lines, turns)'
<1>1. /\ turns \in [Turn -> SomeTurn] /\ Book(lines, turns, running)
      /\ lines \in Seq(RolloutLine)
  BY BookFields DEF TurnsInv, LinesInv
<1>2. ASSUME NEW t \in Turn, NEW s, turns' = [turns EXCEPT ![t].status = s]
      PROVE  \A u \in Turn : turns'[u].text = turns[u].text /\ turns'[u].replied = turns[u].replied
  <2> TAKE u \in Turn
  <2>1. CASE u = t
    <3>1. turns[t] \in SomeTurn /\ turns'[t] = [turns[t] EXCEPT !.status = s]
      BY <1>1, <1>2
    <3> QED
      BY <2>1, <3>1 DEF SomeTurn
  <2>2. CASE u # t
    BY <1>1, <1>2, <2>2
  <2> QED
    BY <2>1, <2>2
<1>3. ASSUME NEW l \in RolloutLine, lines' = lines \o <<l>>,
             l.kind \in {"task_complete", "turn_aborted", "thread_rolled_back", "tool_call"},
             \A u \in Turn : turns'[u].text = turns[u].text /\ turns'[u].replied = turns[u].replied
      PROVE  Script(lines, turns)'
  <2>1. Script(Append(lines, l), turns')
    BY <1>1, <1>3, ScriptLine
  <2>2. lines' = Append(lines, l)
    BY <1>1, <1>3
  <2> QED
    BY <2>1, <2>2
<1>4. ASSUME NEW t \in Turn, UseTool(t)
      PROVE  Script(lines, turns)'
  <2>1. lines' = lines \o <<Line("tool_call", t, "")>> /\ turns' = turns
    BY <1>4 DEF UseTool, Produce
  <2>2. Line("tool_call", t, "") \in RolloutLine /\ Line("tool_call", t, "").kind = "tool_call"
    <3>1. "tool_call" \in Kind
      BY KindsKnown
    <3> QED
      BY <3>1, KindsKnown DEF Line, RolloutLine
  <2> QED
    BY <1>3, <2>1, <2>2
<1>5. ASSUME NEW t \in Turn, NEW how \in Ends, Finish(t, how)
      PROVE  Script(lines, turns)'
  <2> DEFINE kind == IF how = "interrupted" THEN "turn_aborted" ELSE "task_complete"
  <2>1. lines' = lines \o <<Line(kind, t, "")>> /\ turns' = [turns EXCEPT ![t].status = how]
    BY <1>5 DEF Finish, Produce
  <2>2. kind \in {"task_complete", "turn_aborted"}
    OBVIOUS
  <2> HIDE DEF kind
  <2>3. Line(kind, t, "") \in RolloutLine /\ Line(kind, t, "").kind = kind
    <3>1. kind \in Kind
      BY <2>2, KindsKnown
    <3> QED
      BY <3>1, KindsKnown DEF Line, RolloutLine
  <2>4. \A u \in Turn : turns'[u].text = turns[u].text /\ turns'[u].replied = turns[u].replied
    BY <1>2, <2>1
  <2> QED
    BY <1>3, <2>1, <2>2, <2>3, <2>4
<1>6. ASSUME NEW t \in Turn, RollBack(t)
      PROVE  Script(lines, turns)'
  <2>1. /\ lines' = lines \o <<Line("thread_rolled_back", 0, "")>>
        /\ turns' = [turns EXCEPT ![t].status = "erased"]
    BY <1>6 DEF RollBack, Produce
  <2>2. /\ Line("thread_rolled_back", 0, "") \in RolloutLine
        /\ Line("thread_rolled_back", 0, "").kind = "thread_rolled_back"
    <3>1. "thread_rolled_back" \in Kind
      BY KindsKnown
    <3> QED
      BY <3>1, KindsKnown, TurnNumbers DEF Line, RolloutLine
  <2>3. \A u \in Turn : turns'[u].text = turns[u].text /\ turns'[u].replied = turns[u].replied
    BY <1>2, <2>1
  <2> QED
    BY <1>3, <2>1, <2>2, <2>3
<1>7. ASSUME lines' = lines,
             \A u \in Turn : turns'[u].text = turns[u].text /\ turns'[u].replied = turns[u].replied
      PROVE  Script(lines, turns)'
  <2>1. Prefix(lines, lines)
    BY <1>1 DEF Prefix
  <2>2. \A i \in DOMAIN lines : ScriptAt(lines, turns', i)
    BY <1>1, <1>7, <2>1, ScriptStays
  <2> QED
    BY <1>7, <2>2 DEF Script
<1>8. CASE Exit
  <2>1. lines' = lines /\ (turns' = turns \/ turns' = [turns EXCEPT ![running].status = "interrupted"])
    BY <1>8 DEF Exit
  <2>2. CASE turns' = turns
    BY <1>7, <2>1, <2>2
  <2>3. CASE turns' = [turns EXCEPT ![running].status = "interrupted"] /\ running \in Turn
    BY <1>2, <1>7, <2>1, <2>3
  <2>4. CASE turns' = [turns EXCEPT ![running].status = "interrupted"] /\ running \notin Turn
    <3>1. turns' = turns
      BY <1>1, <2>4
    <3> QED
      BY <2>2, <3>1
  <2> QED
    BY <2>1, <2>2, <2>3, <2>4
<1>9. CASE ~Codex /\ ~Exit
  <2>1. UNCHANGED codexVars
    BY <1>9 DEF Next, vars, codexVars, Write, Notification, ThreadRead, ThreadFails, ReadThread, RolloutRead,
       Detail, Scan, Unknown, Accepted, Project, Poll, Take
  <2> QED
    BY <1>7, <2>1 DEF codexVars
<1>10. CASE Codex
  BY <1>4, <1>5, <1>6, <1>10, BeginScript, ReplyScript DEF Codex
<1> QED
  BY <1>8, <1>9, <1>10

-----------------------------------------------------------------------------
(* What the bridge is told and stores                                      *)

LEMMA ToldStays ==
  ASSUME Onward
  PROVE  ToldNotes \subseteq ToldNotes' /\ ToldEvents \subseteq ToldEvents'
<1>1. ASSUME NEW type, NEW t, Told(type, t)
      PROVE  /\ t \in Begun' /\ turns'[t].by = "bridge"
             /\ type \in {"turn_completed", "turn_failed"} => t # running'
             /\ type = "turn_completed" => Closed(lines', t)
  <2>1. Closed(lines, t) => Closed(lines', t)
    BY DEF Onward, Prefix, Closed
  <2> QED
    BY <1>1, <2>1 DEF Told, Onward
<1>2. ToldNotes \subseteq ToldNotes'
  BY <1>1 DEF ToldNotes, Told, Notes, Turn
<1>3. ToldEvents \subseteq ToldEvents'
  BY <1>1 DEF ToldEvents, Told, StoredEvent, Turn
<1> QED
  BY <1>2, <1>3

LEMMA NotesNamed ==
  ASSUME NEW type \in Types, NEW t \in Turn, NEW status \in Statuses
  PROVE  /\ Note(type, t, status) \in Notes
         /\ Note(type, t, status).type = type /\ Note(type, t, status).turn = t
         /\ Note(type, t, status).status = status
BY DEF Note, Notes

LEMMA TypesNamed ==
  /\ "turn_started" \in Types /\ "user_message" \in Types /\ "tool_call" \in Types
  /\ "assistant_message" \in Types /\ "turn_completed" \in Types /\ "turn_failed" \in Types
  /\ "" \in Statuses /\ "started" \in Statuses /\ "completed" \in Statuses
  /\ "unavailable" \in Statuses
BY DEF Types, Statuses, Ended

LEMMA NotesListed ==
  ASSUME NEW a \in Notes, NEW b \in Notes
  PROVE  /\ <<a, b>> \in Seq(Notes) /\ \A i \in DOMAIN <<a, b>> : <<a, b>>[i] \in {a, b}
         /\ <<a>> \in Seq(Notes) /\ \A i \in DOMAIN <<a>> : <<a>>[i] = a
OBVIOUS

\* What Codex tells of a turn of the bridge is told of a turn that has begun.
LEMMA TellsTold ==
  ASSUME EventsInv, Onward, NEW t \in Turn, t \in Begun', NEW more \in Seq(Notes), Tell(t, more),
         \A i \in DOMAIN more :
           /\ more[i].turn = t
           /\ more[i].type \in {"turn_completed", "turn_failed"} => t # running'
           /\ more[i].type = "turn_completed" => Closed(lines', t)
  PROVE  notes' \in Seq(ToldNotes')
<1>1. notes \in Seq(ToldNotes')
  BY ToldStays DEF EventsInv
<1>2. CASE turns'[t].by = "bridge"
  <2>1. notes' = notes \o more
    BY <1>2 DEF Tell
  <2>2. \A i \in DOMAIN more : more[i] \in ToldNotes'
    <3>1. \A i \in DOMAIN more : more[i] \in Notes
      OBVIOUS
    <3> QED
      BY <1>2, <3>1 DEF ToldNotes, Told, Notes
  <2>3. more \in Seq(ToldNotes')
    BY <2>2
  <2> QED
    BY <1>1, <2>1, <2>3
<1>3. CASE turns'[t].by # "bridge"
  BY <1>1, <1>3 DEF Tell
<1> QED
  BY <1>2, <1>3

LEMMA CodexTells ==
  ASSUME TurnsInv, LinesInv, EventsInv, TurnsInv', Onward, Codex
  PROVE  EventsInv'
<1>1. stored' = stored /\ active' = active
  BY DEF Codex, BeginTurn, UseTool, Reply, Finish, RollBack, storeVars
<1>2. notes' \in Seq(ToldNotes')
  <2>1. ASSUME NEW t \in Turn, NEW by \in By, NEW text \in Text, BeginTurn(t, by, text)
        PROVE  notes' \in Seq(ToldNotes')
    <3> DEFINE a == Note("turn_started", t, "started")
               b == Note("user_message", t, "")
    <3>1. Tell(t, <<a, b>>)
      BY <2>1 DEF BeginTurn
    <3>2. t \in Begun'
      <4>1. turns'[t].status = "running"
        BY <2>1, BeginTurns
      <4> QED
        BY <4>1 DEF Begun
    <3>3. /\ a \in Notes /\ a.type = "turn_started" /\ a.turn = t /\ a.status = "started"
          /\ b \in Notes /\ b.type = "user_message" /\ b.turn = t /\ b.status = ""
      BY TypesNamed DEF Note, Notes
    <3> HIDE DEF a, b
    <3>4. <<a, b>> \in Seq(Notes) /\ \A i \in DOMAIN <<a, b>> : <<a, b>>[i] \in {a, b}
      BY <3>3, NotesListed
    <3>5. \A i \in DOMAIN <<a, b>> :
            /\ <<a, b>>[i].turn = t
            /\ <<a, b>>[i].type \in {"turn_started", "user_message"}
      BY <3>3, <3>4
    <3> QED
      BY <3>1, <3>2, <3>4, <3>5, TellsTold
  <2>2. ASSUME NEW t \in Turn, NEW n \in Notes, Tell(t, <<n>>), t \in Begun', n.turn = t,
               n.type \in {"turn_completed", "turn_failed"} => t # running',
               n.type = "turn_completed" => Closed(lines', t)
        PROVE  notes' \in Seq(ToldNotes')
    <3>1. <<n>> \in Seq(Notes) /\ \A i \in DOMAIN <<n>> : <<n>>[i] = n
      OBVIOUS
    <3> QED
      BY <2>2, <3>1, TellsTold
  <2>3. ASSUME NEW t \in Turn, t = running
        PROVE  t \in Begun' /\ t \in Begun
    <3>1. t \in Begun
      BY <2>3, TurnNumbers DEF TurnsInv, Begun
    <3> QED
      BY <3>1 DEF Onward
  <2>4. ASSUME NEW t \in Turn, UseTool(t)
        PROVE  notes' \in Seq(ToldNotes')
    <3>1. Tell(t, <<Note("tool_call", t, "completed")>>) /\ t = running
      BY <2>4 DEF UseTool
    <3>2. /\ Note("tool_call", t, "completed") \in Notes
          /\ Note("tool_call", t, "completed").type = "tool_call"
          /\ Note("tool_call", t, "completed").turn = t
          /\ Note("tool_call", t, "completed").status = "completed"
      BY TypesNamed DEF Note, Notes
    <3> QED
      BY <2>2, <2>3, <3>1, <3>2
  <2>5. ASSUME NEW t \in Turn, Reply(t)
        PROVE  notes' \in Seq(ToldNotes')
    <3>1. Tell(t, <<Note("assistant_message", t, "")>>) /\ t = running
      BY <2>5 DEF Reply
    <3>2. /\ Note("assistant_message", t, "") \in Notes
          /\ Note("assistant_message", t, "").type = "assistant_message"
          /\ Note("assistant_message", t, "").turn = t
          /\ Note("assistant_message", t, "").status = ""
      BY TypesNamed DEF Note, Notes
    <3> QED
      BY <2>2, <2>3, <3>1, <3>2
  <2>6. ASSUME NEW t \in Turn, NEW how \in Ends, Finish(t, how)
        PROVE  notes' \in Seq(ToldNotes')
    <3> DEFINE type == IF how = "failed" THEN "turn_failed" ELSE "turn_completed"
    <3>1. Tell(t, <<Note(type, t, how)>>) /\ t = running /\ running' = 0
      BY <2>6 DEF Finish
    <3>2. how \in Statuses
      BY TimelineAssumption DEF Statuses, Ended
    <3>3. type \in {"turn_completed", "turn_failed"} /\ type \in Types
      BY DEF Types
    <3> HIDE DEF type
    <3>4. /\ Note(type, t, how) \in Notes /\ Note(type, t, how).type = type
          /\ Note(type, t, how).turn = t /\ Note(type, t, how).status = how
      BY <3>2, <3>3, NotesNamed
    <3>5. Closed(lines', t)
      <4> DEFINE l == Line(IF how = "interrupted" THEN "turn_aborted" ELSE "task_complete", t, "")
      <4>1. l.kind \in {"task_complete", "turn_aborted"} /\ l.turn = t
        BY DEF Line
      <4>2. lines' = lines \o <<l>> /\ lines \in Seq(RolloutLine)
        BY <2>6, BookFields DEF Finish, Produce, LinesInv
      <4> HIDE DEF l
      <4>3. /\ Len(lines) + 1 \in DOMAIN lines' /\ lines'[Len(lines) + 1] = l
        BY <4>2
      <4> QED
        BY <4>1, <4>3 DEF Closed
    <3> QED
      BY <2>2, <2>3, <3>1, <3>2, <3>3, <3>4, <3>5, TurnNumbers
  <2>7. ASSUME NEW t \in Turn, RollBack(t)
        PROVE  notes' \in Seq(ToldNotes')
    <3>1. notes' = notes
      BY <2>7 DEF RollBack
    <3> QED
      BY <3>1, ToldStays DEF EventsInv
  <2> QED
    BY <2>1, <2>4, <2>5, <2>6, <2>7 DEF Codex
<1>3. stored' \in Seq(ToldEvents')
  BY <1>1, ToldStays DEF EventsInv
<1>4. active' # 0 => active' \in Begun' /\ turns'[active'].by = "bridge"
  BY <1>1 DEF EventsInv, Onward
<1> QED
  BY <1>1, <1>2, <1>3, <1>4 DEF EventsInv

\* What is stored was told, and its number follows the last.
LEMMA Stores ==
  ASSUME EventsInv, Onward, NEW n \in ToldNotes', Publish(Recorded(n))
  PROVE  /\ stored' \in Seq(ToldEvents')
         /\ \A i \in DOMAIN stored' : stored'[i].seq = StoreBase + i
<1> DEFINE e == Recorded(n)
<1>1. stored' = Append(stored, e)
  BY DEF Publish
<1>2. stored \in Seq(ToldEvents') /\ Len(stored) \in Nat /\ StoreBase \in Nat
  BY ToldStays, TimelineAssumption DEF EventsInv
<1>3. n \in Notes /\ Told(n.type, n.turn)'
  BY DEF ToldNotes, Notes
<1>4. e = [type |-> n.type, turn |-> n.turn, status |-> n.status,
           seq |-> StoreBase + Len(stored) + 1, from |-> "store"]
  BY DEF Recorded, Event
<1> HIDE DEF e
<1>5. /\ e \in StoredEvent /\ e.type = n.type /\ e.turn = n.turn /\ e.status = n.status
      /\ e.seq = StoreBase + Len(stored) + 1
  BY <1>2, <1>3, <1>4 DEF StoredEvent, Notes
<1>6. e \in ToldEvents'
  <2>1. /\ e.turn \in Begun' /\ turns'[e.turn].by = "bridge"
        /\ e.type \in {"turn_completed", "turn_failed"} => e.turn # running'
        /\ e.type = "turn_completed" => Closed(lines', e.turn)
    BY <1>3, <1>5 DEF Told
  <2> QED
    BY <1>5, <2>1 DEF ToldEvents, Told, StoredEvent, Turn
<1>7. stored' \in Seq(ToldEvents')
  BY <1>1, <1>2, <1>6
<1>8. ASSUME NEW i \in DOMAIN stored'
      PROVE  stored'[i].seq = StoreBase + i
  <2>1. CASE i \in DOMAIN stored
    BY <1>1, <1>2, <2>1 DEF EventsInv
  <2>2. CASE i \notin DOMAIN stored
    <3>1. i = Len(stored) + 1 /\ stored'[i] = e
      BY <1>1, <1>2, <2>2
    <3> QED
      BY <1>2, <1>5, <3>1
  <2> QED
    BY <2>1, <2>2
<1> QED
  BY <1>7, <1>8

LEMMA EventsKept ==
  ASSUME TurnsInv, LinesInv, EventsInv, TurnsInv', Onward, [Next]_vars
  PROVE  EventsInv'
<1>1. ToldNotes \subseteq ToldNotes' /\ ToldEvents \subseteq ToldEvents'
  BY ToldStays
<1>2. CASE Codex
  BY <1>2, CodexTells
<1>3. CASE Notification
  <2>1. /\ notes # <<>> /\ notes' = Tail(notes) /\ Publish(Recorded(Head(notes)))
        /\ active' \in {Head(notes).turn, 0, active}
    BY <1>3 DEF Notification
  <2>2. /\ Head(notes) \in ToldNotes /\ notes' \in Seq(ToldNotes)
    BY <2>1 DEF EventsInv
  <2>3. /\ stored' \in Seq(ToldEvents')
        /\ \A i \in DOMAIN stored' : stored'[i].seq = StoreBase + i
    BY <1>1, <2>1, <2>2, Stores
  <2>4. Head(notes).turn \in Begun /\ turns[Head(notes).turn].by = "bridge"
    BY <2>2 DEF ToldNotes, Told
  <2>5. active' # 0 => active' \in Begun /\ turns[active'].by = "bridge"
    BY <2>1, <2>4 DEF EventsInv
  <2>6. active' # 0 => active' \in Begun' /\ turns'[active'].by = "bridge"
    BY <2>5 DEF Onward
  <2> QED
    BY <1>1, <2>2, <2>3, <2>6 DEF EventsInv
<1>4. CASE Exit
  <2>1. notes' \in {<<>>, notes} /\ active' = 0
    BY <1>4 DEF Exit
  <2>2. notes' \in Seq(ToldNotes')
    <3>1. <<>> \in Seq(ToldNotes') /\ notes \in Seq(ToldNotes')
      BY <1>1 DEF EventsInv
    <3> QED
      BY <2>1, <3>1
  <2>3. CASE active = 0
    BY <1>1, <1>4, <2>1, <2>2, <2>3 DEF EventsInv, Exit
  <2>4. CASE active # 0
    <3> DEFINE n == Note("turn_failed", active, "unavailable")
    <3>1. Publish(Recorded(n))
      BY <1>4, <2>4 DEF Exit
    <3>2. active \in Begun /\ turns[active].by = "bridge" /\ active \in Turn
      BY <2>4 DEF EventsInv, Begun
    <3>3. /\ n \in Notes /\ n.type = "turn_failed" /\ n.turn = active /\ n.status = "unavailable"
      BY <3>2, TypesNamed DEF Note, Notes
    <3> HIDE DEF n
    <3>4. active # running'
      BY <1>4, <2>4, <3>2, ExitKeepsLines
    <3>5. active \in Begun' /\ turns'[active].by = "bridge"
      BY <3>2 DEF Onward
    <3>6. n \in ToldNotes'
      BY <3>3, <3>4, <3>5 DEF ToldNotes, Told, Notes
    <3>7. /\ stored' \in Seq(ToldEvents')
          /\ \A i \in DOMAIN stored' : stored'[i].seq = StoreBase + i
      BY <3>1, <3>6, Stores
    <3> QED
      BY <2>1, <2>2, <3>7 DEF EventsInv
  <2> QED
    BY <2>3, <2>4
<1>5. CASE ~Codex /\ ~Notification /\ ~Exit
  <2>1. UNCHANGED <<notes, stored, active>>
    BY <1>5 DEF Next, vars, storeVars, Write, ThreadRead, ThreadFails, ReadThread, RolloutRead,
       Detail, Scan, Unknown, Accepted, Project, Poll, Take
  <2>2. active' # 0 => active' \in Begun' /\ turns'[active'].by = "bridge"
    BY <2>1 DEF EventsInv, Onward
  <2> QED
    BY <1>1, <2>1, <2>2 DEF EventsInv
<1> QED
  BY <1>2, <1>3, <1>4, <1>5

HistoryInv == TurnsInv /\ LinesInv /\ Script(lines, turns) /\ EventsInv

LEMMA HistoryStarts == Init => HistoryInv
<1> SUFFICES ASSUME Init PROVE HistoryInv
  OBVIOUS
<1>1. notes = <<>> /\ stored = <<>> /\ active = 0
  BY DEF Init
<1>2. EventsInv
  BY <1>1 DEF EventsInv
<1>3. DOMAIN lines = {} /\ \A t \in Turn : ~turns[t].replied
  BY DEF Init, NoTurn
<1>4. Script(lines, turns)
  BY <1>3 DEF Script
<1> QED
  BY <1>2, <1>4, HistoryBegins DEF HistoryInv

LEMMA HistoryInvariant == Spec => []HistoryInv
<1>1. HistoryInv /\ [Next]_vars => HistoryInv'
  BY HistoryKept, ScriptKept, EventsKept DEF HistoryInv
<1> QED
  BY <1>1, HistoryStarts, PTL DEF Spec

-----------------------------------------------------------------------------
(* The events of a rollout                                                 *)

LEMMA LeastOf ==
  ASSUME NEW S \in SUBSET Nat, S # {}
  PROVE  \E n \in S : \A m \in S : n <= m
<1>1. PICK n \in S : \A m \in S : ~(<<m, n>> \in OpToRel(<, Nat))
  BY NatLessThanWellFounded, WFMin
<1>2. \A m \in S : ~(m < n)
  BY <1>1 DEF OpToRel
<1> QED
  BY <1>2

LEMMA GreatestOf ==
  ASSUME NEW S \in SUBSET Nat, S # {}, NEW bound \in Nat, \A n \in S : n <= bound
  PROVE  \E n \in S : \A m \in S : m <= n
<1> DEFINE Gaps == {k \in Nat : \E n \in S : n + k = bound}
<1>1. PICK k \in Gaps : \A m \in Gaps : k <= m
  <2>1. Gaps \in SUBSET Nat
    OBVIOUS
  <2>2. PICK n \in S : TRUE
    OBVIOUS
  <2>3. bound - n \in Gaps
    BY <2>2
  <2> QED
    BY <2>1, <2>3, LeastOf
<1>2. PICK n \in S : n + k = bound
  BY <1>1
<1>3. \A m \in S : m <= n
  <2> TAKE m \in S
  <2>1. bound - m \in Gaps
    OBVIOUS
  <2> QED
    BY <1>1, <1>2, <2>1
<1> QED
  BY <1>3

LEMMA RolloutFields ==
  ASSUME NEW p, Rollout(p)
  PROVE  /\ p \in Seq(RolloutLine) /\ Len(p) \in Nat /\ DOMAIN p = 1..Len(p)
         /\ \A i \in DOMAIN p : /\ p[i].kind \in Kind /\ p[i].turn \in 0..MaxTurn /\ p[i].turn \in Nat
                                /\ p[i].kind # "thread_rolled_back" => p[i].turn \in Turn
<1>1. p \in Seq(RolloutLine) /\ \A i \in DOMAIN p : p[i] \in RolloutLine
  BY DEF Rollout
<1>2. \A i \in DOMAIN p : p[i].kind \in Kind /\ p[i].turn \in 0..MaxTurn /\ p[i].turn \in Nat
  BY <1>1, LineFields
<1>3. \A i \in DOMAIN p : p[i].kind # "thread_rolled_back" => p[i].turn \in Turn
  BY <1>2, TurnNumbers DEF Turn, Rollout
<1> QED
  BY <1>1, <1>2, <1>3

\* NamedBefore is the turn of the last marker, unless that is a rollback.
LEMMA NamedIs ==
  ASSUME NEW p, Rollout(p), NEW i \in 1..(Len(p) + 1)
  PROVE  /\ \A m : MarkedBy(p, m, i) => NamedBefore(p, i) = p[m].turn /\ p[m].turn \in Turn
         /\ NamedBefore(p, i) # 0 => \E m \in DOMAIN p : MarkedBy(p, m, i)
         /\ NamedBefore(p, i) \in 0..MaxTurn
<1> DEFINE S == {j \in 1..(i - 1) : p[j].kind \in Lifecycle \cup {"thread_rolled_back"}}
           last == CHOOSE j \in S : \A k \in S : k <= j
<1>1. NamedBefore(p, i) = IF S = {} \/ p[last].kind = "thread_rolled_back" THEN 0 ELSE p[last].turn
  BY DEF NamedBefore
<1>2. /\ Len(p) \in Nat /\ DOMAIN p = 1..Len(p)
      /\ \A j \in DOMAIN p : p[j].turn \in 0..MaxTurn
      /\ \A j \in DOMAIN p : p[j].kind # "thread_rolled_back" => p[j].turn \in Turn
  BY RolloutFields
<1>3. \A j : j \in S <=> j \in DOMAIN p /\ j < i /\ p[j].kind \in Marker
  BY <1>2 DEF Marker
<1>4. S \in SUBSET Nat /\ \A j \in S : j <= i
  BY <1>2, <1>3
<1>5. S # {} => last \in S /\ \A k \in S : k <= last
  <2> SUFFICES ASSUME S # {} PROVE last \in S /\ \A k \in S : k <= last
    OBVIOUS
  <2>1. i \in Nat
    BY <1>2
  <2>2. \E j \in S : \A k \in S : k <= j
    BY <1>4, <2>1, GreatestOf
  <2> QED
    BY <2>2
<1> HIDE DEF S, last
<1>6. ASSUME NEW m, MarkedBy(p, m, i)
      PROVE  NamedBefore(p, i) = p[m].turn /\ p[m].turn \in Turn
  <2>1. /\ m \in DOMAIN p /\ m < i /\ p[m].kind \in Lifecycle
        /\ \A k \in DOMAIN p : m < k /\ k < i => p[k].kind \notin Marker
    BY <1>6 DEF MarkedBy
  <2>2. m \in S
    BY <1>3, <2>1 DEF Marker
  <2>3. last \in S /\ m <= last
    BY <1>5, <2>2
  <2>4. ~(m < last)
    BY <1>3, <2>1, <2>3
  <2>5. last = m
    BY <1>4, <2>2, <2>3, <2>4
  <2>6. p[m].kind # "thread_rolled_back"
    BY <2>1 DEF Lifecycle
  <2> QED
    BY <1>1, <1>2, <2>1, <2>2, <2>5, <2>6
<1>7. ASSUME NamedBefore(p, i) # 0
      PROVE  \E m \in DOMAIN p : MarkedBy(p, m, i)
  <2>1. S # {} /\ p[last].kind # "thread_rolled_back"
    BY <1>1, <1>7
  <2>2. /\ last \in DOMAIN p /\ last < i /\ p[last].kind \in Marker
        /\ \A k \in S : k <= last
    BY <1>3, <1>5, <2>1
  <2>3. p[last].kind \in Lifecycle
    BY <2>1, <2>2 DEF Marker
  <2>4. \A k \in DOMAIN p : last < k /\ k < i => p[k].kind \notin Marker
    <3> TAKE k \in DOMAIN p
    <3>1. k \in S => k <= last
      BY <2>2
    <3> QED
      BY <1>2, <1>3, <2>2, <3>1
  <2> QED
    BY <2>2, <2>3, <2>4 DEF MarkedBy
<1>8. NamedBefore(p, i) \in 0..MaxTurn
  <2>1. S # {} => last \in DOMAIN p
    BY <1>3, <1>5
  <2> QED
    BY <1>1, <1>2, <2>1, TurnNumbers
<1> QED
  BY <1>6, <1>7, <1>8

LEMMA TakesBackNamed ==
  ASSUME NEW p, Rollout(p), NEW i \in DOMAIN p, p[i].kind = "thread_rolled_back"
  PROVE  /\ NamedBefore(p, i) \in Turn
         /\ \A t : TakesBack(p, i, t) <=> NamedBefore(p, i) = t
<1>1. Len(p) \in Nat /\ DOMAIN p = 1..Len(p)
  BY RolloutFields
<1>2. i \in 1..(Len(p) + 1)
  BY <1>1
<1>3. PICK m \in DOMAIN p : MarkedBy(p, m, i)
  BY DEF Rollout
<1>4. \A k : MarkedBy(p, k, i) => NamedBefore(p, i) = p[k].turn /\ p[k].turn \in Turn
  BY <1>2, NamedIs
<1> QED
  BY <1>3, <1>4 DEF TakesBack

AnyEvent == [type : Types, turn : 0..MaxTurn, status : Statuses \cup {"rolled_back"},
             seq : Nat, from : {"rollout", "store"}]

LEMMA EventFields ==
  ASSUME NEW type, NEW t, NEW status, NEW seq, NEW from
  PROVE  /\ Event(type, t, status, seq, from).type = type
         /\ Event(type, t, status, seq, from).turn = t
         /\ Event(type, t, status, seq, from).status = status
         /\ Event(type, t, status, seq, from).seq = seq
         /\ Event(type, t, status, seq, from).from = from
BY DEF Event

Started(p, i) == Event("turn_started", p[i].turn, "started", i, "rollout")
Completed(p, i) == Event("turn_completed", p[i].turn, "completed", i, "rollout")
Undone(p, t) == \E i \in DOMAIN p : TakesBack(p, i, t)
Aborted(p, i) ==
  Event("turn_failed", p[i].turn, IF Undone(p, p[i].turn) THEN "rolled_back" ELSE "interrupted",
        i, "rollout")
Undoes(p, i) == Event("turn_failed", NamedBefore(p, i), "rolled_back", i, "rollout")
UsesTool(p, i) == Event("tool_call", NamedBefore(p, i), "completed", i, "rollout")

LEMMA RolloutEventsAre ==
  ASSUME NEW p, Rollout(p)
  PROVE  \A e : e \in RolloutEvents(p) <=>
           \E i \in DOMAIN p :
             \/ p[i].kind = "task_started" /\ e = Started(p, i)
             \/ p[i].kind = "task_complete" /\ e = Completed(p, i)
             \/ p[i].kind = "turn_aborted" /\ e = Aborted(p, i)
             \/ /\ p[i].kind = "thread_rolled_back" /\ e = Undoes(p, i)
                /\ ~\E j \in DOMAIN p : p[j].kind = "turn_aborted" /\ p[j].turn = NamedBefore(p, i)
             \/ p[i].kind = "tool_call" /\ e = UsesTool(p, i)
<1> DEFINE Lines(kind) == {i \in DOMAIN p : p[i].kind = kind}
           undone == {i \in Lines("thread_rolled_back") : NamedBefore(p, i) # 0}
           UndoneAt(t) == \E i \in undone : NamedBefore(p, i) = t
           AbortedAt(t) == \E i \in Lines("turn_aborted") : p[i].turn = t
           A == {Event("turn_started", p[i].turn, "started", i, "rollout") : i \in Lines("task_started")}
           B == {Event("turn_completed", p[i].turn, "completed", i, "rollout") :
                   i \in Lines("task_complete")}
           C == {Event("turn_failed", p[i].turn,
                       IF UndoneAt(p[i].turn) THEN "rolled_back" ELSE "interrupted",
                       i, "rollout") : i \in Lines("turn_aborted")}
           D == {Event("turn_failed", NamedBefore(p, i), "rolled_back", i, "rollout") :
                   i \in {j \in undone : ~AbortedAt(NamedBefore(p, j))}}
           E == {Event("tool_call", NamedBefore(p, i), "completed", i, "rollout") :
                   i \in Lines("tool_call")}
<1>1. RolloutEvents(p) = A \cup B \cup C \cup D \cup E
  BY DEF RolloutEvents
<1>2. \A i : i \in undone <=> i \in DOMAIN p /\ p[i].kind = "thread_rolled_back"
  <2>1. \A i \in DOMAIN p : p[i].kind = "thread_rolled_back" => NamedBefore(p, i) \in Turn
    BY TakesBackNamed
  <2> QED
    BY <2>1, TurnNumbers
<1>3. \A t : UndoneAt(t) <=> Undone(p, t)
  <2>1. \A i \in DOMAIN p : \A t : TakesBack(p, i, t) <=> p[i].kind = "thread_rolled_back" /\ NamedBefore(p, i) = t
    BY TakesBackNamed DEF TakesBack
  <2> QED
    BY <1>2, <2>1 DEF Undone
<1>4. \A e : e \in A <=> \E i \in DOMAIN p : p[i].kind = "task_started" /\ e = Started(p, i)
  BY DEF Started
<1>5. \A e : e \in B <=> \E i \in DOMAIN p : p[i].kind = "task_complete" /\ e = Completed(p, i)
  BY DEF Completed
<1>6. \A e : e \in C <=> \E i \in DOMAIN p : p[i].kind = "turn_aborted" /\ e = Aborted(p, i)
  <2>1. \A i \in DOMAIN p :
          Event("turn_failed", p[i].turn, IF UndoneAt(p[i].turn) THEN "rolled_back" ELSE "interrupted",
                i, "rollout") = Aborted(p, i)
    BY <1>3 DEF Aborted
  <2> QED
    BY <2>1
<1>7. \A e : e \in D <=> \E i \in DOMAIN p :
        /\ p[i].kind = "thread_rolled_back" /\ e = Undoes(p, i)
        /\ ~\E j \in DOMAIN p : p[j].kind = "turn_aborted" /\ p[j].turn = NamedBefore(p, i)
  <2> HIDE DEF undone
  <2> QED
    BY <1>2 DEF Undoes
<1>8. \A e : e \in E <=> \E i \in DOMAIN p : p[i].kind = "tool_call" /\ e = UsesTool(p, i)
  BY DEF UsesTool
<1> HIDE DEF A, B, C, D, E
<1> QED
  BY <1>1, <1>4, <1>5, <1>6, <1>7, <1>8

\* Where the events of a rollout come from.
LEMMA RolloutEventsFrom ==
  ASSUME NEW p, Rollout(p), NEW e \in RolloutEvents(p)
  PROVE  /\ e \in AnyEvent /\ e.from = "rollout" /\ e.seq \in DOMAIN p
         /\ e.type = "turn_started" => p[e.seq].kind = "task_started" /\ p[e.seq].turn = e.turn
         /\ Terminal(e) =>
              \/ p[e.seq].kind \in {"task_complete", "turn_aborted"} /\ p[e.seq].turn = e.turn
              \/ TakesBack(p, e.seq, e.turn)
         /\ Terminal(e) => e.turn \in Turn
         /\ e.status = "rolled_back" => e.type = "turn_failed" /\ Undone(p, e.turn)
         /\ e.type = "turn_failed" /\ Undone(p, e.turn) => e.status = "rolled_back"
<1>1. /\ DOMAIN p = 1..Len(p)
      /\ \A i \in DOMAIN p : i \in Nat /\ p[i].turn \in 0..MaxTurn
      /\ \A i \in DOMAIN p : p[i].kind # "thread_rolled_back" => p[i].turn \in Turn
  BY RolloutFields
<1>2. PICK i \in DOMAIN p :
             \/ p[i].kind = "task_started" /\ e = Started(p, i)
             \/ p[i].kind = "task_complete" /\ e = Completed(p, i)
             \/ p[i].kind = "turn_aborted" /\ e = Aborted(p, i)
             \/ p[i].kind = "thread_rolled_back" /\ e = Undoes(p, i)
             \/ p[i].kind = "tool_call" /\ e = UsesTool(p, i)
  BY RolloutEventsAre
<1>3. i \in Nat /\ p[i].turn \in 0..MaxTurn /\ NamedBefore(p, i) \in 0..MaxTurn
  <2>1. i \in 1..(Len(p) + 1) /\ i \in Nat
    BY <1>1
  <2> QED
    BY <1>1, <2>1, NamedIs
<1>4. "rolled_back" \in Statuses \cup {"rolled_back"} /\ "interrupted" \in Statuses
  BY DEF Statuses, Ended
<1>5. CASE p[i].kind = "task_started" /\ e = Started(p, i)
  <2>1. /\ e.type = "turn_started" /\ e.turn = p[i].turn /\ e.status = "started" /\ e.seq = i
        /\ e.from = "rollout" /\ e \in AnyEvent
    BY <1>3, <1>5, TypesNamed DEF Started, Event, AnyEvent
  <2> QED
    BY <1>1, <1>5, <2>1 DEF Terminal
<1>6. CASE p[i].kind = "task_complete" /\ e = Completed(p, i)
  <2>1. /\ e.type = "turn_completed" /\ e.turn = p[i].turn /\ e.status = "completed" /\ e.seq = i
        /\ e.from = "rollout" /\ e \in AnyEvent
    BY <1>3, <1>6, TypesNamed DEF Completed, Event, AnyEvent
  <2> QED
    BY <1>1, <1>6, <2>1 DEF Terminal
<1>7. CASE p[i].kind = "turn_aborted" /\ e = Aborted(p, i)
  <2> DEFINE s == IF Undone(p, p[i].turn) THEN "rolled_back" ELSE "interrupted"
  <2>1. s \in Statuses \cup {"rolled_back"} /\ (s = "rolled_back" <=> Undone(p, p[i].turn))
    BY <1>4
  <2>2. e = Event("turn_failed", p[i].turn, s, i, "rollout")
    BY <1>7 DEF Aborted
  <2> HIDE DEF s
  <2>3. /\ e.type = "turn_failed" /\ e.turn = p[i].turn /\ e.status = s /\ e.seq = i
        /\ e.from = "rollout" /\ e \in AnyEvent
    BY <1>3, <2>1, <2>2, TypesNamed DEF Event, AnyEvent
  <2> QED
    BY <1>1, <1>7, <2>1, <2>3 DEF Terminal
<1>8. CASE p[i].kind = "thread_rolled_back" /\ e = Undoes(p, i)
  <2>1. /\ e.type = "turn_failed" /\ e.turn = NamedBefore(p, i) /\ e.status = "rolled_back" /\ e.seq = i
        /\ e.from = "rollout" /\ e \in AnyEvent
    BY <1>3, <1>4, <1>8, TypesNamed DEF Undoes, Event, AnyEvent
  <2>2. TakesBack(p, i, e.turn) /\ e.turn \in Turn
    BY <1>8, <2>1, TakesBackNamed
  <2> QED
    BY <2>1, <2>2 DEF Terminal, Undone
<1>9. CASE p[i].kind = "tool_call" /\ e = UsesTool(p, i)
  <2>1. /\ e.type = "tool_call" /\ e.turn = NamedBefore(p, i) /\ e.status = "completed" /\ e.seq = i
        /\ e.from = "rollout" /\ e \in AnyEvent
    BY <1>3, <1>9, TypesNamed DEF UsesTool, Event, AnyEvent
  <2> QED
    BY <2>1 DEF Terminal
<1> QED
  BY <1>2, <1>5, <1>6, <1>7, <1>8, <1>9

\* What the events of a rollout tell.
LEMMA RolloutTells ==
  ASSUME NEW p, Rollout(p)
  PROVE  /\ \A i \in DOMAIN p : p[i].kind = "task_started" =>
              \E e \in RolloutEvents(p) : e.type = "turn_started" /\ e.turn = p[i].turn /\ e.seq = i
         /\ \A i \in DOMAIN p : p[i].kind \in {"task_complete", "turn_aborted"} =>
              \E e \in RolloutEvents(p) : Terminal(e) /\ e.turn = p[i].turn
         /\ \A t : Undone(p, t) => \E e \in RolloutEvents(p) : e.type = "turn_failed" /\ e.turn = t
<1>1. ASSUME NEW i \in DOMAIN p, p[i].kind = "task_started"
      PROVE  \E e \in RolloutEvents(p) : e.type = "turn_started" /\ e.turn = p[i].turn /\ e.seq = i
  <2>1. Started(p, i) \in RolloutEvents(p)
    BY <1>1, RolloutEventsAre
  <2> QED
    BY <2>1, EventFields DEF Started
<1>2. ASSUME NEW i \in DOMAIN p, p[i].kind = "task_complete"
      PROVE  \E e \in RolloutEvents(p) : Terminal(e) /\ e.turn = p[i].turn
  <2>1. Completed(p, i) \in RolloutEvents(p)
    BY <1>2, RolloutEventsAre
  <2> QED
    BY <2>1, EventFields DEF Completed, Terminal
<1>3. ASSUME NEW i \in DOMAIN p, p[i].kind = "turn_aborted"
      PROVE  \E e \in RolloutEvents(p) : e.type = "turn_failed" /\ e.turn = p[i].turn
  <2>1. Aborted(p, i) \in RolloutEvents(p)
    BY <1>3, RolloutEventsAre
  <2> QED
    BY <2>1, EventFields DEF Aborted
<1>4. ASSUME NEW t, Undone(p, t)
      PROVE  \E e \in RolloutEvents(p) : e.type = "turn_failed" /\ e.turn = t
  <2>1. PICK i \in DOMAIN p : TakesBack(p, i, t)
    BY <1>4 DEF Undone
  <2>2. p[i].kind = "thread_rolled_back" /\ NamedBefore(p, i) = t
    BY <2>1, TakesBackNamed DEF TakesBack
  <2>3. CASE \E j \in DOMAIN p : p[j].kind = "turn_aborted" /\ p[j].turn = t
    BY <1>3, <2>3
  <2>4. CASE ~\E j \in DOMAIN p : p[j].kind = "turn_aborted" /\ p[j].turn = t
    <3>1. Undoes(p, i) \in RolloutEvents(p)
      BY <2>2, <2>4, RolloutEventsAre
    <3> QED
      BY <2>2, <3>1, EventFields DEF Undoes
  <2> QED
    BY <2>3, <2>4
<1> QED
  BY <1>1, <1>2, <1>3, <1>4 DEF Terminal

-----------------------------------------------------------------------------
(* Merging and reconciling                                                 *)

LEMMA LeastEvent ==
  ASSUME NEW C \in SUBSET AnyEvent, C # {}
  PROVE  \E e \in C : \A f \in C : e.seq <= f.seq
<1> DEFINE S == {e.seq : e \in C}
<1>1. S \in SUBSET Nat /\ S # {}
  BY DEF AnyEvent
<1>2. PICK n \in S : \A m \in S : n <= m
  BY <1>1, LeastOf
<1> QED
  BY <1>2

LEMMA GreatestEvent ==
  ASSUME NEW C \in SUBSET AnyEvent, C # {}, NEW bound \in Nat, \A e \in C : e.seq <= bound
  PROVE  \E e \in C : \A f \in C : f.seq <= e.seq
<1> DEFINE S == {e.seq : e \in C}
<1>1. S \in SUBSET Nat /\ S # {} /\ \A n \in S : n <= bound
  BY DEF AnyEvent
<1>2. PICK n \in S : \A m \in S : m <= n
  BY <1>1, GreatestOf
<1> QED
  BY <1>2

LEMMA EarliestExists ==
  ASSUME NEW C \in SUBSET AnyEvent, C # {}
  PROVE  \E e \in C : \A f \in C : Before(e, f)
<1>1. \A e \in C : e.from \in {"rollout", "store"}
  BY DEF AnyEvent
<1> DEFINE D == {e \in C : e.from = "rollout"}
<1>2. CASE D # {}
  <2>1. PICK e \in D : \A f \in D : e.seq <= f.seq
    <3>1. D \in SUBSET AnyEvent
      OBVIOUS
    <3> QED
      BY <1>2, <3>1, LeastEvent
  <2> QED
    BY <2>1 DEF Before
<1>3. CASE D = {}
  <2>1. PICK e \in C : \A f \in C : e.seq <= f.seq
    BY LeastEvent
  <2>2. \A f \in C : f.from = "store"
    BY <1>1, <1>3
  <2> QED
    BY <2>1, <2>2 DEF Before
<1> QED
  BY <1>2, <1>3

LEMMA LatestExists ==
  ASSUME NEW C \in SUBSET AnyEvent, C # {}, NEW bound \in Nat, \A e \in C : e.seq <= bound
  PROVE  \E e \in C : \A f \in C : Before(f, e)
<1>1. \A e \in C : e.from \in {"rollout", "store"}
  BY DEF AnyEvent
<1> DEFINE D == {e \in C : e.from = "store"}
<1>2. CASE D # {}
  <2>1. PICK e \in D : \A f \in D : f.seq <= e.seq
    <3>1. D \in SUBSET AnyEvent /\ \A e \in D : e.seq <= bound
      OBVIOUS
    <3> QED
      BY <1>2, <3>1, GreatestEvent
  <2>2. \A f \in C : f \in D \/ f.from = "rollout"
    BY <1>1
  <2> QED
    BY <2>1, <2>2 DEF Before
<1>3. CASE D = {}
  <2>1. PICK e \in C : \A f \in C : f.seq <= e.seq
    BY GreatestEvent
  <2>2. \A f \in C : f.from = "rollout"
    BY <1>1, <1>3
  <2> QED
    BY <2>1, <2>2 DEF Before
<1> QED
  BY <1>2, <1>3

LEMMA KeyIsShared ==
  ASSUME NEW e, NEW f, NEW g, SameKey(e, f)
  PROVE  /\ f.type = e.type /\ f.turn = e.turn /\ SameKey(e, e)
         /\ SameKey(e, g) <=> SameKey(f, g)
BY DEF SameKey, IsLifecycle

\* A merged event is at the place of the first of its key, with the status of the last.
LEMMA MergedFrom ==
  ASSUME NEW P, NEW X, P \cup X \subseteq AnyEvent,
         NEW bound \in Nat, \A e \in P \cup X : e.seq <= bound
  PROVE  /\ \A m \in MergeEvents(P, X) :
              /\ m \in AnyEvent
              /\ \E e \in P \cup X, l \in P \cup X :
                   /\ m = [e EXCEPT !.status = l.status] /\ SameKey(e, l)
                   /\ \A f \in P \cup X : SameKey(e, f) => Before(e, f)
         /\ \A e \in P \cup X : \E m \in MergeEvents(P, X) : m.type = e.type /\ m.turn = e.turn
<1> DEFINE all == P \cup X
           Class(e) == {f \in all : SameKey(e, f)}
           Earliest(C) == CHOOSE e \in C : \A f \in C : Before(e, f)
           Latest(C) == CHOOSE e \in C : \A f \in C : Before(f, e)
           One(e) == [Earliest(Class(e)) EXCEPT !.status = Latest(Class(e)).status]
<1>1. MergeEvents(P, X) = {One(e) : e \in all}
  BY DEF MergeEvents
<1>2. ASSUME NEW e \in all
      PROVE  /\ Earliest(Class(e)) \in Class(e) /\ \A f \in Class(e) : Before(Earliest(Class(e)), f)
             /\ Latest(Class(e)) \in Class(e)
  <2> DEFINE C == Class(e)
  <2>1. C \in SUBSET AnyEvent /\ \A f \in C : f.seq <= bound
    OBVIOUS
  <2>2. C # {}
    BY DEF SameKey
  <2> HIDE DEF C
  <2>3. \E f \in C : \A g \in C : Before(f, g)
    BY <2>1, <2>2, EarliestExists
  <2>4. \E f \in C : \A g \in C : Before(g, f)
    BY <2>1, <2>2, LatestExists
  <2>5. Earliest(C) \in C /\ (\A f \in C : Before(Earliest(C), f)) /\ Latest(C) \in C
    BY <2>3, <2>4
  <2> QED
    BY <2>5 DEF C
<1>3. ASSUME NEW e \in all
      PROVE  \E f \in all, l \in all :
               /\ One(e) = [f EXCEPT !.status = l.status]
               /\ SameKey(e, f) /\ SameKey(e, l) /\ \A g \in all : SameKey(e, g) => Before(f, g)
  <2> DEFINE f == Earliest(Class(e))
             l == Latest(Class(e))
  <2>1. f \in Class(e) /\ l \in Class(e) /\ \A g \in Class(e) : Before(f, g)
    BY <1>2
  <2>2. One(e) = [f EXCEPT !.status = l.status]
    OBVIOUS
  <2> HIDE DEF f, l, One
  <2> QED
    BY <2>1, <2>2
<1> HIDE DEF One
<1>4. ASSUME NEW e \in all
      PROVE  /\ One(e) \in AnyEvent /\ One(e).type = e.type /\ One(e).turn = e.turn
             /\ \E f \in P \cup X, l \in P \cup X :
                   /\ One(e) = [f EXCEPT !.status = l.status] /\ SameKey(f, l)
                   /\ \A g \in P \cup X : SameKey(f, g) => Before(f, g)
  <2>1. PICK f \in all, l \in all :
               /\ One(e) = [f EXCEPT !.status = l.status]
               /\ SameKey(e, f) /\ SameKey(e, l) /\ \A g \in all : SameKey(e, g) => Before(f, g)
    BY <1>3
  <2>2. f.type = e.type /\ f.turn = e.turn /\ SameKey(f, l)
    BY <2>1, KeyIsShared
  <2>3. \A g \in all : SameKey(f, g) => Before(f, g)
    BY <2>1, KeyIsShared
  <2>4. f \in AnyEvent /\ l \in AnyEvent
    OBVIOUS
  <2>5. One(e) \in AnyEvent /\ One(e).type = f.type /\ One(e).turn = f.turn
    BY <2>1, <2>4 DEF AnyEvent
  <2> QED
    BY <2>1, <2>2, <2>3, <2>5
<1> QED
  BY <1>1, <1>4

LEMMA MergedFields ==
  ASSUME NEW P, NEW X, P \cup X \subseteq AnyEvent,
         NEW bound \in Nat, \A e \in P \cup X : e.seq <= bound, NEW m \in MergeEvents(P, X)
  PROVE  /\ m \in AnyEvent /\ m.seq <= bound
         /\ \E e \in P \cup X, l \in P \cup X :
              /\ m.type = e.type /\ m.turn = e.turn /\ m.seq = e.seq /\ m.from = e.from
              /\ l.type = e.type /\ l.turn = e.turn /\ m.status = l.status
              /\ \A f \in P \cup X : SameKey(e, f) => Before(e, f)
<1>1. PICK e \in P \cup X, l \in P \cup X :
        /\ m = [e EXCEPT !.status = l.status] /\ SameKey(e, l)
        /\ \A f \in P \cup X : SameKey(e, f) => Before(e, f)
  BY MergedFrom
<1>2. m \in AnyEvent
  BY MergedFrom
<1>3. l.type = e.type /\ l.turn = e.turn
  BY <1>1, KeyIsShared
<1>4. e \in AnyEvent
  OBVIOUS
<1>5. m.type = e.type /\ m.turn = e.turn /\ m.seq = e.seq /\ m.from = e.from /\ m.status = l.status
  BY <1>1, <1>4 DEF AnyEvent
<1> QED
  BY <1>1, <1>2, <1>3, <1>5

LEMMA ReconciledIs ==
  ASSUME NEW thread, NEW M \in SUBSET AnyEvent, NEW bound \in Nat, \A e \in M : e.seq <= bound, NEW run
  PROVE  /\ M \subseteq Reconcile(thread, M, run)
         /\ \A e \in Reconcile(thread, M, run) : e \notin M =>
              /\ e.turn \in DOMAIN thread /\ e.status \in {"started", "failed", "completed"}
              /\ e.type \in {"turn_started", "turn_failed", "turn_completed"}
              /\ e.type = "turn_started" => thread[e.turn].status = "running"
              /\ Terminal(e) => e.turn \in Over(thread, M)
         /\ \A t \in Over(thread, M) : \E e \in Reconcile(thread, M, run) :
              Terminal(e) /\ e.turn = t /\ e.seq \in Nat /\ \A f \in M : f.seq < e.seq
<1> DEFINE top == IF M = {} THEN 0 ELSE (CHOOSE e \in M : \A f \in M : f.seq <= e.seq).seq
           begun == {t \in DOMAIN thread \cap run : thread[t].status = "running"
                       /\ ~\E e \in M : e.type = "turn_started" /\ e.turn = t}
           A == {Event("turn_started", t, "started", top + 1, "thread") : t \in begun}
           End(t) == IF thread[t].status = "failed"
                     THEN Event("turn_failed", t, "failed", top + 1, "thread")
                     ELSE Event("turn_completed", t, "completed", top + 1, "thread")
           B == {End(t) : t \in Over(thread, M)}
<1>1. Reconcile(thread, M, run) = M \cup A \cup B
  BY DEF Reconcile
<1>2. top \in Nat /\ \A f \in M : f.seq \in Nat /\ f.seq <= top
  <2>1. CASE M = {}
    BY <2>1
  <2>2. CASE M # {}
    <3>1. \E e \in M : \A f \in M : f.seq <= e.seq
      BY <2>2, GreatestEvent
    <3> DEFINE e == CHOOSE e \in M : \A f \in M : f.seq <= e.seq
    <3>2. e \in M /\ \A f \in M : f.seq <= e.seq
      BY <3>1
    <3>3. top = e.seq
      BY <2>2
    <3> HIDE DEF e, top
    <3> QED
      BY <3>2, <3>3 DEF AnyEvent
  <2> QED
    BY <2>1, <2>2
<1> HIDE DEF top
<1>3. \A e \in A : /\ e.turn \in DOMAIN thread /\ e.status = "started" /\ e.type = "turn_started"
                   /\ thread[e.turn].status = "running"
  BY EventFields
<1>4. ASSUME NEW t \in Over(thread, M)
      PROVE  /\ t \in DOMAIN thread /\ End(t).turn = t /\ End(t).status \in {"failed", "completed"}
             /\ End(t).type \in {"turn_failed", "turn_completed"} /\ End(t).seq = top + 1
  <2>1. t \in DOMAIN thread
    BY DEF Over
  <2> QED
    BY <2>1, EventFields
<1>5. \A e \in B : /\ e.turn \in DOMAIN thread /\ e.status \in {"failed", "completed"}
                   /\ e.type \in {"turn_failed", "turn_completed"} /\ e.turn \in Over(thread, M)
  <2> HIDE DEF End
  <2> QED
    BY <1>4
<1>6. \A t \in Over(thread, M) : /\ End(t) \in B /\ Terminal(End(t)) /\ End(t).turn = t
                                 /\ End(t).seq \in Nat /\ \A f \in M : f.seq < End(t).seq
  <2> TAKE t \in Over(thread, M)
  <2>1. End(t) \in B
    OBVIOUS
  <2> HIDE DEF End, B
  <2> QED
    BY <1>2, <1>4, <2>1 DEF Terminal
<1> HIDE DEF A, B, End
<1>7. \A e \in A : ~Terminal(e)
  BY <1>3 DEF Terminal
<1> QED
  BY <1>1, <1>3, <1>5, <1>6, <1>7

LEMMA SourcesAreEvents ==
  ASSUME EventsInv, NEW p, Rollout(p)
  PROVE  /\ RolloutEvents(p) \cup Stored \subseteq AnyEvent
         /\ \E bound \in Nat : \A e \in RolloutEvents(p) \cup Stored : e.seq <= bound
<1>1. Len(p) \in Nat /\ DOMAIN p = 1..Len(p) /\ StoreBase \in Nat
  BY RolloutFields, TimelineAssumption
<1>2. \A e \in RolloutEvents(p) : e \in AnyEvent /\ e.seq \in 1..Len(p)
  BY <1>1, RolloutEventsFrom
<1>3. stored \in Seq(ToldEvents) /\ Len(stored) \in Nat /\ DOMAIN stored = 1..Len(stored)
  BY DEF EventsInv
<1>4. \A e \in Stored : e \in ToldEvents /\ \E i \in DOMAIN stored : e = stored[i]
  BY <1>3 DEF Stored
<1>5. \A e \in Stored : e \in AnyEvent
  <2>1. ToldEvents \subseteq StoredEvent
    BY DEF ToldEvents
  <2>2. StoredEvent \subseteq AnyEvent
    BY KindsKnown DEF StoredEvent, AnyEvent
  <2> QED
    BY <1>4, <2>1, <2>2
<1>6. \A e \in Stored : e.seq <= StoreBase + Len(stored)
  <2> TAKE e \in Stored
  <2>1. PICK i \in DOMAIN stored : e = stored[i]
    BY <1>4
  <2>2. e.seq = StoreBase + i
    BY <2>1 DEF EventsInv
  <2> QED
    BY <1>1, <1>3, <2>2
<1>7. /\ StoreBase + Len(stored) + Len(p) \in Nat
      /\ \A e \in RolloutEvents(p) \cup Stored : e.seq <= StoreBase + Len(stored) + Len(p)
  <2>1. StoreBase + Len(stored) + Len(p) \in Nat
    BY <1>1, <1>3
  <2>2. \A e \in RolloutEvents(p) : e.seq <= StoreBase + Len(stored) + Len(p)
    BY <1>1, <1>2, <1>3
  <2>3. \A e \in Stored : e.seq \in Nat
    BY <1>5 DEF AnyEvent
  <2>4. \A e \in Stored : e.seq <= StoreBase + Len(stored) + Len(p)
    BY <1>1, <1>3, <1>6, <2>3
  <2> QED
    BY <2>1, <2>2, <2>4
<1> QED
  BY <1>2, <1>5, <1>7

-----------------------------------------------------------------------------
(* The turn under way                                                      *)

LEMMA WholeFile ==
  ASSUME LinesInv
  PROVE  /\ Rollout(lines) /\ Len(lines) \in Nat
         /\ Flushed => SubSeq(lines, 1, written) = lines
<1>1. Book(lines, turns, running) /\ lines \in Seq(RolloutLine)
  BY BookFields DEF LinesInv
<1>2. SubSeq(lines, 1, Len(lines)) = lines
  BY <1>1
<1> QED
  BY <1>1, <1>2 DEF Flushed, Book

\* Neither the file nor the store has an end of the turn that runs.
LEMMA RunningUnended ==
  ASSUME HistoryInv, running # 0, NEW e \in RolloutEvents(lines) \cup Stored, e.turn = running
  PROVE  ~Terminal(e)
<1>1. Book(lines, turns, running) /\ Rollout(lines) /\ running \in Turn
  BY BookFields DEF HistoryInv, LinesInv, TurnsInv
<1>2. CASE e \in RolloutEvents(lines)
  <2> SUFFICES ASSUME Terminal(e) PROVE FALSE
    OBVIOUS
  <2>1. /\ e.seq \in DOMAIN lines
        /\ \/ lines[e.seq].kind \in {"task_complete", "turn_aborted"} /\ lines[e.seq].turn = running
           \/ TakesBack(lines, e.seq, running)
    BY <1>1, <1>2, RolloutEventsFrom
  <2>2. ~TakesBack(lines, e.seq, running)
    <3>1. TakesBack(lines, e.seq, running) => turns[running].status = "erased"
      BY <1>1, <2>1 DEF Book
    <3>2. turns[running].status = "running"
      BY <1>1 DEF HistoryInv, TurnsInv
    <3> QED
      BY <3>1, <3>2
  <2> QED
    BY <1>1, <2>1, <2>2 DEF Book
<1>3. CASE e \in Stored
  <2>1. PICK i \in DOMAIN stored : e = stored[i]
    BY <1>3 DEF Stored
  <2>2. e \in ToldEvents
    BY <2>1 DEF HistoryInv, EventsInv
  <2> QED
    BY <2>2 DEF ToldEvents, Told, Terminal
<1> QED
  BY <1>2, <1>3

LEMMA RunningShows ==
  ASSUME HistoryInv, Flushed, running # 0
  PROVE  Unfinished(DetailEvents([t \in Known |-> turns[t]], written), running)
<1> DEFINE R == RolloutEvents(lines)
           M == MergeEvents(R, Stored)
           thread == [t \in Known |-> turns[t]]
           run == {active} \ {0}
           E == Reconcile(thread, M, run)
<1>1. Rollout(lines) /\ DetailEvents(thread, written) = E
  BY WholeFile DEF HistoryInv, DetailEvents
<1>2. PICK bound \in Nat : \A e \in R \cup Stored : e.seq <= bound
  BY <1>1, SourcesAreEvents DEF HistoryInv
<1>3. R \cup Stored \subseteq AnyEvent
  BY <1>1, SourcesAreEvents DEF HistoryInv
<1>4. running \in Turn /\ turns[running].status = "running" /\ Book(lines, turns, running)
  BY DEF HistoryInv, TurnsInv, LinesInv
<1>5. \A m \in M : m.turn = running => ~Terminal(m)
  <2> TAKE m \in M
  <2>1. PICK e \in R \cup Stored : m.type = e.type /\ m.turn = e.turn
    BY <1>2, <1>3, MergedFields
  <2> QED
    BY <2>1, RunningUnended DEF Terminal
<1>6. \E m \in M : m.type = "turn_started" /\ m.turn = running
  <2>1. PICK i \in DOMAIN lines : lines[i].kind = "task_started" /\ lines[i].turn = running
    BY <1>4 DEF Book
  <2>2. PICK e \in R : e.type = "turn_started" /\ e.turn = running
    BY <1>1, <2>1, RolloutTells
  <2>3. \A f \in R \cup Stored : \E m \in M : m.type = f.type /\ m.turn = f.turn
    BY <1>2, <1>3, MergedFrom
  <2> QED
    BY <2>2, <2>3
<1>7. M \in SUBSET AnyEvent /\ \A m \in M : m.seq <= bound
  BY <1>2, <1>3, MergedFields
<1>8. running \notin Over(thread, M)
  BY <1>4 DEF Over, Ended
<1> HIDE DEF M, E, thread, run
<1>9. M \subseteq E /\ \A e \in E : e \notin M /\ Terminal(e) => e.turn \in Over(thread, M)
  BY <1>2, <1>7, ReconciledIs DEF E
<1>10. \A e \in E : Terminal(e) => e.turn # running
  BY <1>5, <1>8, <1>9
<1>11. Unfinished(E, running)
  BY <1>6, <1>9, <1>10 DEF Unfinished
<1> QED
  BY <1>1, <1>11 DEF thread

\* What the store has of ends: a completed turn has its end in the file.
LEMMA StoredEnds ==
  ASSUME HistoryInv, NEW e \in Stored
  PROVE  /\ e.turn \in Begun /\ e.seq \in Nat /\ e.from = "store"
         /\ e.type = "turn_completed" => Closed(lines, e.turn)
<1>1. PICK i \in DOMAIN stored : e = stored[i]
  BY DEF Stored
<1>2. e \in ToldEvents
  BY <1>1 DEF HistoryInv, EventsInv
<1> QED
  BY <1>2 DEF ToldEvents, Told, StoredEvent

\* The beginning of a turn is an event of its task_started line.
LEMMA StartIsRead ==
  ASSUME HistoryInv, NEW t \in Turn, t \in Begun,
         NEW s \in MergeEvents(RolloutEvents(lines), Stored), s.type = "turn_started", s.turn = t
  PROVE  s.seq \in DOMAIN lines /\ lines[s.seq].kind = "task_started" /\ lines[s.seq].turn = t
<1> DEFINE R == RolloutEvents(lines)
<1>1. Rollout(lines) /\ Book(lines, turns, running)
  BY WholeFile DEF HistoryInv, LinesInv
<1>2. PICK bound \in Nat : \A e \in R \cup Stored : e.seq <= bound
  BY <1>1, SourcesAreEvents DEF HistoryInv
<1>3. R \cup Stored \subseteq AnyEvent
  BY <1>1, SourcesAreEvents DEF HistoryInv
<1>4. PICK e \in R \cup Stored : /\ s.type = e.type /\ s.turn = e.turn /\ s.seq = e.seq
                                 /\ \A f \in R \cup Stored : SameKey(e, f) => Before(e, f)
  BY <1>2, <1>3, MergedFields
<1>5. PICK i \in DOMAIN lines : lines[i].kind = "task_started" /\ lines[i].turn = t
  BY <1>1 DEF Book, Begun
<1>6. PICK f \in R : f.type = "turn_started" /\ f.turn = t
  BY <1>1, <1>5, RolloutTells
<1>7. Before(e, f)
  BY <1>4, <1>6 DEF SameKey, IsLifecycle
<1>8. f.from = "rollout"
  BY <1>1, <1>6, RolloutEventsFrom
<1>9. e.from = "rollout"
  BY <1>7, <1>8 DEF Before
<1>10. e \in R
  BY <1>9, StoredEnds
<1> QED
  BY <1>1, <1>4, <1>10, RolloutEventsFrom

\* An end of a turn the rollout has stays where it is.
LEMMA EndIsRead ==
  ASSUME HistoryInv, NEW f \in RolloutEvents(lines), Terminal(f)
  PROVE  \E m \in MergeEvents(RolloutEvents(lines), Stored) :
           /\ m.type = f.type /\ m.turn = f.turn
           /\ \E g \in RolloutEvents(lines) : g.type = f.type /\ g.turn = f.turn /\ m.seq = g.seq
<1> DEFINE R == RolloutEvents(lines)
<1>1. Rollout(lines)
  BY WholeFile DEF HistoryInv
<1>2. PICK bound \in Nat : \A e \in R \cup Stored : e.seq <= bound
  BY <1>1, SourcesAreEvents DEF HistoryInv
<1>3. R \cup Stored \subseteq AnyEvent
  BY <1>1, SourcesAreEvents DEF HistoryInv
<1>4. PICK m \in MergeEvents(R, Stored) : m.type = f.type /\ m.turn = f.turn
  BY <1>2, <1>3, MergedFrom
<1>5. PICK e \in R \cup Stored : /\ m.type = e.type /\ m.turn = e.turn /\ m.seq = e.seq
                                 /\ \A g \in R \cup Stored : SameKey(e, g) => Before(e, g)
  BY <1>2, <1>3, <1>4, MergedFields
<1>6. SameKey(e, f)
  BY <1>4, <1>5 DEF SameKey, IsLifecycle, Terminal
<1>7. f.from = "rollout"
  BY <1>1, RolloutEventsFrom
<1>8. e.from = "rollout"
  BY <1>5, <1>6, <1>7 DEF Before
<1>9. e \in R
  BY <1>8, StoredEnds
<1> QED
  BY <1>4, <1>5, <1>9

\* An end of the rollout is where its turn begins, or after it.
LEMMA EndFollows ==
  ASSUME HistoryInv, NEW t \in Turn, NEW i \in DOMAIN lines, lines[i].kind = "task_started",
         lines[i].turn = t, NEW f \in RolloutEvents(lines), Terminal(f), f.turn = t
  PROVE  f.seq >= i /\ f.seq \in Nat
<1>1. /\ Rollout(lines) /\ t # 0 /\ DOMAIN lines = 1..Len(lines) /\ Len(lines) \in Nat
  BY WholeFile, RolloutFields, TurnNumbers DEF HistoryInv
<1>2. /\ f.seq \in DOMAIN lines
      /\ \/ lines[f.seq].kind \in {"task_complete", "turn_aborted"} /\ lines[f.seq].turn = t
         \/ TakesBack(lines, f.seq, t)
  BY <1>1, RolloutEventsFrom
<1>3. \A j \in DOMAIN lines : j < i => lines[j].turn # t
  BY <1>1 DEF Rollout
<1>4. CASE lines[f.seq].turn = t
  BY <1>1, <1>2, <1>3, <1>4
<1>5. CASE TakesBack(lines, f.seq, t)
  <2>1. PICK m \in DOMAIN lines : m < f.seq /\ lines[m].turn = t
    BY <1>5 DEF TakesBack, MarkedBy
  <2> QED
    BY <1>1, <1>2, <1>3, <2>1
<1> QED
  BY <1>2, <1>4, <1>5

(* With nothing under way, an unfinished turn is one whose only ends are   *)
(* those the store has of an exit, with numbers below its beginning's.     *)
LEMMA RestShows ==
  ASSUME HistoryInv, Flushed, running = 0, NEW t \in Turn,
         Unfinished(DetailEvents([u \in Known |-> turns[u]], written), t)
  PROVE  t \in Misplaced
<1> DEFINE R == RolloutEvents(lines)
           M == MergeEvents(R, Stored)
           thread == [u \in Known |-> turns[u]]
           run == {active} \ {0}
           E == Reconcile(thread, M, run)
<1>1. Rollout(lines) /\ DetailEvents(thread, written) = E /\ Len(lines) \in Nat
  BY WholeFile DEF HistoryInv, DetailEvents
<1>2. PICK bound \in Nat : \A e \in R \cup Stored : e.seq <= bound
  BY <1>1, SourcesAreEvents DEF HistoryInv
<1>3. R \cup Stored \subseteq AnyEvent
  BY <1>1, SourcesAreEvents DEF HistoryInv
<1>4. M \in SUBSET AnyEvent /\ \A m \in M : m.seq <= bound
  BY <1>2, <1>3, MergedFields
<1>5. /\ Book(lines, turns, running) /\ DOMAIN lines = 1..Len(lines)
      /\ t # 0 /\ \A i \in DOMAIN lines : i \in Nat
  BY <1>1, RolloutFields, TurnNumbers DEF HistoryInv, LinesInv
<1>6. PICK s \in E : /\ s.type = "turn_started" /\ s.turn = t
                     /\ \A e \in E : Terminal(e) /\ e.turn = t => e.seq < s.seq
  BY <1>1 DEF Unfinished
<1>7. /\ M \subseteq E
      /\ \A e \in E : e \notin M => /\ e.turn \in DOMAIN thread
                                    /\ e.type = "turn_started" => thread[e.turn].status = "running"
      /\ \A u \in Over(thread, M) : \E e \in E :
           Terminal(e) /\ e.turn = u /\ e.seq \in Nat /\ \A f \in M : f.seq < e.seq
  <2> HIDE DEF M, thread, run
  <2>1. M \subseteq E
    BY <1>2, <1>4, ReconciledIs
  <2>2. \A e \in E : e \notin M => /\ e.turn \in DOMAIN thread
                                   /\ e.type = "turn_started" => thread[e.turn].status = "running"
    BY <1>2, <1>4, ReconciledIs
  <2>3. \A u \in Over(thread, M) : \E e \in E :
           Terminal(e) /\ e.turn = u /\ e.seq \in Nat /\ \A f \in M : f.seq < e.seq
    BY <1>2, <1>4, ReconciledIs
  <2> HIDE DEF E
  <2> QED
    BY <2>1, <2>2, <2>3
<1>8. s \in M
  <2>1. ASSUME s \notin M PROVE FALSE
    <3>1. t \in Known /\ turns[t].status = "running"
      BY <1>6, <1>7, <2>1
    <3> QED
      BY <1>5, <3>1 DEF HistoryInv, TurnsInv
  <2> QED
    BY <2>1
<1>9. t \in Begun
  <2>1. PICK e \in R \cup Stored : s.type = e.type /\ s.turn = e.turn
    BY <1>2, <1>3, <1>8, MergedFields
  <2>2. CASE e \in Stored
    BY <1>6, <2>1, <2>2, StoredEnds
  <2>3. CASE e \in R
    <3>1. e.seq \in DOMAIN lines /\ lines[e.seq].turn = t
      BY <1>1, <1>6, <2>1, <2>3, RolloutEventsFrom
    <3> QED
      BY <1>5, <3>1 DEF Book, Begun
  <2> QED
    BY <2>2, <2>3
<1>10. s.seq \in DOMAIN lines /\ lines[s.seq].kind = "task_started" /\ lines[s.seq].turn = t
  BY <1>6, <1>8, <1>9, StartIsRead
<1>11. s.seq \in Nat
  BY <1>5, <1>10
<1>12. ASSUME NEW f \in R, Terminal(f), f.turn = t
       PROVE  FALSE
  <2>1. PICK m \in M, g \in R : /\ m.type = f.type /\ m.turn = t /\ m.seq = g.seq
                                /\ g.type = f.type /\ g.turn = t
    BY <1>12, EndIsRead
  <2>2. Terminal(m) /\ Terminal(g)
    BY <1>12, <2>1 DEF Terminal
  <2>3. g.seq >= s.seq /\ g.seq \in Nat
    BY <1>10, <2>1, <2>2, EndFollows
  <2>4. m.seq < s.seq
    BY <1>6, <1>7, <2>1, <2>2
  <2> QED
    BY <1>11, <2>1, <2>3, <2>4
<1>13. \A i \in DOMAIN lines : lines[i].turn = t => lines[i].kind \notin {"task_complete", "turn_aborted"}
  <2>1. SUFFICES ASSUME NEW i \in DOMAIN lines, lines[i].turn = t,
                        lines[i].kind \in {"task_complete", "turn_aborted"}
                 PROVE  FALSE
    OBVIOUS
  <2>2. PICK f \in R : Terminal(f) /\ f.turn = t
    BY <1>1, <2>1, RolloutTells DEF Terminal
  <2> QED
    BY <1>12, <2>2
<1>14. turns[t].status # "erased"
  <2>1. SUFFICES ASSUME turns[t].status = "erased" PROVE FALSE
    OBVIOUS
  <2>2. Undone(lines, t)
    BY <1>5, <2>1 DEF Book, Undone
  <2>3. PICK f \in R : f.type = "turn_failed" /\ f.turn = t
    BY <1>1, <2>2, RolloutTells
  <2> QED
    BY <1>12, <2>3 DEF Terminal
<1>15. turns[t].status \in Ended /\ t \in Known
  <2>1. turns[t] \in SomeTurn /\ turns[t].status # "running"
    BY <1>5 DEF HistoryInv, TurnsInv
  <2> QED
    BY <1>9, <1>14, <2>1 DEF SomeTurn, Begun, Known
<1>16. \E m \in M : Terminal(m) /\ m.turn = t
  <2>1. SUFFICES ASSUME ~\E m \in M : Terminal(m) /\ m.turn = t PROVE FALSE
    OBVIOUS
  <2>2. t \in Over(thread, M)
    BY <1>15, <2>1 DEF Over
  <2>3. PICK f \in E : Terminal(f) /\ f.turn = t /\ f.seq \in Nat /\ \A g \in M : g.seq < f.seq
    BY <1>7, <2>2
  <2>4. f.seq < s.seq /\ s.seq < f.seq
    BY <1>6, <1>8, <2>3
  <2> QED
    BY <1>11, <2>3, <2>4
<1>17. PICK m \in M : Terminal(m) /\ m.turn = t
  BY <1>16
<1>18. PICK x \in R \cup Stored : m.type = x.type /\ m.turn = x.turn /\ m.seq = x.seq
  BY <1>2, <1>3, <1>17, MergedFields
<1>19. Terminal(x) /\ x.turn = t
  BY <1>17, <1>18 DEF Terminal
<1>20. x \in Stored
  BY <1>12, <1>18, <1>19
<1>21. x.type = "turn_failed"
  BY <1>13, <1>19, <1>20, StoredEnds DEF Terminal, Closed
<1>22. x.seq < s.seq
  BY <1>6, <1>7, <1>17, <1>18
<1> QED
  BY <1>10, <1>13, <1>15, <1>19, <1>20, <1>21, <1>22 DEF Misplaced

(* Such a turn is unfinished: its beginning is the line's, its end the     *)
(* first the store has, and it gets no other.                              *)
LEMMA MisplacedShows ==
  ASSUME HistoryInv, Flushed, NEW t \in Misplaced
  PROVE  Unfinished(DetailEvents([u \in Known |-> turns[u]], written), t)
<1> DEFINE R == RolloutEvents(lines)
           M == MergeEvents(R, Stored)
           thread == [u \in Known |-> turns[u]]
           run == {active} \ {0}
           E == Reconcile(thread, M, run)
<1>1. Rollout(lines) /\ DetailEvents(thread, written) = E /\ Len(lines) \in Nat
  BY WholeFile DEF HistoryInv, DetailEvents
<1>2. PICK bound \in Nat : \A e \in R \cup Stored : e.seq <= bound
  BY <1>1, SourcesAreEvents DEF HistoryInv
<1>3. R \cup Stored \subseteq AnyEvent
  BY <1>1, SourcesAreEvents DEF HistoryInv
<1>4. M \in SUBSET AnyEvent /\ \A m \in M : m.seq <= bound
  BY <1>2, <1>3, MergedFields
<1>5. /\ Book(lines, turns, running) /\ DOMAIN lines = 1..Len(lines)
      /\ \A i \in DOMAIN lines : i \in Nat
  BY <1>1, RolloutFields DEF HistoryInv, LinesInv
<1>6. /\ t \in Turn /\ turns[t].status \in Ended
      /\ \A i \in DOMAIN lines : lines[i].turn = t => lines[i].kind \notin {"task_complete", "turn_aborted"}
  BY DEF Misplaced
<1>7. PICK g \in Stored, i \in DOMAIN lines :
        /\ g.type = "turn_failed" /\ g.turn = t
        /\ lines[i].kind = "task_started" /\ lines[i].turn = t /\ g.seq < i
  BY DEF Misplaced
<1>8. g.seq \in Nat /\ t \in Begun /\ t # 0
  BY <1>6, <1>7, StoredEnds, TurnNumbers
<1>9. PICK s \in M : s.type = "turn_started" /\ s.turn = t
  <2>1. PICK f \in R : f.type = "turn_started" /\ f.turn = t
    BY <1>1, <1>7, RolloutTells
  <2>2. \E m \in M : m.type = f.type /\ m.turn = f.turn
    BY <1>2, <1>3, <2>1, MergedFrom
  <2> QED
    BY <2>1, <2>2
<1>10. s.seq = i
  <2>1. s.seq \in DOMAIN lines /\ lines[s.seq].kind = "task_started" /\ lines[s.seq].turn = t
    BY <1>6, <1>8, <1>9, StartIsRead
  <2>2. ~(s.seq < i) /\ ~(i < s.seq)
    BY <1>1, <1>7, <1>8, <2>1 DEF Rollout
  <2> QED
    BY <1>5, <2>1, <2>2
<1>11. \A f \in R : Terminal(f) => f.turn # t
  <2>1. SUFFICES ASSUME NEW f \in R, Terminal(f), f.turn = t PROVE FALSE
    OBVIOUS
  <2>2. /\ f.seq \in DOMAIN lines
        /\ \/ lines[f.seq].kind \in {"task_complete", "turn_aborted"} /\ lines[f.seq].turn = t
           \/ TakesBack(lines, f.seq, t)
    BY <1>1, <2>1, RolloutEventsFrom
  <2>3. TakesBack(lines, f.seq, t)
    BY <1>6, <2>2
  <2>4. turns[t].status = "erased"
    BY <1>5, <1>6, <2>2, <2>3 DEF Book
  <2> QED
    BY <1>6, <2>4 DEF Ended
<1>12. ASSUME NEW m \in M, Terminal(m), m.turn = t
       PROVE  m.seq < s.seq
  <2>1. PICK x \in R \cup Stored : /\ m.type = x.type /\ m.turn = x.turn /\ m.seq = x.seq
                                   /\ \A f \in R \cup Stored : SameKey(x, f) => Before(x, f)
    BY <1>2, <1>3, MergedFields
  <2>2. Terminal(x) /\ x.turn = t
    BY <1>12, <2>1 DEF Terminal
  <2>3. x \in Stored
    BY <1>11, <2>1, <2>2
  <2>4. x.type = "turn_failed" /\ x.seq \in Nat /\ x.from = "store" /\ g.from = "store"
    BY <1>6, <1>7, <2>2, <2>3, StoredEnds DEF Terminal, Closed
  <2>5. Before(x, g)
    BY <1>7, <2>1, <2>2, <2>4 DEF SameKey, IsLifecycle
  <2>6. x.seq <= g.seq
    BY <2>4, <2>5 DEF Before
  <2> QED
    BY <1>5, <1>7, <1>8, <1>10, <2>1, <2>4, <2>6
<1>13. \E m \in M : Terminal(m) /\ m.turn = t
  <2>1. \E m \in M : m.type = g.type /\ m.turn = g.turn
    BY <1>2, <1>3, MergedFrom
  <2> QED
    BY <1>7, <2>1 DEF Terminal
<1>14. t \notin Over(thread, M)
  BY <1>13 DEF Over
<1> HIDE DEF M, E, thread, run
<1>15. M \subseteq E /\ \A e \in E : e \notin M /\ Terminal(e) => e.turn \in Over(thread, M)
  BY <1>2, <1>4, ReconciledIs DEF E
<1>16. \A e \in E : Terminal(e) /\ e.turn = t => e.seq < s.seq
  BY <1>12, <1>14, <1>15
<1>17. Unfinished(E, t)
  BY <1>9, <1>15, <1>16 DEF Unfinished
<1> QED
  BY <1>1, <1>17 DEF thread

(* With all lines of the file read, the details show a turn under way      *)
(* exactly when there is one or when a stored end sorts before the line    *)
(* its turn began with, whatever the numbers of the store: a turn that is  *)
(* over has an end from somewhere (readRolloutEvents, mergeEvents,         *)
(* reconcileTurnLifecycle, deriveActiveTurn).                              *)
THEOREM ActiveTurnIsShown == Spec => []ActiveTrue
<1>1. ASSUME HistoryInv
      PROVE  ActiveTrue
  <2> SUFFICES ASSUME Flushed
               PROVE  DeriveActive(DetailEvents([t \in Known |-> turns[t]], written))
                        <=> running # 0 \/ Misplaced # {}
    BY DEF ActiveTrue
  <2>1. CASE running # 0
    <3>1. running \in Turn
      BY <1>1, <2>1 DEF HistoryInv, TurnsInv
    <3> QED
      BY <1>1, <2>1, <3>1, RunningShows DEF DeriveActive
  <2>2. CASE running = 0
    <3>1. \A t \in Misplaced : t \in Turn
      BY DEF Misplaced
    <3> QED
      BY <1>1, <2>2, <3>1, RestShows, MisplacedShows DEF DeriveActive
  <2> QED
    BY <2>1, <2>2
<1>2. HistoryInv => ActiveTrue
  BY <1>1
<1> QED
  BY <1>2, HistoryInvariant, PTL

-----------------------------------------------------------------------------
(* Folds                                                                   *)

\* Induction up to m, over the set of numbers a formula holds for.
LEMMA UpTo ==
  ASSUME NEW m \in Nat, NEW G, 0 \in G, \A n \in 1..m : n - 1 \in G => n \in G
  PROVE  0..m \subseteq G
<1> DEFINE Bad == {n \in 0..m : n \notin G}
<1> SUFFICES ASSUME Bad # {} PROVE FALSE
  OBVIOUS
<1>1. PICK n \in Bad : \A k \in Bad : n <= k
  <2>1. Bad \in SUBSET Nat
    OBVIOUS
  <2> QED
    BY <2>1, LeastOf
<1>2. n \in 1..m /\ n - 1 \in 0..m
  BY <1>1
<1>3. n - 1 \in G
  BY <1>1, <1>2
<1> QED
  BY <1>1, <1>2, <1>3

\* How far a fold with the step F has come.
Takes(k, F, base, m) == k = [n \in 0..m |-> IF n = 0 THEN base ELSE F[<<k[n - 1], n>>]]

LEMMA TakesExists ==
  ASSUME NEW S, NEW base \in S, NEW m \in Nat, NEW F \in [S \X (1..m) -> S]
  PROVE  \E k \in [0..m -> S] : Takes(k, F, base, m)
<1> DEFINE G == {n \in 0..m : \E k \in [0..n -> S] : Takes(k, F, base, n)}
<1>1. 0 \in G
  <2> DEFINE k == [n \in 0..0 |-> base]
  <2>1. k \in [0..0 -> S]
    OBVIOUS
  <2>2. Takes(k, F, base, 0)
    BY DEF Takes
  <2> QED
    BY <2>1, <2>2
<1>2. ASSUME NEW n \in 1..m, n - 1 \in G
      PROVE  n \in G
  <2>1. PICK k \in [0..(n - 1) -> S] : Takes(k, F, base, n - 1)
    BY <1>2
  <2>2. F[<<k[n - 1], n>>] \in S
    <3>1. k[n - 1] \in S
      BY <2>1
    <3>2. <<k[n - 1], n>> \in S \X (1..m)
      BY <3>1
    <3> QED
      BY <3>2
  <2> DEFINE g == [i \in 0..n |-> IF i = n THEN F[<<k[n - 1], n>>] ELSE k[i]]
  <2>3. g \in [0..n -> S]
    <3>1. ASSUME NEW i \in 0..n PROVE (IF i = n THEN F[<<k[n - 1], n>>] ELSE k[i]) \in S
      <4>1. CASE i = n
        BY <2>2, <4>1
      <4>2. CASE i # n
        <5>1. i \in 0..(n - 1)
          BY <4>2
        <5> QED
          BY <2>1, <4>2, <5>1
      <4> QED
        BY <4>1, <4>2
    <3> QED
      BY <3>1
  <2>4. ASSUME NEW i \in 0..n
        PROVE  g[i] = IF i = 0 THEN base ELSE F[<<g[i - 1], i>>]
    <3>1. CASE i = 0
      <4>1. 0 \in 0..(n - 1) /\ 0 # n
        OBVIOUS
      <4>2. k[0] = base
        BY <2>1, <4>1 DEF Takes
      <4> QED
        BY <3>1, <4>1, <4>2
    <3>2. CASE i # 0 /\ i # n
      <4>1. i \in 0..(n - 1) /\ i - 1 \in 0..n /\ i - 1 # n
        BY <3>2
      <4>2. k[i] = F[<<k[i - 1], i>>]
        BY <2>1, <3>2, <4>1 DEF Takes
      <4> QED
        BY <3>2, <4>1, <4>2
    <3>3. CASE i = n
      <4>1. i # 0 /\ n - 1 \in 0..n /\ n - 1 # n
        BY <3>3
      <4> QED
        BY <3>3, <4>1
    <3> QED
      BY <3>1, <3>2, <3>3
  <2>5. Takes(g, F, base, n)
    <3>1. g = [i \in 0..n |-> g[i]]
      OBVIOUS
    <3> HIDE DEF g
    <3> QED
      BY <2>4, <3>1 DEF Takes
  <2> HIDE DEF g
  <2> QED
    BY <2>3, <2>5
<1>3. 0..m \subseteq G
  BY <1>1, <1>2, UpTo
<1>4. m \in 0..m
  OBVIOUS
<1> QED
  BY <1>3, <1>4

ShowOne(x, m, events) == IF m.turn \in HiddenTurns(events) THEN x ELSE Append(x, m)
ReportOne(x, thread, at, t) == x \o Report(thread, at, t)
SpeakOne(x, t) == x \o SpokenIn(t)
Numbers(p) == [i \in DOMAIN p |-> i]

\* InOrder as a chain of insertions.
InOrderRun(f, S, s) ==
  /\ f \in [0..Len(s) -> S] /\ f[0] = <<>> /\ InOrder(s) = f[Len(s)]
  /\ \A n \in 1..Len(s) : f[n] = Insert(f[n - 1], s[n])

LEMMA InOrderSteps ==
  ASSUME NEW S, NEW s, Len(s) \in Nat, <<>> \in S,
         \A x \in S, n \in 1..Len(s) : Insert(x, s[n]) \in S
  PROVE  \E f : InOrderRun(f, S, s)
<1> DEFINE m == Len(s)
           Step == [q \in S \X (1..m) |-> Insert(q[1], s[q[2]])]
           Chain(k) == k = [n \in 0..m |-> IF n = 0 THEN <<>> ELSE Insert(k[n - 1], s[n])]
           f == CHOOSE k : Chain(k)
<1>1. InOrder(s) = f[m]
  BY DEF InOrder, Folded
<1>2. Step \in [S \X (1..m) -> S]
  OBVIOUS
<1>3. PICK k \in [0..m -> S] : Takes(k, Step, <<>>, m)
  <2> HIDE DEF Step
  <2> QED
    BY <1>2, TakesExists
<1>4. \A n \in 1..m : Step[<<k[n - 1], n>>] = Insert(k[n - 1], s[n])
  <2> TAKE n \in 1..m
  <2>1. k[n - 1] \in S
    OBVIOUS
  <2> QED
    BY <2>1
<1>5. Chain(k)
  <2> HIDE DEF Step
  <2>1. \A n \in 0..m : k[n] = IF n = 0 THEN <<>> ELSE Insert(k[n - 1], s[n])
    <3>1. \A n \in 0..m : k[n] = IF n = 0 THEN <<>> ELSE Step[<<k[n - 1], n>>]
      BY <1>3 DEF Takes
    <3>2. \A n \in 0..m : n # 0 => n \in 1..m
      OBVIOUS
    <3> QED
      BY <1>4, <3>1, <3>2
  <2>2. k = [n \in 0..m |-> k[n]]
    OBVIOUS
  <2> QED
    BY <2>1, <2>2
<1> HIDE DEF Chain
<1>6. Chain(f)
  BY <1>5
<1> HIDE DEF f
<1>7. f = [n \in 0..m |-> IF n = 0 THEN <<>> ELSE Insert(f[n - 1], s[n])]
  BY <1>6 DEF Chain
<1>8. f[0] = <<>> /\ \A n \in 1..m : f[n] = Insert(f[n - 1], s[n])
  BY <1>7
<1>9. \A n \in 0..m : f[n] \in S
  <2> DEFINE G == {n \in 0..m : f[n] \in S}
  <2>1. 0 \in G
    BY <1>8
  <2>2. \A n \in 1..m : n - 1 \in G => n \in G
    BY <1>8
  <2>3. 0..m \subseteq G
    BY <2>1, <2>2, UpTo
  <2> QED
    BY <2>3
<1>10. f \in [0..m -> S]
  BY <1>7, <1>9
<1> QED
  BY <1>1, <1>8, <1>10 DEF InOrderRun

\* Dedupe as a chain of messages kept.
DedupeRun(f, S, s) ==
  /\ f \in [0..Len(InOrder(s)) -> S] /\ f[0] = <<>> /\ Dedupe(s) = f[Len(InOrder(s))]
  /\ \A n \in 1..Len(InOrder(s)) : f[n] = Keep(f[n - 1], InOrder(s)[n])

LEMMA DedupeSteps ==
  ASSUME NEW S, NEW s, Len(InOrder(s)) \in Nat, <<>> \in S,
         \A x \in S, n \in 1..Len(InOrder(s)) : Keep(x, InOrder(s)[n]) \in S
  PROVE  \E f : DedupeRun(f, S, s)
<1> DEFINE m == Len(InOrder(s))
           Step == [q \in S \X (1..m) |-> Keep(q[1], InOrder(s)[q[2]])]
           Chain(k) == k = [n \in 0..m |-> IF n = 0 THEN <<>> ELSE Keep(k[n - 1], InOrder(s)[n])]
           f == CHOOSE k : Chain(k)
<1>1. Dedupe(s) = f[m]
  BY DEF Dedupe, Folded
<1>2. Step \in [S \X (1..m) -> S]
  OBVIOUS
<1>3. PICK k \in [0..m -> S] : Takes(k, Step, <<>>, m)
  <2> HIDE DEF Step
  <2> QED
    BY <1>2, TakesExists
<1>4. \A n \in 1..m : Step[<<k[n - 1], n>>] = Keep(k[n - 1], InOrder(s)[n])
  <2> TAKE n \in 1..m
  <2>1. k[n - 1] \in S
    OBVIOUS
  <2> QED
    BY <2>1
<1>5. Chain(k)
  <2> HIDE DEF Step
  <2>1. \A n \in 0..m : k[n] = IF n = 0 THEN <<>> ELSE Keep(k[n - 1], InOrder(s)[n])
    <3>1. \A n \in 0..m : k[n] = IF n = 0 THEN <<>> ELSE Step[<<k[n - 1], n>>]
      BY <1>3 DEF Takes
    <3>2. \A n \in 0..m : n # 0 => n \in 1..m
      OBVIOUS
    <3> QED
      BY <1>4, <3>1, <3>2
  <2>2. k = [n \in 0..m |-> k[n]]
    OBVIOUS
  <2> QED
    BY <2>1, <2>2
<1> HIDE DEF Chain
<1>6. Chain(f)
  BY <1>5
<1> HIDE DEF f
<1>7. f = [n \in 0..m |-> IF n = 0 THEN <<>> ELSE Keep(f[n - 1], InOrder(s)[n])]
  BY <1>6 DEF Chain
<1>8. f[0] = <<>> /\ \A n \in 1..m : f[n] = Keep(f[n - 1], InOrder(s)[n])
  BY <1>7
<1>9. \A n \in 0..m : f[n] \in S
  <2> DEFINE G == {n \in 0..m : f[n] \in S}
  <2>1. 0 \in G
    BY <1>8
  <2>2. \A n \in 1..m : n - 1 \in G => n \in G
    BY <1>8
  <2>3. 0..m \subseteq G
    BY <2>1, <2>2, UpTo
  <2> QED
    BY <2>3
<1>10. f \in [0..m -> S]
  BY <1>7, <1>9
<1> QED
  BY <1>1, <1>8, <1>10 DEF DedupeRun

\* The messages shown, one after the other.
ShownRun(f, S, s, events) ==
  /\ f \in [0..Len(Dedupe(s)) -> S] /\ f[0] = <<>> /\ ShownMessages(s, events) = f[Len(Dedupe(s))]
  /\ \A n \in 1..Len(Dedupe(s)) : f[n] = ShowOne(f[n - 1], Dedupe(s)[n], events)

LEMMA ShownSteps ==
  ASSUME NEW S, NEW s, NEW events, Len(Dedupe(s)) \in Nat, <<>> \in S,
         \A x \in S, n \in 1..Len(Dedupe(s)) : ShowOne(x, Dedupe(s)[n], events) \in S
  PROVE  \E f : ShownRun(f, S, s, events)
<1> DEFINE m == Len(Dedupe(s))
           Step == [q \in S \X (1..m) |-> ShowOne(q[1], Dedupe(s)[q[2]], events)]
           Chain(k) == k = [n \in 0..m |-> IF n = 0 THEN <<>> ELSE ShowOne(k[n - 1], Dedupe(s)[n], events)]
           f == CHOOSE k : Chain(k)
<1>1. ShownMessages(s, events) = f[m]
  BY DEF ShownMessages, ShowOne, Folded
<1>2. Step \in [S \X (1..m) -> S]
  OBVIOUS
<1>3. PICK k \in [0..m -> S] : Takes(k, Step, <<>>, m)
  <2> HIDE DEF Step
  <2> QED
    BY <1>2, TakesExists
<1>4. \A n \in 1..m : Step[<<k[n - 1], n>>] = ShowOne(k[n - 1], Dedupe(s)[n], events)
  <2> TAKE n \in 1..m
  <2>1. k[n - 1] \in S
    OBVIOUS
  <2> QED
    BY <2>1
<1>5. Chain(k)
  <2> HIDE DEF Step
  <2>1. \A n \in 0..m : k[n] = IF n = 0 THEN <<>> ELSE ShowOne(k[n - 1], Dedupe(s)[n], events)
    <3>1. \A n \in 0..m : k[n] = IF n = 0 THEN <<>> ELSE Step[<<k[n - 1], n>>]
      BY <1>3 DEF Takes
    <3>2. \A n \in 0..m : n # 0 => n \in 1..m
      OBVIOUS
    <3> QED
      BY <1>4, <3>1, <3>2
  <2>2. k = [n \in 0..m |-> k[n]]
    OBVIOUS
  <2> QED
    BY <2>1, <2>2
<1> HIDE DEF Chain
<1>6. Chain(f)
  BY <1>5
<1> HIDE DEF f
<1>7. f = [n \in 0..m |-> IF n = 0 THEN <<>> ELSE ShowOne(f[n - 1], Dedupe(s)[n], events)]
  BY <1>6 DEF Chain
<1>8. f[0] = <<>> /\ \A n \in 1..m : f[n] = ShowOne(f[n - 1], Dedupe(s)[n], events)
  BY <1>7
<1>9. \A n \in 0..m : f[n] \in S
  <2> DEFINE G == {n \in 0..m : f[n] \in S}
  <2>1. 0 \in G
    BY <1>8
  <2>2. \A n \in 1..m : n - 1 \in G => n \in G
    BY <1>8
  <2>3. 0..m \subseteq G
    BY <2>1, <2>2, UpTo
  <2> QED
    BY <2>3
<1>10. f \in [0..m -> S]
  BY <1>7, <1>9
<1> QED
  BY <1>1, <1>8, <1>10 DEF ShownRun

\* MergeHistory as a chain of messages merged.
MergeRun(f, S, base, s) ==
  /\ f \in [0..Len(s) -> S] /\ f[0] = base /\ MergeHistory(base, s) = f[Len(s)]
  /\ \A n \in 1..Len(s) : f[n] = MergeOne(f[n - 1], s[n])

LEMMA MergeSteps ==
  ASSUME NEW S, NEW base, NEW s, Len(s) \in Nat, base \in S,
         \A x \in S, n \in 1..Len(s) : MergeOne(x, s[n]) \in S
  PROVE  \E f : MergeRun(f, S, base, s)
<1> DEFINE m == Len(s)
           Step == [q \in S \X (1..m) |-> MergeOne(q[1], s[q[2]])]
           Chain(k) == k = [n \in 0..m |-> IF n = 0 THEN base ELSE MergeOne(k[n - 1], s[n])]
           f == CHOOSE k : Chain(k)
<1>1. MergeHistory(base, s) = f[m]
  BY DEF MergeHistory, Folded
<1>2. Step \in [S \X (1..m) -> S]
  OBVIOUS
<1>3. PICK k \in [0..m -> S] : Takes(k, Step, base, m)
  <2> HIDE DEF Step
  <2> QED
    BY <1>2, TakesExists
<1>4. \A n \in 1..m : Step[<<k[n - 1], n>>] = MergeOne(k[n - 1], s[n])
  <2> TAKE n \in 1..m
  <2>1. k[n - 1] \in S
    OBVIOUS
  <2> QED
    BY <2>1
<1>5. Chain(k)
  <2> HIDE DEF Step
  <2>1. \A n \in 0..m : k[n] = IF n = 0 THEN base ELSE MergeOne(k[n - 1], s[n])
    <3>1. \A n \in 0..m : k[n] = IF n = 0 THEN base ELSE Step[<<k[n - 1], n>>]
      BY <1>3 DEF Takes
    <3>2. \A n \in 0..m : n # 0 => n \in 1..m
      OBVIOUS
    <3> QED
      BY <1>4, <3>1, <3>2
  <2>2. k = [n \in 0..m |-> k[n]]
    OBVIOUS
  <2> QED
    BY <2>1, <2>2
<1> HIDE DEF Chain
<1>6. Chain(f)
  BY <1>5
<1> HIDE DEF f
<1>7. f = [n \in 0..m |-> IF n = 0 THEN base ELSE MergeOne(f[n - 1], s[n])]
  BY <1>6 DEF Chain
<1>8. f[0] = base /\ \A n \in 1..m : f[n] = MergeOne(f[n - 1], s[n])
  BY <1>7
<1>9. \A n \in 0..m : f[n] \in S
  <2> DEFINE G == {n \in 0..m : f[n] \in S}
  <2>1. 0 \in G
    BY <1>8
  <2>2. \A n \in 1..m : n - 1 \in G => n \in G
    BY <1>8
  <2>3. 0..m \subseteq G
    BY <2>1, <2>2, UpTo
  <2> QED
    BY <2>3
<1>10. f \in [0..m -> S]
  BY <1>7, <1>9
<1> QED
  BY <1>1, <1>8, <1>10 DEF MergeRun

\* What the thread reports, turn by turn.
ReportRun(f, S, thread, at) ==
  /\ f \in [0..Len(InTurn) -> S] /\ f[0] = <<>> /\ ThreadMessages(thread, at) = f[Len(InTurn)]
  /\ \A n \in 1..Len(InTurn) : f[n] = ReportOne(f[n - 1], thread, at, InTurn[n])

LEMMA ReportSteps ==
  ASSUME NEW S, NEW thread, NEW at, Len(InTurn) \in Nat, <<>> \in S,
         \A x \in S, n \in 1..Len(InTurn) : ReportOne(x, thread, at, InTurn[n]) \in S
  PROVE  \E f : ReportRun(f, S, thread, at)
<1> DEFINE m == Len(InTurn)
           Step == [q \in S \X (1..m) |-> ReportOne(q[1], thread, at, InTurn[q[2]])]
           Chain(k) == k = [n \in 0..m |-> IF n = 0 THEN <<>> ELSE ReportOne(k[n - 1], thread, at, InTurn[n])]
           f == CHOOSE k : Chain(k)
<1>1. ThreadMessages(thread, at) = f[m]
  BY DEF ThreadMessages, ReportOne, Folded
<1>2. Step \in [S \X (1..m) -> S]
  OBVIOUS
<1>3. PICK k \in [0..m -> S] : Takes(k, Step, <<>>, m)
  <2> HIDE DEF Step
  <2> QED
    BY <1>2, TakesExists
<1>4. \A n \in 1..m : Step[<<k[n - 1], n>>] = ReportOne(k[n - 1], thread, at, InTurn[n])
  <2> TAKE n \in 1..m
  <2>1. k[n - 1] \in S
    OBVIOUS
  <2> QED
    BY <2>1
<1>5. Chain(k)
  <2> HIDE DEF Step
  <2>1. \A n \in 0..m : k[n] = IF n = 0 THEN <<>> ELSE ReportOne(k[n - 1], thread, at, InTurn[n])
    <3>1. \A n \in 0..m : k[n] = IF n = 0 THEN <<>> ELSE Step[<<k[n - 1], n>>]
      BY <1>3 DEF Takes
    <3>2. \A n \in 0..m : n # 0 => n \in 1..m
      OBVIOUS
    <3> QED
      BY <1>4, <3>1, <3>2
  <2>2. k = [n \in 0..m |-> k[n]]
    OBVIOUS
  <2> QED
    BY <2>1, <2>2
<1> HIDE DEF Chain
<1>6. Chain(f)
  BY <1>5
<1> HIDE DEF f
<1>7. f = [n \in 0..m |-> IF n = 0 THEN <<>> ELSE ReportOne(f[n - 1], thread, at, InTurn[n])]
  BY <1>6 DEF Chain
<1>8. f[0] = <<>> /\ \A n \in 1..m : f[n] = ReportOne(f[n - 1], thread, at, InTurn[n])
  BY <1>7
<1>9. \A n \in 0..m : f[n] \in S
  <2> DEFINE G == {n \in 0..m : f[n] \in S}
  <2>1. 0 \in G
    BY <1>8
  <2>2. \A n \in 1..m : n - 1 \in G => n \in G
    BY <1>8
  <2>3. 0..m \subseteq G
    BY <2>1, <2>2, UpTo
  <2> QED
    BY <2>3
<1>10. f \in [0..m -> S]
  BY <1>7, <1>9
<1> QED
  BY <1>1, <1>8, <1>10 DEF ReportRun

\* The messages of a rollout, line by line.
CollectRun(f, S, p) ==
  /\ f \in [0..Len(Numbers(p)) -> S] /\ f[0] = <<>> /\ CollectMessages(p) = f[Len(Numbers(p))]
  /\ \A n \in 1..Len(Numbers(p)) : f[n] = Collect(p, f[n - 1], Numbers(p)[n])

LEMMA CollectSteps ==
  ASSUME NEW S, NEW p, Len(Numbers(p)) \in Nat, <<>> \in S,
         \A x \in S, n \in 1..Len(Numbers(p)) : Collect(p, x, Numbers(p)[n]) \in S
  PROVE  \E f : CollectRun(f, S, p)
<1> DEFINE m == Len(Numbers(p))
           Step == [q \in S \X (1..m) |-> Collect(p, q[1], Numbers(p)[q[2]])]
           Chain(k) == k = [n \in 0..m |-> IF n = 0 THEN <<>> ELSE Collect(p, k[n - 1], Numbers(p)[n])]
           f == CHOOSE k : Chain(k)
<1>1. CollectMessages(p) = f[m]
  BY DEF CollectMessages, Numbers, Folded
<1>2. Step \in [S \X (1..m) -> S]
  OBVIOUS
<1>3. PICK k \in [0..m -> S] : Takes(k, Step, <<>>, m)
  <2> HIDE DEF Step
  <2> QED
    BY <1>2, TakesExists
<1>4. \A n \in 1..m : Step[<<k[n - 1], n>>] = Collect(p, k[n - 1], Numbers(p)[n])
  <2> TAKE n \in 1..m
  <2>1. k[n - 1] \in S
    OBVIOUS
  <2> QED
    BY <2>1
<1>5. Chain(k)
  <2> HIDE DEF Step
  <2>1. \A n \in 0..m : k[n] = IF n = 0 THEN <<>> ELSE Collect(p, k[n - 1], Numbers(p)[n])
    <3>1. \A n \in 0..m : k[n] = IF n = 0 THEN <<>> ELSE Step[<<k[n - 1], n>>]
      BY <1>3 DEF Takes
    <3>2. \A n \in 0..m : n # 0 => n \in 1..m
      OBVIOUS
    <3> QED
      BY <1>4, <3>1, <3>2
  <2>2. k = [n \in 0..m |-> k[n]]
    OBVIOUS
  <2> QED
    BY <2>1, <2>2
<1> HIDE DEF Chain
<1>6. Chain(f)
  BY <1>5
<1> HIDE DEF f
<1>7. f = [n \in 0..m |-> IF n = 0 THEN <<>> ELSE Collect(p, f[n - 1], Numbers(p)[n])]
  BY <1>6 DEF Chain
<1>8. f[0] = <<>> /\ \A n \in 1..m : f[n] = Collect(p, f[n - 1], Numbers(p)[n])
  BY <1>7
<1>9. \A n \in 0..m : f[n] \in S
  <2> DEFINE G == {n \in 0..m : f[n] \in S}
  <2>1. 0 \in G
    BY <1>8
  <2>2. \A n \in 1..m : n - 1 \in G => n \in G
    BY <1>8
  <2>3. 0..m \subseteq G
    BY <2>1, <2>2, UpTo
  <2> QED
    BY <2>3
<1>10. f \in [0..m -> S]
  BY <1>7, <1>9
<1> QED
  BY <1>1, <1>8, <1>10 DEF CollectRun

\* What was spoken, turn by turn.
SpokenRun(f, S) ==
  /\ f \in [0..Len(InTurn) -> S] /\ f[0] = <<>> /\ Spoken = f[Len(InTurn)]
  /\ \A n \in 1..Len(InTurn) : f[n] = SpeakOne(f[n - 1], InTurn[n])

LEMMA SpokenSteps ==
  ASSUME NEW S, Len(InTurn) \in Nat, <<>> \in S,
         \A x \in S, n \in 1..Len(InTurn) : SpeakOne(x, InTurn[n]) \in S
  PROVE  \E f : SpokenRun(f, S)
<1> DEFINE m == Len(InTurn)
           Step == [q \in S \X (1..m) |-> SpeakOne(q[1], InTurn[q[2]])]
           Chain(k) == k = [n \in 0..m |-> IF n = 0 THEN <<>> ELSE SpeakOne(k[n - 1], InTurn[n])]
           f == CHOOSE k : Chain(k)
<1>1. Spoken = f[m]
  BY DEF Spoken, SpeakOne, Folded
<1>2. Step \in [S \X (1..m) -> S]
  OBVIOUS
<1>3. PICK k \in [0..m -> S] : Takes(k, Step, <<>>, m)
  <2> HIDE DEF Step
  <2> QED
    BY <1>2, TakesExists
<1>4. \A n \in 1..m : Step[<<k[n - 1], n>>] = SpeakOne(k[n - 1], InTurn[n])
  <2> TAKE n \in 1..m
  <2>1. k[n - 1] \in S
    OBVIOUS
  <2> QED
    BY <2>1
<1>5. Chain(k)
  <2> HIDE DEF Step
  <2>1. \A n \in 0..m : k[n] = IF n = 0 THEN <<>> ELSE SpeakOne(k[n - 1], InTurn[n])
    <3>1. \A n \in 0..m : k[n] = IF n = 0 THEN <<>> ELSE Step[<<k[n - 1], n>>]
      BY <1>3 DEF Takes
    <3>2. \A n \in 0..m : n # 0 => n \in 1..m
      OBVIOUS
    <3> QED
      BY <1>4, <3>1, <3>2
  <2>2. k = [n \in 0..m |-> k[n]]
    OBVIOUS
  <2> QED
    BY <2>1, <2>2
<1> HIDE DEF Chain
<1>6. Chain(f)
  BY <1>5
<1> HIDE DEF f
<1>7. f = [n \in 0..m |-> IF n = 0 THEN <<>> ELSE SpeakOne(f[n - 1], InTurn[n])]
  BY <1>6 DEF Chain
<1>8. f[0] = <<>> /\ \A n \in 1..m : f[n] = SpeakOne(f[n - 1], InTurn[n])
  BY <1>7
<1>9. \A n \in 0..m : f[n] \in S
  <2> DEFINE G == {n \in 0..m : f[n] \in S}
  <2>1. 0 \in G
    BY <1>8
  <2>2. \A n \in 1..m : n - 1 \in G => n \in G
    BY <1>8
  <2>3. 0..m \subseteq G
    BY <2>1, <2>2, UpTo
  <2> QED
    BY <2>3
<1>10. f \in [0..m -> S]
  BY <1>7, <1>9
<1> QED
  BY <1>1, <1>8, <1>10 DEF SpokenRun

\* The conversation, message by message.
HeardRun(f, S) ==
  /\ f \in [0..Len(Spoken) -> S] /\ f[0] = <<>> /\ Conversation = f[Len(Spoken)]
  /\ \A n \in 1..Len(Spoken) : f[n] = Heard(f[n - 1], Spoken[n])

LEMMA HeardSteps ==
  ASSUME NEW S, Len(Spoken) \in Nat, <<>> \in S,
         \A x \in S, n \in 1..Len(Spoken) : Heard(x, Spoken[n]) \in S
  PROVE  \E f : HeardRun(f, S)
<1> DEFINE m == Len(Spoken)
           Step == [q \in S \X (1..m) |-> Heard(q[1], Spoken[q[2]])]
           Chain(k) == k = [n \in 0..m |-> IF n = 0 THEN <<>> ELSE Heard(k[n - 1], Spoken[n])]
           f == CHOOSE k : Chain(k)
<1>1. Conversation = f[m]
  BY DEF Conversation, Folded
<1>2. Step \in [S \X (1..m) -> S]
  OBVIOUS
<1>3. PICK k \in [0..m -> S] : Takes(k, Step, <<>>, m)
  <2> HIDE DEF Step
  <2> QED
    BY <1>2, TakesExists
<1>4. \A n \in 1..m : Step[<<k[n - 1], n>>] = Heard(k[n - 1], Spoken[n])
  <2> TAKE n \in 1..m
  <2>1. k[n - 1] \in S
    OBVIOUS
  <2> QED
    BY <2>1
<1>5. Chain(k)
  <2> HIDE DEF Step
  <2>1. \A n \in 0..m : k[n] = IF n = 0 THEN <<>> ELSE Heard(k[n - 1], Spoken[n])
    <3>1. \A n \in 0..m : k[n] = IF n = 0 THEN <<>> ELSE Step[<<k[n - 1], n>>]
      BY <1>3 DEF Takes
    <3>2. \A n \in 0..m : n # 0 => n \in 1..m
      OBVIOUS
    <3> QED
      BY <1>4, <3>1, <3>2
  <2>2. k = [n \in 0..m |-> k[n]]
    OBVIOUS
  <2> QED
    BY <2>1, <2>2
<1> HIDE DEF Chain
<1>6. Chain(f)
  BY <1>5
<1> HIDE DEF f
<1>7. f = [n \in 0..m |-> IF n = 0 THEN <<>> ELSE Heard(f[n - 1], Spoken[n])]
  BY <1>6 DEF Chain
<1>8. f[0] = <<>> /\ \A n \in 1..m : f[n] = Heard(f[n - 1], Spoken[n])
  BY <1>7
<1>9. \A n \in 0..m : f[n] \in S
  <2> DEFINE G == {n \in 0..m : f[n] \in S}
  <2>1. 0 \in G
    BY <1>8
  <2>2. \A n \in 1..m : n - 1 \in G => n \in G
    BY <1>8
  <2>3. 0..m \subseteq G
    BY <2>1, <2>2, UpTo
  <2> QED
    BY <2>3
<1>10. f \in [0..m -> S]
  BY <1>7, <1>9
<1> QED
  BY <1>1, <1>8, <1>10 DEF HeardRun

-----------------------------------------------------------------------------
(* The turn a line is in                                                   *)

LEMMA StartChosen ==
  ASSUME NEW p, Rollout(p), NEW i \in DOMAIN p, NEW h \in DOMAIN p, h <= i, p[h].kind = "task_started"
  PROVE  /\ StartOf(p, i) \in DOMAIN p /\ StartOf(p, i) <= i /\ StartOf(p, i) # 0
         /\ p[StartOf(p, i)].kind = "task_started"
         /\ \A k \in DOMAIN p : k <= i /\ p[k].kind = "task_started" => k <= StartOf(p, i)
         /\ TurnAt(p, i) = p[StartOf(p, i)].turn
<1> DEFINE S == {j \in 1..i : p[j].kind = "task_started"}
           j == CHOOSE j \in S : \A k \in S : k <= j
<1>1. DOMAIN p = 1..Len(p) /\ Len(p) \in Nat
  BY RolloutFields
<1>2. \A k : k \in S <=> k \in DOMAIN p /\ k <= i /\ p[k].kind = "task_started"
  BY <1>1
<1>3. j \in S /\ \A k \in S : k <= j
  <2>1. S \in SUBSET Nat /\ S # {} /\ i \in Nat /\ \A k \in S : k <= i
    BY <1>1, <1>2
  <2>2. \E k \in S : \A l \in S : l <= k
    BY <2>1, GreatestOf
  <2> QED
    BY <2>2
<1>4. StartOf(p, i) = j
  BY <1>3 DEF StartOf
<1> HIDE DEF S, j
<1>5. j # 0 /\ j \in DOMAIN p /\ j <= i /\ p[j].kind = "task_started"
  BY <1>1, <1>2, <1>3
<1> QED
  BY <1>2, <1>3, <1>4, <1>5 DEF TurnAt

LEMMA StartIs ==
  ASSUME NEW p, Rollout(p), NEW i \in DOMAIN p
  PROVE  /\ StartOf(p, i) \in DOMAIN p /\ StartOf(p, i) <= i /\ StartOf(p, i) # 0
         /\ p[StartOf(p, i)].kind = "task_started"
         /\ \A k \in DOMAIN p : k <= i /\ p[k].kind = "task_started" => k <= StartOf(p, i)
         /\ TurnAt(p, i) = p[StartOf(p, i)].turn /\ TurnAt(p, i) \in Turn
         /\ p[i].kind # "thread_rolled_back" => TurnAt(p, i) = p[i].turn
<1>1. /\ DOMAIN p = 1..Len(p) /\ Len(p) \in Nat
      /\ \A k \in DOMAIN p : p[k].turn \in Nat
      /\ \A k \in DOMAIN p : p[k].kind # "thread_rolled_back" => p[k].turn \in Turn
  BY RolloutFields
<1>2. \A k \in DOMAIN p : p[k].kind # "thread_rolled_back" => \E h \in DOMAIN p :
        h <= k /\ p[h].kind = "task_started" /\ p[h].turn = p[k].turn
  BY DEF Rollout
<1>3. \E h \in DOMAIN p : h <= i /\ p[h].kind = "task_started"
  <2>1. CASE p[i].kind # "thread_rolled_back"
    BY <1>2, <2>1
  <2>2. CASE p[i].kind = "thread_rolled_back"
    <3>1. PICK m \in DOMAIN p : m < i /\ p[m].kind \in Lifecycle
      BY <2>2 DEF Rollout, MarkedBy
    <3>2. PICK h \in DOMAIN p : h <= m /\ p[h].kind = "task_started"
      BY <1>2, <3>1 DEF Lifecycle
    <3> QED
      BY <1>1, <3>1, <3>2
  <2> QED
    BY <2>1, <2>2
<1>4. /\ StartOf(p, i) \in DOMAIN p /\ StartOf(p, i) <= i /\ StartOf(p, i) # 0
      /\ p[StartOf(p, i)].kind = "task_started"
      /\ \A k \in DOMAIN p : k <= i /\ p[k].kind = "task_started" => k <= StartOf(p, i)
      /\ TurnAt(p, i) = p[StartOf(p, i)].turn
  BY <1>3, StartChosen
<1>5. TurnAt(p, i) \in Turn
  BY <1>1, <1>4
<1>6. ASSUME p[i].kind # "thread_rolled_back"
      PROVE  p[StartOf(p, i)].turn = p[i].turn
  <2> DEFINE j == StartOf(p, i)
  <2>1. PICK h \in DOMAIN p : h <= i /\ p[h].kind = "task_started" /\ p[h].turn = p[i].turn
    BY <1>2, <1>6
  <2>2. j \in DOMAIN p /\ j <= i /\ p[j].kind = "task_started" /\ h <= j
    BY <1>4, <2>1
  <2> HIDE DEF j
  <2>3. CASE h = j
    BY <2>1, <2>3 DEF j
  <2>4. CASE h # j
    <3>1. h < j
      BY <1>1, <2>1, <2>2, <2>4
    <3>2. p[h].turn <= p[j].turn /\ p[h].turn # p[j].turn
      BY <2>1, <2>2, <3>1 DEF Rollout
    <3>3. p[j].turn <= p[i].turn
      <4>1. CASE j = i
        BY <1>1, <4>1
      <4>2. CASE j # i
        <5>1. j < i
          BY <1>1, <2>2, <4>2
        <5> QED
          BY <1>6, <2>2, <5>1 DEF Rollout
      <4> QED
        BY <4>1, <4>2
    <3> QED
      BY <1>1, <2>1, <2>2, <3>2, <3>3
  <2> QED
    BY <2>3, <2>4
<1> QED
  BY <1>4, <1>5, <1>6

LEMMA SameStart ==
  ASSUME NEW p, Rollout(p), NEW i \in DOMAIN p, NEW k \in DOMAIN p
  PROVE  StartOf(p, i) = StartOf(p, k) <=> TurnAt(p, i) = TurnAt(p, k)
<1>1. /\ StartOf(p, i) \in DOMAIN p /\ p[StartOf(p, i)].kind = "task_started"
      /\ StartOf(p, k) \in DOMAIN p /\ p[StartOf(p, k)].kind = "task_started"
      /\ TurnAt(p, i) = p[StartOf(p, i)].turn /\ TurnAt(p, k) = p[StartOf(p, k)].turn
  BY StartIs
<1>2. \A a, b \in DOMAIN p : a < b /\ p[b].kind = "task_started" => p[a].turn # p[b].turn
  BY DEF Rollout
<1>3. DOMAIN p = 1..Len(p) /\ Len(p) \in Nat
  BY RolloutFields
<1>4. \A a, b \in DOMAIN p : a < b \/ b < a \/ a = b
  BY <1>3
<1> QED
  BY <1>1, <1>2, <1>4

\* A rollback line takes back the turn it is in.
LEMMA TakesBackAt ==
  ASSUME NEW p, Rollout(p), NEW i \in DOMAIN p, p[i].kind = "thread_rolled_back", NEW t
  PROVE  TakesBack(p, i, t) <=> TurnAt(p, i) = t
<1>1. PICK m \in DOMAIN p : MarkedBy(p, m, i)
  BY DEF Rollout
<1>2. /\ m < i /\ p[m].kind \in Lifecycle
      /\ \A k \in DOMAIN p : m < k /\ k < i => p[k].kind \notin Marker
  BY <1>1 DEF MarkedBy
<1>3. DOMAIN p = 1..Len(p) /\ Len(p) \in Nat /\ i \in 1..(Len(p) + 1)
  BY RolloutFields
<1>4. /\ StartOf(p, m) \in DOMAIN p /\ StartOf(p, m) <= m /\ p[StartOf(p, m)].kind = "task_started"
      /\ \A k \in DOMAIN p : k <= m /\ p[k].kind = "task_started" => k <= StartOf(p, m)
      /\ TurnAt(p, m) = p[StartOf(p, m)].turn /\ TurnAt(p, m) = p[m].turn
  BY <1>2, StartIs DEF Lifecycle
<1>5. /\ StartOf(p, i) \in DOMAIN p /\ StartOf(p, i) <= i /\ p[StartOf(p, i)].kind = "task_started"
      /\ \A k \in DOMAIN p : k <= i /\ p[k].kind = "task_started" => k <= StartOf(p, i)
      /\ TurnAt(p, i) = p[StartOf(p, i)].turn
  BY StartIs
<1>6. "task_started" \in Marker /\ "task_started" # "thread_rolled_back"
  BY DEF Marker, Lifecycle
<1>7. StartOf(p, i) <= m
  BY <1>2, <1>3, <1>5, <1>6
<1>8. StartOf(p, i) = StartOf(p, m)
  BY <1>2, <1>3, <1>4, <1>5, <1>7
<1>9. TurnAt(p, i) = p[m].turn
  BY <1>4, <1>5, <1>8
<1>10. NamedBefore(p, i) = p[m].turn
  BY <1>1, <1>3, NamedIs
<1> QED
  BY <1>9, <1>10, TakesBackNamed

LEMMA RolledBackIs ==
  ASSUME NEW p, Rollout(p), NEW i \in DOMAIN p
  PROVE  i \in RolledBack(p) <=> Undone(p, TurnAt(p, i))
<1> DEFINE undone == {StartOf(p, j) : j \in {k \in DOMAIN p : p[k].kind = "thread_rolled_back"}}
<1>1. i \in RolledBack(p) <=> StartOf(p, i) \in undone /\ StartOf(p, i) # 0
  BY DEF RolledBack
<1>2. StartOf(p, i) # 0
  BY StartIs
<1>3. StartOf(p, i) \in undone <=>
        \E j \in DOMAIN p : p[j].kind = "thread_rolled_back" /\ StartOf(p, i) = StartOf(p, j)
  OBVIOUS
<1>4. \A j \in DOMAIN p : StartOf(p, i) = StartOf(p, j) <=> TurnAt(p, i) = TurnAt(p, j)
  BY SameStart
<1>5. \A j \in DOMAIN p : p[j].kind = "thread_rolled_back" =>
        (TakesBack(p, j, TurnAt(p, i)) <=> TurnAt(p, j) = TurnAt(p, i))
  BY TakesBackAt
<1>6. Undone(p, TurnAt(p, i)) <=>
        \E j \in DOMAIN p : p[j].kind = "thread_rolled_back" /\ TurnAt(p, j) = TurnAt(p, i)
  BY <1>5 DEF Undone, TakesBack
<1> HIDE DEF undone
<1> QED
  BY <1>1, <1>2, <1>3, <1>4, <1>6

-----------------------------------------------------------------------------
(* The messages of the details are messages                                *)

LEMMA CountsUpTo ==
  ASSUME NEW n \in Nat, NEW S \in SUBSET (1..n)
  PROVE  IsFiniteSet(S) /\ Cardinality(S) \in 0..n
<1>1. IsFiniteSet(1..n) /\ Cardinality(1..n) = n
  <2>1. IsFiniteSet(1..n) /\ Cardinality(1..n) = IF 1 > n THEN 0 ELSE n - 1 + 1
    BY FS_Interval
  <2> QED
    BY <2>1
<1>2. IsFiniteSet(S) /\ Cardinality(S) <= Cardinality(1..n)
  BY <1>1, FS_Subset
<1>3. Cardinality(S) \in Nat
  BY <1>2, FS_CardinalityType
<1> QED
  BY <1>1, <1>2, <1>3

LEMMA InsertTyped ==
  ASSUME NEW D, NEW x \in Seq(D), NEW m \in D
  PROVE  Insert(x, m) \in Seq(D)
<1> DEFINE n == Cardinality({i \in DOMAIN x : x[i].time <= m.time})
<1>1. n \in 0..Len(x) /\ Len(x) \in Nat
  <2>1. {i \in DOMAIN x : x[i].time <= m.time} \in SUBSET (1..Len(x)) /\ Len(x) \in Nat
    OBVIOUS
  <2> QED
    BY <2>1, CountsUpTo
<1>2. Insert(x, m) = SubSeq(x, 1, n) \o <<m>> \o SubSeq(x, n + 1, Len(x))
  BY DEF Insert
<1> HIDE DEF n
<1>3. SubSeq(x, 1, n) \in Seq(D)
  BY <1>1
<1>4. SubSeq(x, n + 1, Len(x)) \in Seq(D)
  BY <1>1
<1>5. <<m>> \in Seq(D)
  OBVIOUS
<1> QED
  BY <1>2, <1>3, <1>4, <1>5

LEMMA KeepTyped ==
  ASSUME NEW D, NEW x \in Seq(D), NEW m \in D
  PROVE  Keep(x, m) \in Seq(D)
<1> DEFINE S == {i \in DOMAIN x : Same(x, i, m)}
           first == CHOOSE i \in S : \A j \in S : i <= j
<1>1. Keep(x, m) \in {Append(x, m), [x EXCEPT ![first] = m], x}
  BY DEF Keep
<1> HIDE DEF S, first
<1>2. Append(x, m) \in Seq(D) /\ [x EXCEPT ![first] = m] \in Seq(D)
  <2>1. [x EXCEPT ![first] = m] \in Seq(D)
    <3>1. Len(x) \in Nat /\ x \in [1..Len(x) -> D]
      OBVIOUS
    <3>2. [x EXCEPT ![first] = m] \in [1..Len(x) -> D]
      BY <3>1
    <3> QED
      BY <3>1, <3>2
  <2> QED
    BY <2>1
<1> QED
  BY <1>1, <1>2

LEMMA InOrderTyped ==
  ASSUME NEW D, NEW s \in Seq(D)
  PROVE  InOrder(s) \in Seq(D)
<1>1. Len(s) \in Nat /\ <<>> \in Seq(D) /\ \A n \in 1..Len(s) : s[n] \in D
  OBVIOUS
<1>2. \A x \in Seq(D), n \in 1..Len(s) : Insert(x, s[n]) \in Seq(D)
  BY <1>1, InsertTyped
<1>3. PICK f : InOrderRun(f, Seq(D), s)
  BY <1>1, <1>2, InOrderSteps
<1> QED
  BY <1>1, <1>3 DEF InOrderRun

LEMMA DedupeTyped ==
  ASSUME NEW D, NEW s \in Seq(D)
  PROVE  Dedupe(s) \in Seq(D)
<1>1. InOrder(s) \in Seq(D)
  BY InOrderTyped
<1>2. Len(InOrder(s)) \in Nat /\ <<>> \in Seq(D) /\ \A n \in 1..Len(InOrder(s)) : InOrder(s)[n] \in D
  BY <1>1
<1>3. \A x \in Seq(D), n \in 1..Len(InOrder(s)) : Keep(x, InOrder(s)[n]) \in Seq(D)
  BY <1>2, KeepTyped
<1>4. PICK f : DedupeRun(f, Seq(D), s)
  BY <1>2, <1>3, DedupeSteps
<1> QED
  BY <1>2, <1>4 DEF DedupeRun

\* No message of a hidden turn is shown.
LEMMA ShownTyped ==
  ASSUME NEW D, NEW s \in Seq(D), NEW events
  PROVE  ShownMessages(s, events) \in Seq({m \in D : m.turn \notin HiddenTurns(events)})
<1> DEFINE C == {m \in D : m.turn \notin HiddenTurns(events)}
<1>1. Dedupe(s) \in Seq(D)
  BY DedupeTyped
<1>2. Len(Dedupe(s)) \in Nat /\ <<>> \in Seq(C) /\ \A n \in 1..Len(Dedupe(s)) : Dedupe(s)[n] \in D
  BY <1>1
<1>3. \A x \in Seq(C), n \in 1..Len(Dedupe(s)) : ShowOne(x, Dedupe(s)[n], events) \in Seq(C)
  BY <1>2 DEF ShowOne
<1> HIDE DEF C
<1>4. PICK f : ShownRun(f, Seq(C), s, events)
  BY <1>2, <1>3, ShownSteps
<1>5. ShownMessages(s, events) \in Seq(C)
  BY <1>2, <1>4 DEF ShownRun
<1> QED
  BY <1>5 DEF C

LEMMA MessageFields ==
  ASSUME NEW m \in Message
  PROVE  /\ m.role \in {"user", "assistant"} /\ m.text \in Text \cup {"reply"} /\ m.turn \in Turn
         /\ m.client \in BOOLEAN /\ m.time \in Nat
BY DEF Message

LEMMA MergeTyped ==
  ASSUME NEW x \in Seq(Message), NEW m \in Message
  PROVE  MergeOne(x, m) \in Seq(Message)
<1> DEFINE twins == Twins(x, m)
           first == CHOOSE i \in twins : \A j \in twins : i <= j
           new == [x EXCEPT ![first].client = TRUE, ![first].id = m.id]
<1>1. MergeOne(x, m) \in {Append(x, m), new, x}
  BY DEF MergeOne
<1> HIDE DEF first
<1>2. new \in Seq(Message)
  <2>1. Len(x) \in Nat /\ x \in [1..Len(x) -> Message]
    OBVIOUS
  <2>2. ASSUME NEW i \in 1..Len(x)
        PROVE  new[i] \in Message
    <3>1. CASE i = first
      <4>1. x[i] \in Message
        BY <2>1
      <4>2. new[i] = [x[i] EXCEPT !.client = TRUE, !.id = m.id]
        BY <2>1, <3>1
      <4> DEFINE Ids == ({"line"} \X Nat) \cup ({"user", "assistant"} \X Turn)
      <4>3. m.id \in Ids /\ Message = [id : Ids, role : {"user", "assistant"}, text : Text \cup {"reply"},
                                      turn : Turn, client : BOOLEAN, time : Nat]
        BY DEF Message
      <4> HIDE DEF Ids
      <4>4. [x[i] EXCEPT !.client = TRUE] \in Message
        BY <4>1, <4>3
      <4> DEFINE y == [x[i] EXCEPT !.client = TRUE]
      <4>5. new[i] = [y EXCEPT !.id = m.id]
        BY <4>2
      <4>6. y \in Message
        BY <4>4
      <4> HIDE DEF y, new
      <4> QED
        BY <4>3, <4>5, <4>6
    <3>2. CASE i # first
      BY <2>1, <3>2
    <3> QED
      BY <3>1, <3>2
  <2>3. new = [i \in 1..Len(x) |-> new[i]]
    BY <2>1
  <2> HIDE DEF new
  <2>4. new \in [1..Len(x) -> Message]
    BY <2>2, <2>3
  <2> QED
    BY <2>1, <2>4
<1> HIDE DEF new
<1> QED
  BY <1>1, <1>2

LEMMA MergeHistoryTyped ==
  ASSUME NEW p \in Seq(Message), NEW s \in Seq(Message)
  PROVE  MergeHistory(p, s) \in Seq(Message)
<1> DEFINE S == Seq(Message)
<1>1. Len(s) \in Nat /\ p \in S /\ \A n \in 1..Len(s) : s[n] \in Message
  OBVIOUS
<1>2. \A x \in S, n \in 1..Len(s) : MergeOne(x, s[n]) \in S
  BY <1>1, MergeTyped
<1> HIDE DEF S
<1>3. PICK f : MergeRun(f, S, p, s)
  BY <1>1, <1>2, MergeSteps
<1>4. MergeHistory(p, s) \in S
  BY <1>1, <1>3 DEF MergeRun
<1> QED
  BY <1>4 DEF S

LEMMA TurnSteps == Len(InTurn) = MaxTurn /\ Len(InTurn) \in Nat /\ \A n \in 1..MaxTurn : InTurn[n] = n
BY TurnNumbers DEF InTurn, Turn

\* A message the thread reports.
Reported(thread, at, t, role) ==
  [id |-> <<role, t>>, role |-> role,
   text |-> IF role = "user" THEN thread[t].text ELSE "reply", turn |-> t,
   client |-> role = "user" /\ thread[t].by = "bridge", time |-> at[t]]

LEMMA ReportIs ==
  ASSUME NEW thread, NEW at, NEW t
  PROVE  Report(thread, at, t) =
           IF t \notin DOMAIN thread THEN <<>>
           ELSE IF thread[t].replied
           THEN <<Reported(thread, at, t, "user"), Reported(thread, at, t, "assistant")>>
           ELSE <<Reported(thread, at, t, "user")>>
BY DEF Report, Reported

LEMMA ReportedTyped ==
  ASSUME NEW thread \in Threads, NEW at, \A u \in DOMAIN thread : at[u] \in Nat, NEW t \in DOMAIN thread,
         NEW role \in {"user", "assistant"}
  PROVE  Reported(thread, at, t, role) \in Message
<1>1. PICK D \in SUBSET Turn : thread \in [D -> {r \in SomeTurn : r.text \in Text}]
  BY DEF Threads
<1>2. t \in Turn /\ thread[t].text \in Text
  BY <1>1
<1> DEFINE Ids == ({"line"} \X Nat) \cup ({"user", "assistant"} \X Turn)
           text == IF role = "user" THEN thread[t].text ELSE "reply"
           client == role = "user" /\ thread[t].by = "bridge"
<1>3. <<role, t>> \in Ids
  BY <1>2
<1>4. text \in Text \cup {"reply"}
  BY <1>2
<1>5. client \in BOOLEAN
  OBVIOUS
<1>6. Reported(thread, at, t, role) = [id |-> <<role, t>>, role |-> role, text |-> text, turn |-> t,
                                         client |-> client, time |-> at[t]]
  BY DEF Reported
<1>7. Message = [id : Ids, role : {"user", "assistant"}, text : Text \cup {"reply"},
                 turn : Turn, client : BOOLEAN, time : Nat]
  BY DEF Message
<1> HIDE DEF Ids, text, client
<1> QED
  BY <1>2, <1>3, <1>4, <1>5, <1>6, <1>7

LEMMA ReportTyped ==
  ASSUME NEW thread \in Threads, NEW at, \A u \in DOMAIN thread : at[u] \in Nat, NEW t
  PROVE  Report(thread, at, t) \in Seq(Message)
<1>1. t \in DOMAIN thread => /\ Reported(thread, at, t, "user") \in Message
                             /\ Reported(thread, at, t, "assistant") \in Message
  BY ReportedTyped
<1> DEFINE a == Reported(thread, at, t, "user")
           b == Reported(thread, at, t, "assistant")
<1>2. Report(thread, at, t) = IF t \notin DOMAIN thread THEN <<>>
                                ELSE IF thread[t].replied THEN <<a, b>> ELSE <<a>>
  BY ReportIs
<1>3. t \in DOMAIN thread => a \in Message /\ b \in Message
  BY <1>1
<1> HIDE DEF a, b
<1> QED
  BY <1>2, <1>3

LEMMA ThreadTyped ==
  ASSUME NEW thread \in Threads, NEW at, \A u \in DOMAIN thread : at[u] \in Nat
  PROVE  ThreadMessages(thread, at) \in Seq(Message)
<1> DEFINE S == Seq(Message)
<1>1. <<>> \in S /\ \A x \in S, y \in S : x \o y \in S
  OBVIOUS
<1>2. \A n \in 1..Len(InTurn) : Report(thread, at, InTurn[n]) \in S
  BY ReportTyped
<1> HIDE DEF S
<1>3. \A x \in S, n \in 1..Len(InTurn) : ReportOne(x, thread, at, InTurn[n]) \in S
  BY <1>1, <1>2 DEF ReportOne
<1>4. Len(InTurn) \in Nat
  BY TurnSteps
<1>5. PICK f : ReportRun(f, S, thread, at)
  BY <1>1, <1>3, <1>4, ReportSteps
<1>6. ThreadMessages(thread, at) \in S
  BY <1>4, <1>5 DEF ReportRun
<1> QED
  BY <1>6 DEF S

Record == [role : {"user", "assistant"}, text : Text \cup {"reply"}, turn : Turn, time : Nat,
           source : {"event_msg", "response_item"}]

\* Messages are prompts and replies.
Says(p) == \A i \in DOMAIN p : p[i].kind \in DOMAIN Said => p[i].text \in Text \cup {"reply"}

LEMMA SaidIs ==
  /\ DOMAIN Said = {"user_event", "user_item", "agent_event", "agent_item"}
  /\ \A k \in DOMAIN Said : Said[k] \in {"user", "assistant"} /\ Source[k] \in {"event_msg", "response_item"}
  /\ Said["user_event"] = "user" /\ Said["user_item"] = "user"
  /\ Said["agent_event"] = "assistant" /\ Said["agent_item"] = "assistant"
  /\ Source["user_event"] = "event_msg" /\ Source["user_item"] = "response_item"
  /\ Source["agent_event"] = "event_msg" /\ Source["agent_item"] = "response_item"
BY DEF Said, Source

\* What line i would add.
NewRecord(p, i) ==
  [role |-> Said[p[i].kind], text |-> p[i].text, turn |-> TurnAt(p, i), time |-> i,
   source |-> Source[p[i].kind]]

LEMMA CollectIs ==
  ASSUME NEW p, NEW x, NEW i
  PROVE  Collect(p, x, i) =
           IF \/ i \in RolledBack(p) \/ p[i].kind \notin DOMAIN Said
              \/ \E k \in {l \in DOMAIN x : x[l].role = Said[p[i].kind] /\ x[l].text = p[i].text} :
                   /\ \A m \in {l \in DOMAIN x : x[l].role = Said[p[i].kind] /\ x[l].text = p[i].text} :
                        m <= k
                   /\ x[k].turn # 0 /\ x[k].turn = TurnAt(p, i) /\ x[k].source # Source[p[i].kind]
           THEN x ELSE Append(x, NewRecord(p, i))
BY DEF Collect, NewRecord

LEMMA CollectTyped ==
  ASSUME NEW p, Rollout(p), Says(p), NEW x \in Seq(Record), NEW i \in DOMAIN p
  PROVE  Collect(p, x, i) \in Seq(Record)
<1>1. Collect(p, x, i) = x \/ (p[i].kind \in DOMAIN Said /\ Collect(p, x, i) = Append(x, NewRecord(p, i)))
  BY CollectIs
<1>2. ASSUME p[i].kind \in DOMAIN Said
      PROVE  NewRecord(p, i) \in Record
  <2>1. TurnAt(p, i) \in Turn
    BY StartIs
  <2>2. p[i].text \in Text \cup {"reply"}
    BY <1>2 DEF Says
  <2>3. i \in Nat
    <3>1. DOMAIN p = 1..Len(p)
      BY RolloutFields
    <3> QED
      BY <3>1
  <2>4. Said[p[i].kind] \in {"user", "assistant"} /\ Source[p[i].kind] \in {"event_msg", "response_item"}
    BY <1>2, SaidIs
  <2> QED
    BY <2>1, <2>2, <2>3, <2>4 DEF NewRecord, Record
<1> QED
  BY <1>1, <1>2

LEMMA NumbersAre ==
  ASSUME NEW p, Rollout(p)
  PROVE  /\ Len(Numbers(p)) = Len(p) /\ Len(p) \in Nat /\ DOMAIN p = 1..Len(p)
         /\ \A n \in 1..Len(p) : Numbers(p)[n] = n
<1>1. DOMAIN p = 1..Len(p) /\ Len(p) \in Nat
  BY RolloutFields
<1> QED
  BY <1>1 DEF Numbers

LEMMA CollectedTyped ==
  ASSUME NEW p, Rollout(p), Says(p)
  PROVE  CollectMessages(p) \in Seq(Record)
<1> DEFINE S == Seq(Record)
<1>1. <<>> \in S
  OBVIOUS
<1>2. \A x \in S, n \in 1..Len(Numbers(p)) : Collect(p, x, Numbers(p)[n]) \in S
  BY NumbersAre, CollectTyped
<1> HIDE DEF S
<1>3. Len(Numbers(p)) \in Nat
  BY NumbersAre
<1>4. PICK f : CollectRun(f, S, p)
  BY <1>1, <1>2, <1>3, CollectSteps
<1>5. CollectMessages(p) \in S
  BY <1>3, <1>4 DEF CollectRun
<1> QED
  BY <1>5 DEF S

\* The message of a record.
Placed(r, i) ==
  [id |-> <<"line", i>>, role |-> r.role, text |-> r.text, turn |-> r.turn, client |-> FALSE,
   time |-> r.time]

LEMMA RolloutMessagesTyped ==
  ASSUME NEW p, Rollout(p), Says(p)
  PROVE  RolloutMessages(p) \in Seq(Message)
<1> DEFINE r == CollectMessages(p)
<1>1. r \in Seq(Record)
  BY CollectedTyped
<1>2. RolloutMessages(p) = [i \in DOMAIN r |-> Placed(r[i], i)]
  BY DEF RolloutMessages, Placed
<1> HIDE DEF r
<1>3. Len(r) \in Nat /\ DOMAIN r = 1..Len(r) /\ \A i \in DOMAIN r : r[i] \in Record /\ i \in Nat
  BY <1>1
<1>4. \A i \in DOMAIN r : Placed(r[i], i) \in Message
  <2> TAKE i \in DOMAIN r
  <2> DEFINE Ids == ({"line"} \X Nat) \cup ({"user", "assistant"} \X Turn)
  <2>1. <<"line", i>> \in Ids
    BY <1>3
  <2>2. Message = [id : Ids, role : {"user", "assistant"}, text : Text \cup {"reply"},
                   turn : Turn, client : BOOLEAN, time : Nat]
    BY DEF Message
  <2> HIDE DEF Ids
  <2>3. r[i] \in Record
    BY <1>3
  <2> QED
    BY <2>1, <2>2, <2>3 DEF Placed, Record
<1>5. RolloutMessages(p) \in [1..Len(r) -> Message]
  BY <1>2, <1>3, <1>4
<1> QED
  BY <1>3, <1>5

\* The part of the file that was read.
LEMMA ReadLines ==
  ASSUME HistoryInv, NEW n \in 0..Len(lines)
  PROVE  /\ Prefix(SubSeq(lines, 1, n), lines) /\ Rollout(SubSeq(lines, 1, n))
         /\ Len(SubSeq(lines, 1, n)) = n /\ n \in Nat /\ Says(SubSeq(lines, 1, n))
<1> DEFINE p == SubSeq(lines, 1, n)
<1>1. /\ Book(lines, turns, running) /\ Rollout(lines) /\ lines \in Seq(RolloutLine) /\ Len(lines) \in Nat
      /\ DOMAIN lines = 1..Len(lines)
  BY BookFields DEF HistoryInv, LinesInv
<1>2. n \in Nat /\ p \in Seq(RolloutLine) /\ Len(p) = n /\ \A i \in 1..n : p[i] = lines[i]
  BY <1>1
<1>3. DOMAIN p = 1..n
  BY <1>2
<1> HIDE DEF p
<1>4. Prefix(p, lines)
  BY <1>1, <1>2 DEF Prefix
<1>5. Rollout(p)
  BY <1>1, <1>4, PrefixRollout
<1>6. ASSUME NEW i \in DOMAIN p, p[i].kind \in DOMAIN Said
      PROVE  p[i].text \in Text \cup {"reply"}
  <2>1. i \in DOMAIN lines /\ p[i] = lines[i]
    BY <1>1, <1>2, <1>3
  <2>2. lines[i].kind \in {"user_event", "user_item", "agent_event", "agent_item"}
    BY <1>6, <2>1, SaidIs
  <2>3. ScriptAt(lines, turns, i)
    BY <2>1 DEF HistoryInv, Script
  <2>4. CASE lines[i].kind \in {"agent_event", "agent_item"}
    BY <2>1, <2>3, <2>4 DEF ScriptAt
  <2>5. CASE lines[i].kind \in {"user_event", "user_item"}
    <3> DEFINE t == lines[i].turn
    <3>1. t # 0 /\ t \in Turn
      <4>1. lines[i].kind # "thread_rolled_back"
        BY <2>5
      <4>2. lines[i].turn # 0
        BY <1>1, <2>1, <4>1 DEF Rollout
      <4> QED
        BY <1>1, <2>1, <4>2, BookFields
    <3>2. turns[t].status # "none"
      BY <1>1, <2>1, <3>1 DEF Book
    <3>3. turns[t].text \in Text
      BY <3>1, <3>2 DEF HistoryInv, TurnsInv, Begun
    <3>4. lines[i].text = turns[t].text
      BY <2>3, <2>5 DEF ScriptAt
    <3> QED
      BY <2>1, <3>3, <3>4
  <2> QED
    BY <2>2, <2>4, <2>5
<1>7. Says(p)
  BY <1>6 DEF Says
<1> QED
  BY <1>2, <1>4, <1>5, <1>7 DEF p

LEMMA DetailTyped ==
  ASSUME HistoryInv, NEW n \in 0..Len(lines), NEW thread \in Threads, NEW at,
         \A u \in DOMAIN thread : at[u] \in Nat
  PROVE  DetailMessages(thread, n, at) \in Seq(Message)
<1>1. Rollout(SubSeq(lines, 1, n)) /\ Says(SubSeq(lines, 1, n)) /\ n \in Nat
  BY ReadLines
<1>2. RolloutMessages(SubSeq(lines, 1, n)) \in Seq(Message)
  BY <1>1, RolloutMessagesTyped
<1>3. ThreadMessages(thread, at) \in Seq(Message)
  BY ThreadTyped
<1> QED
  BY <1>2, <1>3, MergeHistoryTyped DEF DetailMessages

-----------------------------------------------------------------------------
(* Rollbacks in what the client has                                        *)

\* A rollback that was read is told of by the details.
LEMMA DetailWithdraws ==
  ASSUME HistoryInv, NEW n \in 0..Len(lines), NEW thread
  PROVE  Withdrawn(n, DetailEvents(thread, n))
<1> DEFINE p == SubSeq(lines, 1, n)
           R == RolloutEvents(p)
           M == MergeEvents(R, Stored)
<1>1. Prefix(p, lines) /\ Rollout(p) /\ Len(p) = n /\ n \in Nat
  BY ReadLines
<1>2. DetailEvents(thread, n) = Reconcile(thread, M, {active} \ {0})
  BY DEF DetailEvents
<1> HIDE DEF p
<1>3. R \cup Stored \subseteq AnyEvent /\ \E b \in Nat : \A e \in R \cup Stored : e.seq <= b
  BY <1>1, SourcesAreEvents DEF HistoryInv
<1>4. PICK b \in Nat : \A e \in R \cup Stored : e.seq <= b
  BY <1>3
<1> HIDE DEF R
<1>5. /\ \A e \in R \cup Stored : \E m \in M : m.type = e.type /\ m.turn = e.turn
      /\ M \in SUBSET AnyEvent
  BY <1>3, <1>4, MergedFrom
<1>6. \A m \in M : m.seq <= b /\ \E e \in R \cup Stored, l \in R \cup Stored :
        m.type = e.type /\ m.turn = e.turn /\ l.type = e.type /\ l.turn = e.turn /\ m.status = l.status
  BY <1>3, <1>4, MergedFields
<1> HIDE DEF M
<1> DEFINE run == {active} \ {0}
<1>7. M \subseteq DetailEvents(thread, n)
  <2>1. DetailEvents(thread, n) = Reconcile(thread, M, run)
    BY <1>2
  <2>2. \A e \in M : e.seq <= b
    BY <1>6
  <2> HIDE DEF run
  <2>3. M \subseteq Reconcile(thread, M, run)
    BY <1>4, <1>5, <2>2, ReconciledIs
  <2> QED
    BY <2>1, <2>3
<1>8. ASSUME NEW t \in Turn, NEW i \in 1..n, TakesBack(lines, i, t), t \notin StoredFailed
      PROVE  \E e \in DetailEvents(thread, n) :
               e.type = "turn_failed" /\ e.status = "rolled_back" /\ e.turn = t
  <2>1. TakesBack(p, i, t)
    BY <1>1, <1>8, PrefixTakesBack
  <2>2. Undone(p, t)
    BY <2>1 DEF Undone, TakesBack
  <2>3. PICK e \in R : e.type = "turn_failed" /\ e.turn = t
    BY <1>1, <2>2, RolloutTells DEF R
  <2>4. PICK m \in M : m.type = "turn_failed" /\ m.turn = t
    BY <1>5, <2>3
  <2>5. PICK l \in R \cup Stored : l.type = "turn_failed" /\ l.turn = t /\ m.status = l.status
    BY <1>6, <2>4
  <2>6. l \notin Stored
    BY <1>8, <2>5 DEF StoredFailed
  <2>7. l.status = "rolled_back"
    BY <1>1, <2>2, <2>5, <2>6, RolloutEventsFrom DEF R
  <2> QED
    BY <1>7, <2>4, <2>5, <2>7
<1> QED
  BY <1>8 DEF Withdrawn

\* What is withdrawn stays so: the file and the store only grow.
LEMMA StaysWithdrawn ==
  ASSUME LinesInv, Onward, StoredFailed \subseteq StoredFailed',
         NEW n \in 0..Len(lines), NEW events, Withdrawn(n, events), NEW more, events \subseteq more
  PROVE  n \in 0..Len(lines') /\ Withdrawn(n, more)'
<1>1. Prefix(lines, lines') /\ Len(lines) \in Nat /\ Len(lines') \in Nat /\ Len(lines) <= Len(lines')
  BY DEF Onward, Prefix
<1>2. \A i \in 1..n : i \in 1..Len(lines)
  BY <1>1
<1>3. \A i \in 1..n, t \in Turn : TakesBack(lines, i, t) <=> TakesBack(lines', i, t)
  BY <1>1, <1>2, PrefixTakesBack
<1> QED
  BY <1>1, <1>3 DEF Withdrawn

LEMMA StoreGrows ==
  ASSUME EventsInv, [Next]_vars
  PROVE  Stored \subseteq Stored' /\ StoredFailed \subseteq StoredFailed'
<1>1. stored \in Seq(ToldEvents)
  BY DEF EventsInv
<1>2. stored' = stored \/ \E e : stored' = Append(stored, e)
  BY DEF Next, vars, storeVars, Codex, BeginTurn, UseTool, Reply, Finish, RollBack, Write, Notification,
     Publish, Exit, ThreadRead, ThreadFails, ReadThread, RolloutRead, Detail, Scan, Unknown, Accepted, Project, Poll, Take
<1>3. Stored \subseteq Stored'
  BY <1>1, <1>2 DEF Stored
<1> QED
  BY <1>3 DEF StoredFailed

LEMMA WiredStays ==
  ASSUME Onward
  PROVE  Wired \subseteq Wired'
BY DEF Onward, Wired, StoredEvent

\* What is published is of a turn that has begun.
LEMMA PublishWires ==
  ASSUME HistoryInv, Onward, wire \in Seq(Wired), NEW n \in ToldNotes', Publish(Recorded(n))
  PROVE  wire' \in Seq(Wired')
<1> DEFINE e == Recorded(n)
           w == [event |-> e, time |-> Len(lines)]
<1>1. wire' = IF Client THEN Append(wire, w) ELSE wire
  BY DEF Publish
<1>2. wire \in Seq(Wired')
  BY WiredStays
<1>3. stored \in Seq(ToldEvents) /\ Len(stored) \in Nat /\ StoreBase \in Nat
  BY TimelineAssumption DEF EventsInv, HistoryInv
<1>4. n \in Notes /\ n.turn \in Begun'
  BY DEF ToldNotes, Told, Notes
<1>5. e = [type |-> n.type, turn |-> n.turn, status |-> n.status,
           seq |-> StoreBase + Len(stored) + 1, from |-> "store"]
  BY DEF Recorded, Event
<1> HIDE DEF e
<1>6. e \in StoredEvent /\ e.turn = n.turn
  BY <1>3, <1>4, <1>5 DEF StoredEvent, Notes
<1>7. Len(lines) \in Nat
  BY WholeFile DEF HistoryInv
<1>8. w \in [event : StoredEvent, time : Nat] /\ w.event = e
  BY <1>6, <1>7
<1>9. w \in Wired'
  BY <1>4, <1>6, <1>8 DEF Wired, StoredEvent
<1> HIDE DEF w
<1> QED
  BY <1>1, <1>2, <1>9

LEMMA WireKept ==
  ASSUME HistoryInv, Onward, wire \in Seq(Wired), [Next]_vars
  PROVE  wire' \in Seq(Wired')
<1>1. wire \in Seq(Wired')
  BY WiredStays
<1>2. CASE Notification
  <2>1. notes # <<>> /\ Publish(Recorded(Head(notes))) /\ notes \in Seq(ToldNotes)
    BY <1>2 DEF Notification, HistoryInv, EventsInv
  <2>2. Head(notes) \in ToldNotes'
    BY <2>1, ToldStays
  <2> QED
    BY <2>1, <2>2, PublishWires
<1>3. CASE Exit
  <2>1. CASE active = 0
    BY <1>1, <1>3, <2>1 DEF Exit
  <2>2. CASE active # 0
    <3> DEFINE n == Note("turn_failed", active, "unavailable")
    <3>1. Publish(Recorded(n))
      BY <1>3, <2>2 DEF Exit
    <3>2. active \in Begun /\ turns[active].by = "bridge" /\ active \in Turn
      BY <2>2 DEF HistoryInv, EventsInv, Begun
    <3>3. /\ n \in Notes /\ n.type = "turn_failed" /\ n.turn = active /\ n.status = "unavailable"
      BY <3>2, TypesNamed DEF Note, Notes
    <3> HIDE DEF n
    <3>4. active # running'
      BY <1>3, <2>2, <3>2, ExitKeepsLines DEF HistoryInv
    <3>5. active \in Begun' /\ turns'[active].by = "bridge"
      BY <3>2 DEF Onward
    <3>6. n \in ToldNotes'
      BY <3>3, <3>4, <3>5 DEF ToldNotes, Told, Notes
    <3> QED
      BY <3>1, <3>6, PublishWires
  <2> QED
    BY <2>1, <2>2
<1>4. CASE Project
  <2>1. wire # <<>> /\ wire' = Tail(wire)
    BY <1>4 DEF Project
  <2> QED
    BY <1>1, <2>1
<1>5. CASE ~Notification /\ ~Exit /\ ~Project
  <2>1. wire' = wire
    BY <1>5 DEF Next, vars, Codex, BeginTurn, UseTool, Reply, Finish, RollBack, Write,
     ThreadRead, ThreadFails, ReadThread, RolloutRead, Detail, Scan, Unknown, Accepted, Poll, Take
  <2> QED
    BY <1>1, <2>1
<1> QED
  BY <1>2, <1>3, <1>4, <1>5

\* The message an event of a turn that has begun brings.
BridgeMessage(e, now) ==
  LET role == IF e.type = "user_message" THEN "user" ELSE "assistant"
  IN [id |-> <<role, e.turn>>, role |-> role,
      text |-> IF role = "user" THEN turns[e.turn].text ELSE "reply",
      turn |-> e.turn, client |-> role = "user", time |-> now]

LEMMA BridgeMessageTyped ==
  ASSUME TurnsInv, NEW e, e.turn \in Begun, NEW now \in Nat
  PROVE  BridgeMessage(e, now) \in Message
<1> DEFINE role == IF e.type = "user_message" THEN "user" ELSE "assistant"
           text == IF role = "user" THEN turns[e.turn].text ELSE "reply"
           client == role = "user"
           Ids == ({"line"} \X Nat) \cup ({"user", "assistant"} \X Turn)
<1>1. role \in {"user", "assistant"} /\ client \in BOOLEAN
  OBVIOUS
<1>2. e.turn \in Turn /\ turns[e.turn].text \in Text
  BY DEF Begun, TurnsInv
<1>3. text \in Text \cup {"reply"}
  BY <1>2
<1>4. <<role, e.turn>> \in Ids
  BY <1>1, <1>2
<1>5. Message = [id : Ids, role : {"user", "assistant"}, text : Text \cup {"reply"},
                 turn : Turn, client : BOOLEAN, time : Nat]
  BY DEF Message
<1>6. BridgeMessage(e, now) = [id |-> <<role, e.turn>>, role |-> role, text |-> text, turn |-> e.turn,
                               client |-> client, time |-> now]
  BY DEF BridgeMessage
<1> HIDE DEF role, text, client, Ids
<1> QED
  BY <1>1, <1>2, <1>3, <1>4, <1>5, <1>6

\* What a projected event makes of a view.
Projected(v, w) ==
  \E messages \in Seq(Message), act \in BOOLEAN : \E more :
    /\ v.events \subseteq more
    /\ w = [messages |-> messages, events |-> more, active |-> act, lines |-> v.lines]

\* A projected event adds to the events, and puts one message in its place.
LEMMA BridgeEventIs ==
  ASSUME TurnsInv, NEW v, v.messages \in Seq(Message), v.active \in BOOLEAN,
         v = [messages |-> v.messages, events |-> v.events, active |-> v.active, lines |-> v.lines],
         NEW e, e.turn \in Begun, NEW now \in Nat
  PROVE  Projected(v, MergeBridgeEvent(v, e, now))
<1> DEFINE m == BridgeMessage(e, now)
           same == {i \in DOMAIN v.messages :
                      LET r == v.messages[i]
                      IN r.id = m.id \/ (r.client /\ m.client /\ r.turn = m.turn)}
           first == CHOOSE i \in same : \A j \in same : i <= j
           Repeated(r) == m.role = "assistant" /\ r.role = "assistant" /\ r.turn = m.turn /\ r.text = m.text
           put == [v.messages EXCEPT ![first] = m]
           messages == CASE same # {} -> put
             [] same = {} /\ \E i \in DOMAIN v.messages : Repeated(v.messages[i]) -> v.messages
             [] OTHER -> Append(v.messages, m)
           told == [v EXCEPT !.messages = messages, !.events = @ \cup {e}]
           noted == [v EXCEPT !.events = @ \cup {e},
                       !.active = IF IsLifecycle(e) THEN e.type = "turn_started" ELSE @]
<1>1. MergeBridgeEvent(v, e, now) \in {v, told, noted}
  BY DEF MergeBridgeEvent, BridgeMessage
<1>2. m \in Message
  BY BridgeMessageTyped
<1> HIDE DEF m, first
<1>3. messages \in Seq(Message)
  <2>1. Append(v.messages, m) \in Seq(Message)
    BY <1>2
  <2>2. put \in Seq(Message)
    <3>1. Len(v.messages) \in Nat /\ v.messages \in [1..Len(v.messages) -> Message]
      OBVIOUS
    <3>2. put \in [1..Len(v.messages) -> Message]
      BY <1>2, <3>1
    <3> QED
      BY <3>1, <3>2
  <2>3. messages \in {put, v.messages, Append(v.messages, m)}
    OBVIOUS
  <2> HIDE DEF messages, put
  <2> QED
    BY <2>1, <2>2, <2>3
<1> HIDE DEF messages
<1>4. told = [messages |-> messages, events |-> v.events \cup {e}, active |-> v.active, lines |-> v.lines]
  <2> DEFINE w == [messages |-> v.messages, events |-> v.events, active |-> v.active, lines |-> v.lines]
  <2>1. told = [w EXCEPT !.messages = messages, !.events = @ \cup {e}]
    OBVIOUS
  <2> HIDE DEF told
  <2> QED
    BY <2>1
<1> DEFINE act == IF IsLifecycle(e) THEN e.type = "turn_started" ELSE v.active
<1>5. act \in BOOLEAN
  OBVIOUS
<1>6. noted = [messages |-> v.messages, events |-> v.events \cup {e}, active |-> act, lines |-> v.lines]
  <2> DEFINE w == [messages |-> v.messages, events |-> v.events, active |-> v.active, lines |-> v.lines]
  <2>1. noted = [w EXCEPT !.events = @ \cup {e}, !.active = act]
    OBVIOUS
  <2> HIDE DEF noted, act
  <2> QED
    BY <2>1
<1> HIDE DEF told, noted, act
<1>7. v.events \subseteq v.events \cup {e} /\ v.events \subseteq v.events
  OBVIOUS
<1> QED
  BY <1>1, <1>3, <1>4, <1>5, <1>6, <1>7 DEF Projected

LEMMA ViewKept ==
  ASSUME HistoryInv, HistoryInv', Onward, ClientInv, [Next]_vars
  PROVE  ViewInv'
<1>1. StoredFailed \subseteq StoredFailed'
  BY StoreGrows DEF HistoryInv
<1>2. LinesInv /\ ViewInv /\ RequestInv /\ TurnsInv
  BY DEF HistoryInv, ClientInv
<1>3. ASSUME NEW n \in 0..Len(lines), NEW events, Withdrawn(n, events), NEW more, events \subseteq more,
             NEW messages \in Seq(Message), NEW act \in BOOLEAN,
             view' = [messages |-> messages, events |-> more, active |-> act, lines |-> n]
      PROVE  ViewInv'
  <2>1. view'.messages = messages /\ view'.events = more /\ view'.active = act /\ view'.lines = n
    BY <1>3
  <2>2. n \in 0..Len(lines') /\ Withdrawn(n, more)'
    <3>1. Withdrawn(n, events) /\ events \subseteq more /\ LinesInv
      BY <1>2, <1>3
    <3> QED
      BY <1>1, <3>1, StaysWithdrawn
  <2>3. Withdrawn(view.lines, view.events)'
    BY <2>1, <2>2 DEF Withdrawn
  <2> QED
    BY <1>3, <2>1, <2>2, <2>3 DEF ViewInv
<1>4. CASE Project
  <2>1. /\ wire # <<>> /\ view' = MergeBridgeEvent(view, Head(wire).event, Head(wire).time)
        /\ Head(wire) \in Wired
    BY <1>4 DEF Project, ClientInv
  <2>2. Head(wire).event.turn \in Begun /\ Head(wire).time \in Nat
    BY <2>1 DEF Wired
  <2>3. /\ view.messages \in Seq(Message) /\ view.active \in BOOLEAN
        /\ view = [messages |-> view.messages, events |-> view.events, active |-> view.active,
                   lines |-> view.lines]
        /\ view.lines \in 0..Len(lines) /\ Withdrawn(view.lines, view.events)
    BY <1>2 DEF ViewInv
  <2>4. Projected(view, view')
    BY <1>2, <2>1, <2>2, <2>3, BridgeEventIs
  <2>5. PICK messages \in Seq(Message), act \in BOOLEAN : \E more :
          /\ view.events \subseteq more
          /\ view' = [messages |-> messages, events |-> more, active |-> act, lines |-> view.lines]
    BY <2>4 DEF Projected
  <2>6. PICK more :
          /\ view.events \subseteq more
          /\ view' = [messages |-> messages, events |-> more, active |-> act, lines |-> view.lines]
    BY <2>5
  <2> QED
    BY <1>3, <2>3, <2>6
<1>5. CASE Take
  <2>1. /\ request.pc = "answered"
        /\ view' = [messages |-> request.messages, events |-> request.events,
                    active |-> DeriveActive(request.events), lines |-> request.lines]
    BY <1>5 DEF Take
  <2>2. DeriveActive(request.events) \in BOOLEAN
    BY DEF DeriveActive
  <2>3. /\ Withdrawn(request.lines, request.events) /\ request.lines \in 0..Len(lines)
        /\ request.messages \in Seq(Message)
    BY <1>2, <2>1 DEF RequestInv
  <2> QED
    BY <1>3, <2>1, <2>2, <2>3
<1>6. CASE ~Project /\ ~Take
  <2>1. view' = view
    BY <1>6 DEF Next, vars, clientVars, Codex, BeginTurn, UseTool, Reply, Finish, RollBack, Write,
     Notification, Exit, ThreadRead, ThreadFails, ReadThread, RolloutRead, Detail, Scan, Unknown, Accepted, Poll, PollIdle
  <2> QED
    BY <1>2, <1>3, <2>1 DEF ViewInv
<1> QED
  BY <1>4, <1>5, <1>6

LEMMA TimesTyped ==
  ASSUME NEW thread, NEW seen \in Nat, NEW at \in Times(thread, seen)
  PROVE  DOMAIN at = DOMAIN thread /\ \A t \in DOMAIN thread : at[t] \in Nat
<1> DEFINE earlier == {t \in DOMAIN thread : \E u \in DOMAIN thread : t < u}
<1>1. PICK f \in [earlier -> 0..seen] : at = [t \in DOMAIN thread |-> IF t \in earlier THEN f[t] ELSE seen]
  BY DEF Times
<1> HIDE DEF earlier
<1> QED
  BY <1>1

LEMMA RequestKept ==
  ASSUME HistoryInv, HistoryInv', Onward, ClientInv, [Next]_vars
  PROVE  RequestInv'
<1>1. StoredFailed \subseteq StoredFailed'
  BY StoreGrows DEF HistoryInv
<1>2. LinesInv /\ ViewInv /\ RequestInv /\ TurnsInv
  BY DEF HistoryInv, ClientInv
<1>3. ASSUME NEW pc, NEW n \in 0..Len(lines), NEW events,
             pc = "answered" => Withdrawn(n, events),
             NEW messages \in Seq(Message), NEW thread \in Threads, NEW seen \in Nat,
             request' = [pc |-> pc, thread |-> thread, lines |-> n, seen |-> seen,
                         messages |-> messages, events |-> events]
      PROVE  RequestInv'
  <2>1. /\ request'.messages = messages /\ request'.events = events /\ request'.pc = pc
        /\ request'.lines = n /\ request'.thread = thread /\ request'.seen = seen
    BY <1>3
  <2>2. n \in 0..Len(lines')
    <3>1. Len(lines) \in Nat /\ Len(lines') \in Nat /\ Len(lines) <= Len(lines')
      BY DEF Onward, Prefix
    <3> QED
      BY <3>1
  <2>3. ASSUME pc = "answered"
        PROVE  Withdrawn(n, events)'
    <3>1. Withdrawn(n, events) /\ events \subseteq events /\ LinesInv
      BY <1>2, <1>3, <2>3
    <3> QED
      BY <1>1, <3>1, StaysWithdrawn
  <2>4. request'.pc = "answered" => Withdrawn(request.lines, request.events)'
    BY <2>1, <2>3 DEF Withdrawn
  <2>5. request' = [pc |-> request'.pc, thread |-> request'.thread, lines |-> request'.lines,
                    seen |-> request'.seen, messages |-> request'.messages, events |-> request'.events]
    BY <1>3, <2>1
  <2> QED
    BY <2>1, <2>2, <2>4, <2>5 DEF RequestInv
<1>4. <<>> \in Seq(Message) /\ NoThread \in Threads /\ 0 \in 0..Len(lines) /\ written \in 0..Len(lines)
  <2>1. NoThread \in [{} -> {r \in SomeTurn : r.text \in Text}]
    BY DEF NoThread
  <2>2. NoThread \in Threads
    BY <2>1 DEF Threads
  <2>3. 0 \in 0..Len(lines) /\ written \in 0..Len(lines)
    BY <1>2, WholeFile DEF LinesInv
  <2> QED
    BY <2>2, <2>3
<1> DEFINE r == [pc |-> request.pc, thread |-> request.thread, lines |-> request.lines,
                 seen |-> request.seen, messages |-> request.messages, events |-> request.events]
<1>5. request = r
  BY <1>2 DEF RequestInv
<1>6. ASSUME NEW thread \in Threads, ReadThread(thread)
      PROVE  RequestInv'
  <2> DEFINE pc == IF request.pc = "asked" THEN "thread" ELSE "read"
  <2>1. request' = [r EXCEPT !.thread = thread, !.pc = pc]
    BY <1>5, <1>6 DEF ReadThread
  <2>2. request' = [pc |-> pc, thread |-> thread, lines |-> request.lines, seen |-> request.seen,
                    messages |-> request.messages, events |-> request.events]
    BY <2>1
  <2>3. pc # "answered"
    OBVIOUS
  <2> HIDE DEF pc, r
  <2> QED
    BY <1>2, <1>3, <2>2, <2>3 DEF RequestInv
<1>7. CASE ThreadRead
  <2>1. Known \in SUBSET Turn /\ \A t \in Known : t \in Begun /\ t \in Turn
    BY DEF Known, Begun
  <2>2. [t \in Known |-> turns[t]] \in [Known -> {q \in SomeTurn : q.text \in Text}]
    BY <1>2, <2>1 DEF TurnsInv
  <2>3. [t \in Known |-> turns[t]] \in Threads
    BY <2>1, <2>2 DEF Threads
  <2> QED
    BY <1>6, <1>7, <2>3 DEF ThreadRead
<1>8. CASE ThreadFails
  BY <1>4, <1>6, <1>8 DEF ThreadFails
<1>9. CASE RolloutRead
  <2> DEFINE pc == IF request.pc = "asked" THEN "rollout" ELSE "read"
             n == IF scanned = 0 THEN 0 ELSE written
  <2>1. request' = [r EXCEPT !.lines = n, !.seen = scanned, !.pc = pc]
    BY <1>5, <1>9 DEF RolloutRead
  <2>2. request' = [pc |-> pc, thread |-> request.thread, lines |-> n, seen |-> scanned,
                    messages |-> request.messages, events |-> request.events]
    BY <2>1
  <2>3. pc # "answered" /\ n \in 0..Len(lines) /\ scanned \in Nat
    BY <1>4 DEF ClientInv
  <2> HIDE DEF pc, r, n
  <2> QED
    BY <1>2, <1>3, <1>4, <2>2, <2>3 DEF RequestInv
<1>10. CASE Detail
  <2>1. PICK at \in Times(request.thread, request.seen) :
          request' = [request EXCEPT !.pc = "answered", !.thread = NoThread, !.seen = 0,
                        !.messages = DetailMessages(request.thread, request.lines, at),
                        !.events = DetailEvents(request.thread, request.lines)]
    BY <1>10 DEF Detail
  <2> DEFINE messages == DetailMessages(request.thread, request.lines, at)
             events == DetailEvents(request.thread, request.lines)
  <2>2. request' = [r EXCEPT !.pc = "answered", !.thread = NoThread, !.seen = 0,
                             !.messages = messages, !.events = events]
    BY <1>5, <2>1
  <2>3. \A u \in DOMAIN request.thread : at[u] \in Nat
    BY <1>2, TimesTyped DEF RequestInv
  <2>4. messages \in Seq(Message) /\ Withdrawn(request.lines, events)
    BY <1>2, <2>3, DetailTyped, DetailWithdraws DEF RequestInv
  <2> HIDE DEF messages, events
  <2>5. request' = [pc |-> "answered", thread |-> NoThread, lines |-> request.lines, seen |-> 0,
                    messages |-> messages, events |-> events]
    BY <2>2
  <2> HIDE DEF r
  <2> QED
    BY <1>2, <1>3, <1>4, <2>4, <2>5 DEF RequestInv
<1>11. CASE Poll
  <2>1. request' = [pc |-> "asked", thread |-> NoThread, lines |-> 0, seen |-> 0,
                    messages |-> <<>>, events |-> {}]
    BY <1>11 DEF Poll, NoRequest
  <2> QED
    BY <1>3, <1>4, <2>1
<1>12. CASE Take \/ Unknown
  <2>1. request' = [pc |-> "none", thread |-> NoThread, lines |-> 0, seen |-> 0,
                    messages |-> <<>>, events |-> {}]
    BY <1>12 DEF Take, Unknown, NoRequest
  <2> QED
    BY <1>3, <1>4, <2>1
<1>13. CASE ~ThreadRead /\ ~ThreadFails /\ ~RolloutRead /\ ~Detail /\ ~Poll /\ ~Take /\ ~Unknown
  <2>1. request' = request
    BY <1>13 DEF Next, vars, Codex, BeginTurn, UseTool, Reply, Finish, RollBack, Write,
     Notification, Exit, Scan, Accepted, Project
  <2>2. request' = r
    BY <1>5, <2>1
  <2>3. request.pc = "answered" => Withdrawn(request.lines, request.events)
    BY <1>2 DEF RequestInv
  <2> QED
    BY <1>2, <1>3, <2>2, <2>3 DEF RequestInv
<1> QED
  BY <1>7, <1>8, <1>9, <1>10, <1>11, <1>12, <1>13

LEMMA ClientKept ==
  ASSUME HistoryInv, HistoryInv', Onward, ClientInv, [Next]_vars
  PROVE  ClientInv'
<1>1. wire' \in Seq(Wired') /\ ViewInv' /\ RequestInv'
  BY WireKept, ViewKept, RequestKept DEF ClientInv
<1>2. ours' \subseteq Turn
  BY DEF ClientInv, Next, vars, clientVars, Codex, BeginTurn, UseTool, Reply, Finish, RollBack, Write,
     Notification, Exit, ThreadRead, ThreadFails, ReadThread, RolloutRead, Detail, Scan, Unknown, Accepted, Project, Poll, Take
<1>3. exits' \in 0..MaxExit /\ misses' \in 0..MaxMiss
  <2>1. MaxExit \in Nat /\ MaxMiss \in Nat /\ exits \in 0..MaxExit /\ misses \in 0..MaxMiss
    BY TimelineAssumption DEF ClientInv
  <2>2. exits' = exits \/ (exits < MaxExit /\ exits' = exits + 1)
    BY DEF Next, vars, Codex, BeginTurn, UseTool, Reply, Finish, RollBack, Write,
     Notification, Exit, ThreadRead, ThreadFails, ReadThread, RolloutRead, Detail, Scan, Unknown, Accepted, Project, Poll, Take
  <2>3. misses' = misses \/ (misses < MaxMiss /\ misses' = misses + 1)
    BY DEF Next, vars, Codex, BeginTurn, UseTool, Reply, Finish, RollBack, Write,
     Notification, Exit, ThreadRead, ThreadFails, ReadThread, RolloutRead, Detail, Scan, Unknown, Accepted, Project, Poll, Take
  <2> QED
    BY <2>1, <2>2, <2>3
<1>4. scanned' \in 0..written'
  <2>1. scanned \in 0..written /\ written \in 0..Len(lines) /\ Len(lines) \in Nat
    BY WholeFile DEF ClientInv, HistoryInv, LinesInv
  <2>2. /\ written' \in {written, Len(lines)}
        /\ scanned' = scanned \/ (scanned' = written /\ written' = written)
    BY DEF Next, vars, Codex, BeginTurn, UseTool, Reply, Finish, RollBack, Write,
     Notification, Exit, ThreadRead, ThreadFails, ReadThread, RolloutRead, Detail, Scan, Unknown, Accepted,
     Project, Poll, Take
  <2> QED
    BY <2>1, <2>2
<1> QED
  BY <1>1, <1>2, <1>3, <1>4 DEF ClientInv

LEMMA ClientBegins ==
  ASSUME Init
  PROVE  ClientInv
<1>1. /\ lines = <<>> /\ written = 0 /\ scanned = 0 /\ wire = <<>> /\ ours = {} /\ exits = 0 /\ misses = 0 /\ view = EmptyView
      /\ request = IF Client THEN [NoRequest EXCEPT !.pc = "asked"] ELSE NoRequest
  BY DEF Init
<1>2. Len(lines) = 0 /\ 0 \in 0..Len(lines) /\ <<>> \in Seq(Message) /\ wire \in Seq(Wired)
  BY <1>1
<1>3. 0 \in 0..MaxExit /\ 0 \in 0..MaxMiss
  BY TimelineAssumption
<1>4. \A e : Withdrawn(0, e)
  BY DEF Withdrawn
<1>5. ViewInv
  BY <1>1, <1>2, <1>4 DEF ViewInv, EmptyView
<1>6. NoThread \in Threads
  <2>1. NoThread \in [{} -> {r \in SomeTurn : r.text \in Text}]
    BY DEF NoThread
  <2> QED
    BY <2>1 DEF Threads
<1> DEFINE pc == IF Client THEN "asked" ELSE "none"
<1>7. request = [pc |-> pc, thread |-> NoThread, lines |-> 0, seen |-> 0, messages |-> <<>>, events |-> {}]
  BY <1>1 DEF NoRequest
<1> HIDE DEF pc
<1>8. RequestInv
  BY <1>2, <1>4, <1>6, <1>7 DEF RequestInv
<1> QED
  BY <1>1, <1>2, <1>3, <1>5, <1>8 DEF ClientInv

LEMMA ClientInvariant == Spec => [](HistoryInv /\ ClientInv)
<1>1. Init => HistoryInv /\ ClientInv
  BY HistoryStarts, ClientBegins
<1>2. HistoryInv /\ ClientInv /\ [Next]_vars => (HistoryInv /\ ClientInv)'
  <2> SUFFICES ASSUME HistoryInv, ClientInv, [Next]_vars
               PROVE  (HistoryInv /\ ClientInv)'
    OBVIOUS
  <2>1. HistoryInv' /\ Onward
    BY HistoryKept, ScriptKept, EventsKept DEF HistoryInv
  <2> QED
    BY <2>1, ClientKept
<1> QED
  BY <1>1, <1>2, PTL DEF Spec

\* A turn whose rollback was read is hidden in the view.
LEMMA ErasedIsHidden ==
  ASSUME HistoryInv, ClientInv, NEW t \in Erased(view.lines) \ StoredFailed
  PROVE  t \in HiddenTurns(view.events)
<1>1. /\ Rollout(lines) /\ Len(lines) \in Nat /\ DOMAIN lines = 1..Len(lines)
      /\ view.lines \in 0..Len(lines) /\ Withdrawn(view.lines, view.events)
  BY WholeFile, RolloutFields DEF HistoryInv, ClientInv, ViewInv
<1>2. PICK i \in 1..view.lines : lines[i].kind = "thread_rolled_back" /\ lines[StartOf(lines, i)].turn = t
  BY DEF Erased
<1>3. i \in DOMAIN lines /\ t \in Turn
  BY <1>1 DEF Erased
<1>4. TurnAt(lines, i) = t
  BY <1>1, <1>2, <1>3, StartIs
<1>5. TakesBack(lines, i, t)
  BY <1>1, <1>2, <1>3, <1>4, TakesBackAt
<1>6. PICK e \in view.events : e.type = "turn_failed" /\ e.status = "rolled_back" /\ e.turn = t
  BY <1>1, <1>3, <1>5 DEF Withdrawn
<1> QED
  BY <1>6 DEF HiddenTurns, Terminal

(* Whatever is read when, and whatever events still come in, the view      *)
(* shows no message and no tool call of a turn whose rollback is in the    *)
(* part of the file it was read from (readRolloutMessages and              *)
(* readRolloutEvents, mergeEvents, ConversationTimeline).                  *)
THEOREM ErasedIsNotShown == Spec => []ErasedHidden
<1>1. ASSUME HistoryInv, ClientInv
      PROVE  ErasedHidden
  <2> DEFINE gone == Erased(view.lines) \ StoredFailed
             shown == ShownMessages(view.messages, view.events)
             Seen == {m \in Message : m.turn \notin HiddenTurns(view.events)}
  <2>1. \A t \in gone : t \in HiddenTurns(view.events)
    BY <1>1, ErasedIsHidden
  <2>2. view.messages \in Seq(Message)
    BY <1>1 DEF ClientInv, ViewInv
  <2>3. shown \in Seq(Seen)
    BY <2>2, ShownTyped
  <2> HIDE DEF gone, shown
  <2>4. \A i \in DOMAIN shown : shown[i] \in Seen
    BY <2>3
  <2>5. \A i \in DOMAIN shown : shown[i].turn \notin gone
    BY <2>1, <2>4
  <2>6. \A e \in ShownTools(view.events) : e.turn \notin gone
    BY <2>1 DEF ShownTools
  <2> QED
    BY <2>5, <2>6 DEF ErasedHidden, gone, shown
<1>2. HistoryInv /\ ClientInv => ErasedHidden
  BY <1>1
<1> QED
  BY <1>2, ClientInvariant, PTL

(* The state of the conversation, of the merged details and of the view    *)
(* has its types, however requests and events interleave.                  *)
THEOREM TimelineTypes == Spec => []TypeOK
<1>1. HistoryInv /\ ClientInv => TypeOK
  BY DEF HistoryInv, ClientInv, TypeOK, TurnsInv, LinesInv, EventsInv, ViewInv, RequestInv, SomeTurn, Begun
<1> QED
  BY <1>1, ClientInvariant, PTL

-----------------------------------------------------------------------------
(* The messages of the rollout                                             *)

\* Line j is a message of a turn that is not taken back.
Speaks(p, j) ==
  /\ j \in DOMAIN p /\ p[j].kind \in DOMAIN Said /\ ~Undone(p, p[j].turn)

Voice(role, t) == 2 * t + (IF role = "user" THEN 0 ELSE 1)

(* The records of the first n lines: messages by turn and role, one for    *)
(* each, with the time, the text and the source of a line that speaks.     *)
Gathered(p, n, x) ==
  /\ \A k \in DOMAIN x : /\ x[k].time <= n /\ Speaks(p, x[k].time) /\ x[k] = NewRecord(p, x[k].time)
                          /\ p[x[k].time].kind \in {"user_item", "agent_event"}
  /\ \A k, l \in DOMAIN x : k < l =>
       x[k].time < x[l].time /\ Voice(x[k].role, x[k].turn) < Voice(x[l].role, x[l].turn)
  /\ \A j \in 1..n : Speaks(p, j) =>
       \E k \in DOMAIN x : x[k].role = Said[p[j].kind] /\ x[k].turn = p[j].turn

LEMMA VoiceOrder ==
  ASSUME NEW r, NEW s, NEW t \in Nat, NEW u \in Nat
  PROVE  /\ t < u => Voice(r, t) < Voice(s, u)
         /\ t = u /\ r = "user" /\ s # "user" => Voice(r, t) < Voice(s, u)
         /\ Voice(r, t) < Voice(s, u) => t <= u /\ (r = s => t < u)
         /\ Voice(r, t) \in Nat
BY DEF Voice

LEMMA SpeaksFields ==
  ASSUME NEW p, Rollout(p), NEW j, Speaks(p, j)
  PROVE  /\ j \in DOMAIN p /\ j \in Nat /\ p[j].turn \in Turn /\ p[j].turn \in Nat
         /\ TurnAt(p, j) = p[j].turn /\ j \notin RolledBack(p)
         /\ p[j].kind \in {"user_event", "user_item", "agent_event", "agent_item"}
         /\ Said[p[j].kind] \in {"user", "assistant"}
<1>1. j \in DOMAIN p /\ p[j].kind \in DOMAIN Said
  BY DEF Speaks
<1>2. p[j].kind \in {"user_event", "user_item", "agent_event", "agent_item"}
  BY <1>1, SaidIs
<1>3. j \in Nat /\ p[j].turn \in Turn
  BY <1>1, <1>2, RolloutFields
<1>4. TurnAt(p, j) = p[j].turn
  BY <1>1, <1>2, StartIs
<1>5. j \notin RolledBack(p)
  BY <1>1, <1>4, RolledBackIs DEF Speaks
<1>6. p[j].turn \in Nat
  BY <1>3, TurnNumbers
<1> QED
  BY <1>1, <1>2, <1>3, <1>4, <1>5, <1>6, SaidIs

\* A line that does not speak adds no record.
LEMMA SilentLine ==
  ASSUME NEW p, Rollout(p), NEW x, NEW i \in DOMAIN p, ~Speaks(p, i)
  PROVE  Collect(p, x, i) = x
<1>1. p[i].kind \in DOMAIN Said => i \in RolledBack(p)
  <2> SUFFICES ASSUME p[i].kind \in DOMAIN Said
               PROVE  i \in RolledBack(p)
    OBVIOUS
  <2>1. Undone(p, p[i].turn)
    BY DEF Speaks
  <2>2. TurnAt(p, i) = p[i].turn
    <3>1. p[i].kind # "thread_rolled_back"
      BY SaidIs
    <3> QED
      BY <3>1, StartIs
  <2> QED
    BY <2>1, <2>2, RolledBackIs
<1> QED
  BY <1>1, CollectIs

\* How the lines of one turn follow each other, for a message at line i.
LEMMA LinesOfTurn ==
  ASSUME NEW p, Rollout(p), NEW T, Script(p, T), NEW i, Speaks(p, i), NEW j, Speaks(p, j), j < i
  PROVE  /\ p[j].turn <= p[i].turn
         /\ p[i].kind = "user_item" => p[j].turn < p[i].turn
         /\ p[j].turn = p[i].turn /\ p[i].kind = "user_event" => p[j].kind = "user_item"
         /\ p[j].turn = p[i].turn /\ p[i].kind = "agent_event" => Said[p[j].kind] = "user"
         /\ p[j].turn = p[i].turn /\ p[i].kind = "agent_item" /\ Said[p[j].kind] = "assistant" =>
              p[j].kind = "agent_event"
         /\ Said[p[j].kind] = Said[p[i].kind] /\ p[j].turn = p[i].turn => p[j].text = p[i].text
<1>1. /\ i \in DOMAIN p /\ j \in DOMAIN p /\ i \in Nat /\ j \in Nat
      /\ p[i].kind \in {"user_event", "user_item", "agent_event", "agent_item"}
      /\ p[j].kind \in {"user_event", "user_item", "agent_event", "agent_item"}
      /\ p[i].turn \in Nat /\ p[j].turn \in Nat
  BY SpeaksFields
<1>2. ScriptAt(p, T, i) /\ ScriptAt(p, T, j)
  BY <1>1 DEF Script
<1>3. /\ DOMAIN p = 1..Len(p) /\ Len(p) \in Nat
      /\ \A k \in DOMAIN p : k \in Nat /\ p[k].turn \in Nat
  BY RolloutFields
<1>4. p[j].turn <= p[i].turn
  BY <1>1 DEF Rollout
<1>5. \A a, b \in DOMAIN p : p[b].kind = "task_started" /\ a < b => p[a].turn <= p[b].turn /\ p[a].turn # p[b].turn
  BY DEF Rollout
\* Nothing of a turn precedes its beginning.
<1>6. \A a, b \in DOMAIN p : p[a].kind = "task_started" /\ p[b].turn = p[a].turn => a <= b
  BY <1>3, <1>5
<1>7. ASSUME p[i].kind = "user_item"
      PROVE  p[j].turn < p[i].turn
  <2>1. i - 1 \in DOMAIN p /\ p[i - 1].kind = "task_started" /\ p[i - 1].turn = p[i].turn
    BY <1>2, <1>7 DEF ScriptAt
  <2>2. j # i - 1
    BY <1>1, <2>1
  <2>3. j < i - 1
    BY <1>1, <2>2
  <2>4. p[j].turn <= p[i - 1].turn /\ p[j].turn # p[i - 1].turn
    BY <1>1, <1>5, <2>1, <2>3
  <2> QED
    BY <1>1, <2>1, <2>4
<1>8. ASSUME p[j].turn = p[i].turn, p[i].kind = "user_event"
      PROVE  p[j].kind = "user_item"
  <2>1. i - 1 \in DOMAIN p /\ p[i - 1].kind = "user_item" /\ p[i - 1].turn = p[i].turn
    BY <1>2, <1>8 DEF ScriptAt
  <2>2. ScriptAt(p, T, i - 1)
    BY <2>1 DEF Script
  <2>3. (i - 1) - 1 \in DOMAIN p /\ p[(i - 1) - 1].kind = "task_started" /\ p[(i - 1) - 1].turn = p[i].turn
    BY <2>1, <2>2 DEF ScriptAt
  <2>4. (i - 1) - 1 <= j
    BY <1>1, <1>6, <1>8, <2>3
  <2>5. j = i - 1 \/ j = (i - 1) - 1
    BY <1>1, <2>4
  <2> QED
    BY <1>1, <2>1, <2>3, <2>5
<1>9. ASSUME p[j].turn = p[i].turn, p[i].kind \in {"agent_event", "agent_item"}, Said[p[j].kind] = "assistant"
      PROVE  p[i].kind = "agent_item" /\ p[j].kind = "agent_event"
  <2>1. p[j].kind \in {"agent_event", "agent_item"}
    BY <1>1, <1>9, SaidIs
  <2>2. CASE p[j].kind = "agent_event"
    BY <1>1, <1>2, <1>9, <2>2 DEF ScriptAt
  <2>3. CASE p[j].kind = "agent_item"
    <3>1. j - 1 \in DOMAIN p /\ p[j - 1].kind = "agent_event" /\ p[j - 1].turn = p[j].turn
      BY <1>2, <2>3 DEF ScriptAt
    <3>2. \A a \in DOMAIN p : p[a].kind = "agent_event" /\ p[a].turn = p[j].turn => a = j - 1
      BY <3>1 DEF Script, ScriptAt
    <3>3. CASE p[i].kind = "agent_event"
      BY <1>1, <1>9, <3>2, <3>3
    <3>4. CASE p[i].kind = "agent_item"
      <4>1. i - 1 \in DOMAIN p /\ p[i - 1].kind = "agent_event" /\ p[i - 1].turn = p[i].turn
        BY <1>2, <3>4 DEF ScriptAt
      <4>2. i - 1 = j - 1
        BY <1>9, <3>2, <4>1
      <4> QED
        BY <1>1, <4>2
    <3> QED
      BY <1>9, <3>3, <3>4
  <2> QED
    BY <2>1, <2>2, <2>3
<1>10. ASSUME Said[p[j].kind] = Said[p[i].kind], p[j].turn = p[i].turn
       PROVE  p[j].text = p[i].text
  BY <1>1, <1>2, <1>10, SaidIs DEF ScriptAt
<1>11. p[j].turn = p[i].turn /\ p[i].kind = "agent_event" => Said[p[j].kind] = "user"
  BY <1>1, <1>9, SaidIs
<1> QED
  BY <1>4, <1>7, <1>8, <1>9, <1>10, <1>11

\* What is known of the record of line j when line i is read.
LEMMA RecordFields ==
  ASSUME NEW p, Rollout(p), NEW n, NEW x, Gathered(p, n, x), NEW k \in DOMAIN x
  PROVE  /\ Speaks(p, x[k].time) /\ x[k].time <= n
         /\ x[k].role = Said[p[x[k].time].kind] /\ x[k].turn = p[x[k].time].turn
         /\ x[k].text = p[x[k].time].text /\ x[k].source = Source[p[x[k].time].kind]
<1> DEFINE j == x[k].time
<1>1. Speaks(p, j) /\ j <= n /\ x[k] = NewRecord(p, j)
  BY DEF Gathered
<1>2. TurnAt(p, j) = p[j].turn
  BY <1>1, SpeaksFields
<1>3. /\ NewRecord(p, j).role = Said[p[j].kind] /\ NewRecord(p, j).text = p[j].text
      /\ NewRecord(p, j).turn = TurnAt(p, j) /\ NewRecord(p, j).source = Source[p[j].kind]
  BY DEF NewRecord
<1> QED
  BY <1>1, <1>2, <1>3

\* A message that comes first in its form adds its record.
LEMMA FirstForm ==
  ASSUME NEW p, Rollout(p), NEW T, Script(p, T), NEW n \in DOMAIN p, Speaks(p, n),
         p[n].kind \in {"user_item", "agent_event"},
         NEW x \in Seq(Record), Gathered(p, n - 1, x)
  PROVE  Gathered(p, n, Collect(p, x, n))
<1> DEFINE t == p[n].turn
           role == Said[p[n].kind]
           r == NewRecord(p, n)
           y == Append(x, r)
<1>1. /\ t \in Nat /\ TurnAt(p, n) = t /\ n \in Nat /\ role \in {"user", "assistant"}
      /\ r.role = role /\ r.turn = t /\ r.time = n
  BY SpeaksFields DEF NewRecord
<1>2. DOMAIN x = 1..Len(x) /\ Len(x) \in Nat
  OBVIOUS
<1>3. ASSUME NEW k \in DOMAIN x
      PROVE  /\ Voice(x[k].role, x[k].turn) < Voice(role, t) /\ x[k].time < n
             /\ x[k].role = role => x[k].turn # t
  <2> DEFINE j == x[k].time
  <2>1. /\ Speaks(p, j) /\ j <= n - 1 /\ x[k].role = Said[p[j].kind] /\ x[k].turn = p[j].turn
    BY <1>3, RecordFields
  <2>2. j \in Nat /\ p[j].turn \in Nat
    BY <2>1, SpeaksFields
  <2>3. j < n
    BY <1>1, <2>1, <2>2
  <2>4. /\ p[j].turn <= t
        /\ p[n].kind = "user_item" => p[j].turn < t
        /\ p[j].turn = t /\ p[n].kind = "agent_event" => Said[p[j].kind] = "user"
    BY <2>1, <2>3, LinesOfTurn
  <2>5. p[n].kind = "agent_event" => role = "assistant"
    BY SaidIs
  <2> HIDE DEF j, t, role
  <2>6. Voice(x[k].role, x[k].turn) < Voice(role, t)
    <3>1. CASE p[j].turn < t
      BY <1>1, <2>1, <2>2, <3>1, VoiceOrder
    <3>2. CASE ~(p[j].turn < t)
      <4>1. p[j].turn = t /\ p[n].kind = "agent_event"
        BY <1>1, <2>2, <2>4, <3>2
      <4>2. Said[p[j].kind] = "user" /\ role = "assistant"
        BY <2>4, <2>5, <4>1
      <4> QED
        BY <1>1, <2>1, <2>2, <4>1, <4>2, VoiceOrder
    <3> QED
      BY <3>1, <3>2
  <2>7. x[k].role = role => x[k].turn # t
    BY <1>1, <2>6, VoiceOrder
  <2> QED
    BY <2>3, <2>6, <2>7 DEF j
<1>4. Collect(p, x, n) = y
  <2>1. n \notin RolledBack(p) /\ p[n].kind \in DOMAIN Said
    BY SpeaksFields DEF Speaks
  <2>2. ~\E k \in DOMAIN x : x[k].role = role /\ x[k].turn = TurnAt(p, n)
    BY <1>1, <1>3
  <2> QED
    BY <2>1, <2>2, CollectIs
<1>5. /\ DOMAIN y = 1..(Len(x) + 1) /\ y[Len(x) + 1] = r /\ \A k \in DOMAIN x : y[k] = x[k]
      /\ \A k \in DOMAIN y : k \in DOMAIN x \/ k = Len(x) + 1
  BY <1>2
<1> HIDE DEF y, r, role, t
<1>6. \A k \in DOMAIN y : /\ y[k].time <= n /\ Speaks(p, y[k].time) /\ y[k] = NewRecord(p, y[k].time)
                          /\ p[y[k].time].kind \in {"user_item", "agent_event"}
  <2> TAKE k \in DOMAIN y
  <2>1. CASE k \in DOMAIN x
    <3>1. /\ Speaks(p, x[k].time) /\ x[k] = NewRecord(p, x[k].time)
          /\ p[x[k].time].kind \in {"user_item", "agent_event"}
      BY <2>1 DEF Gathered
    <3>2. x[k].time \in Nat /\ x[k].time < n
      BY <1>3, <2>1, <3>1, SpeaksFields
    <3> QED
      BY <1>1, <1>5, <2>1, <3>1, <3>2
  <2>2. CASE k = Len(x) + 1
    BY <1>1, <1>5, <2>2 DEF r
  <2> QED
    BY <1>5, <2>1, <2>2
<1>7. \A k, l \in DOMAIN y : k < l =>
        y[k].time < y[l].time /\ Voice(y[k].role, y[k].turn) < Voice(y[l].role, y[l].turn)
  <2> TAKE k, l \in DOMAIN y
  <2> HAVE k < l
  <2>1. k \in DOMAIN x
    BY <1>2, <1>5
  <2>2. CASE l \in DOMAIN x
    BY <1>5, <2>1, <2>2 DEF Gathered
  <2>3. CASE l = Len(x) + 1
    BY <1>1, <1>3, <1>5, <2>1, <2>3
  <2> QED
    BY <1>5, <2>2, <2>3
<1>8. \A j \in 1..n : Speaks(p, j) => \E k \in DOMAIN y : y[k].role = Said[p[j].kind] /\ y[k].turn = p[j].turn
  <2> TAKE j \in 1..n
  <2> HAVE Speaks(p, j)
  <2>1. CASE j = n
    BY <1>1, <1>2, <1>5, <2>1 DEF role, t
  <2>2. CASE j # n
    <3>1. j \in 1..(n - 1)
      BY <1>1, <2>2
    <3>2. PICK k \in DOMAIN x : x[k].role = Said[p[j].kind] /\ x[k].turn = p[j].turn
      BY <3>1 DEF Gathered
    <3> QED
      BY <1>2, <1>5, <3>2
  <2> QED
    BY <2>1, <2>2
<1> QED
  BY <1>4, <1>6, <1>7, <1>8 DEF Gathered

\* The other form of a message right after it adds nothing.
LEMMA SecondForm ==
  ASSUME NEW p, Rollout(p), NEW T, Script(p, T), NEW n \in DOMAIN p, Speaks(p, n),
         p[n].kind \in {"user_event", "agent_item"},
         NEW x \in Seq(Record), Gathered(p, n - 1, x)
  PROVE  Collect(p, x, n) = x
<1> DEFINE t == p[n].turn
           role == Said[p[n].kind]
<1>1. t \in Nat /\ t # 0 /\ TurnAt(p, n) = t /\ n \in Nat /\ n \in DOMAIN p /\ role \in {"user", "assistant"}
  BY SpeaksFields, TurnNumbers
<1>2. ScriptAt(p, T, n)
  BY DEF Script
<1>3. /\ n - 1 \in DOMAIN p /\ p[n - 1].turn = t /\ Said[p[n - 1].kind] = role
      /\ p[n - 1].kind \in DOMAIN Said
  <2>1. CASE p[n].kind = "user_event"
    BY <1>2, <2>1, SaidIs DEF ScriptAt
  <2>2. CASE p[n].kind = "agent_item"
    BY <1>2, <2>2, SaidIs DEF ScriptAt
  <2> QED
    BY <2>1, <2>2
<1>4. Speaks(p, n - 1)
  BY <1>3 DEF Speaks
<1>5. n - 1 \in 1..(n - 1)
  BY <1>1, <1>4, <1>3, RolloutFields
<1>6. PICK k \in DOMAIN x : x[k].role = role /\ x[k].turn = t
  BY <1>3, <1>4, <1>5 DEF Gathered
<1> DEFINE j == x[k].time
<1>7. /\ Speaks(p, j) /\ j <= n - 1 /\ x[k].role = Said[p[j].kind] /\ x[k].turn = p[j].turn
      /\ x[k].text = p[j].text /\ x[k].source = Source[p[j].kind]
  BY RecordFields
<1>8. j \in Nat /\ j < n
  <2>1. j \in Nat
    BY <1>7, SpeaksFields
  <2> QED
    BY <1>1, <1>7, <2>1
<1> HIDE DEF j, t, role
<1>9. x[k].text = p[n].text
  <2>1. Said[p[j].kind] = Said[p[n].kind] /\ p[j].turn = p[n].turn
    BY <1>6, <1>7 DEF role, t
  <2>2. p[j].text = p[n].text
    BY <1>7, <1>8, <2>1, LinesOfTurn
  <2> QED
    BY <1>7, <2>2
<1>10. x[k].source # Source[p[n].kind]
  <2>1. CASE p[n].kind = "user_event"
    <3>1. p[j].kind = "user_item"
      <4>1. p[j].turn = p[n].turn
        BY <1>6, <1>7 DEF t
      <4> QED
        BY <1>7, <1>8, <2>1, <4>1, LinesOfTurn
    <3> QED
      BY <1>7, <2>1, <3>1, SaidIs
  <2>2. CASE p[n].kind = "agent_item"
    <3>1. Said[p[j].kind] = "assistant" /\ p[j].turn = p[n].turn
      BY <1>6, <1>7, <2>2, SaidIs DEF role, t
    <3>2. p[j].kind = "agent_event"
      BY <1>7, <1>8, <2>2, <3>1, LinesOfTurn
    <3> QED
      BY <1>7, <2>2, <3>2, SaidIs
  <2> QED
    BY <2>1, <2>2
<1>11. ASSUME NEW m \in DOMAIN x, x[m].role = role
       PROVE  m <= k
  <2> SUFFICES ASSUME ~(m <= k) PROVE FALSE
    OBVIOUS
  <2>1. k < m
    OBVIOUS
  <2>2. Voice(x[k].role, x[k].turn) < Voice(x[m].role, x[m].turn)
    BY <2>1 DEF Gathered
  <2> DEFINE i == x[m].time
  <2>3. Speaks(p, i) /\ i <= n - 1 /\ x[m].turn = p[i].turn
    BY RecordFields
  <2>4. i \in Nat /\ p[i].turn \in Nat
    BY <2>3, SpeaksFields
  <2>5. i < n
    BY <1>1, <2>3, <2>4
  <2>6. p[i].turn <= t
    BY <2>3, <2>5, LinesOfTurn DEF t
  <2>7. t < x[m].turn
    BY <1>1, <1>6, <1>11, <2>2, <2>3, <2>4, VoiceOrder
  <2> HIDE DEF i
  <2> QED
    BY <1>1, <2>3, <2>4, <2>6, <2>7
<1> DEFINE same == {l \in DOMAIN x : x[l].role = Said[p[n].kind] /\ x[l].text = p[n].text}
<1>12. /\ k \in same /\ \A m \in same : m <= k
       /\ x[k].turn # 0 /\ x[k].turn = TurnAt(p, n) /\ x[k].source # Source[p[n].kind]
  BY <1>1, <1>6, <1>9, <1>10, <1>11 DEF role
<1> QED
  BY <1>12, CollectIs

LEMMA GatherStep ==
  ASSUME NEW p, Rollout(p), NEW T, Script(p, T), NEW n \in DOMAIN p,
         NEW x \in Seq(Record), Gathered(p, n - 1, x)
  PROVE  Gathered(p, n, Collect(p, x, n))
<1>1. CASE Speaks(p, n) /\ p[n].kind \in {"user_item", "agent_event"}
  BY <1>1, FirstForm
<1>2. CASE ~Speaks(p, n) \/ p[n].kind \in {"user_event", "agent_item"}
  <2>1. Collect(p, x, n) = x
    BY <1>2, SilentLine, SecondForm
  <2>2. n \in Nat
    BY RolloutFields
  <2>3. \A k \in DOMAIN x : x[k].time \in Nat /\ x[k].time <= n - 1 /\ Speaks(p, x[k].time)
    BY RecordFields, SpeaksFields
  <2>4. \A k \in DOMAIN x : x[k].time <= n
    BY <2>2, <2>3
  <2>5. \A j \in 1..n : j \in 1..(n - 1) \/ j = n
    BY <2>2
  <2>6. Speaks(p, n) => \E k \in DOMAIN x : x[k].role = Said[p[n].kind] /\ x[k].turn = p[n].turn
    <3> SUFFICES ASSUME Speaks(p, n)
                 PROVE  \E k \in DOMAIN x : x[k].role = Said[p[n].kind] /\ x[k].turn = p[n].turn
      OBVIOUS
    <3>1. ScriptAt(p, T, n)
      BY DEF Script
    <3>2. /\ n - 1 \in DOMAIN p /\ p[n - 1].turn = p[n].turn /\ Said[p[n - 1].kind] = Said[p[n].kind]
          /\ p[n - 1].kind \in DOMAIN Said
      <4>1. CASE p[n].kind = "user_event"
        BY <3>1, <4>1, SaidIs DEF ScriptAt
      <4>2. CASE p[n].kind = "agent_item"
        BY <3>1, <4>2, SaidIs DEF ScriptAt
      <4> QED
        BY <1>2, <4>1, <4>2
    <3>3. Speaks(p, n - 1) /\ n - 1 \in 1..(n - 1)
      <4>1. Speaks(p, n - 1)
        BY <3>2 DEF Speaks
      <4> QED
        BY <2>2, <3>2, <4>1, RolloutFields
    <3> QED
      BY <3>2, <3>3 DEF Gathered
  <2> QED
    BY <2>1, <2>3, <2>4, <2>5, <2>6 DEF Gathered
<1>3. Speaks(p, n) => p[n].kind \in {"user_event", "user_item", "agent_event", "agent_item"}
  BY SpeaksFields
<1> QED
  BY <1>1, <1>2, <1>3

LEMMA GatheredAll ==
  ASSUME NEW p, Rollout(p), Says(p), NEW T, Script(p, T)
  PROVE  CollectMessages(p) \in Seq(Record) /\ Gathered(p, Len(p), CollectMessages(p))
<1> DEFINE S == Seq(Record)
<1>1. <<>> \in S
  OBVIOUS
<1>2. Len(p) \in Nat /\ DOMAIN p = 1..Len(p) /\ Len(Numbers(p)) = Len(p) /\ \A n \in 1..Len(p) : Numbers(p)[n] = n
  BY NumbersAre
<1>3. \A x \in S, n \in 1..Len(Numbers(p)) : Collect(p, x, Numbers(p)[n]) \in S
  BY <1>2, CollectTyped
<1> HIDE DEF S
<1>4. PICK f : CollectRun(f, S, p)
  BY <1>1, <1>2, <1>3, CollectSteps
<1>5. /\ f \in [0..Len(p) -> S] /\ f[0] = <<>> /\ CollectMessages(p) = f[Len(p)]
      /\ \A n \in 1..Len(p) : f[n] = Collect(p, f[n - 1], n)
  BY <1>2, <1>4 DEF CollectRun
<1> DEFINE G == {n \in 0..Len(p) : Gathered(p, n, f[n])}
<1>6. 0 \in G
  BY <1>2, <1>5 DEF Gathered
<1>7. ASSUME NEW n \in 1..Len(p), n - 1 \in G
      PROVE  n \in G
  <2>1. Gathered(p, n - 1, f[n - 1]) /\ f[n - 1] \in S /\ f[n] = Collect(p, f[n - 1], n) /\ n \in DOMAIN p
    BY <1>2, <1>5, <1>7
  <2>2. Gathered(p, n, f[n])
    BY <2>1, GatherStep DEF S
  <2> QED
    BY <1>2, <2>2
<1> HIDE DEF G
<1>8. \A n \in 1..Len(p) : n - 1 \in G => n \in G
  BY <1>7
<1>9. 0..Len(p) \subseteq G
  BY <1>2, <1>6, <1>8, UpTo
<1>10. Len(p) \in G
  BY <1>2, <1>9
<1> QED
  BY <1>2, <1>5, <1>10 DEF G, S

-----------------------------------------------------------------------------
(* What turns have said                                                    *)

\* m numbers, each greater than the ones before it.
Rising(a, m) == m \in Nat /\ a \in [1..m -> Nat] /\ \A i, j \in 1..m : i < j => a[i] < a[j]
SameNumbers(a, m, b, n) ==
  /\ \A i \in 1..m : \E j \in 1..n : a[i] = b[j]
  /\ \A j \in 1..n : \E i \in 1..m : a[i] = b[j]
Equal(a, b, m) == \A i \in 1..m : a[i] = b[i]

LEMMA SameRuns ==
  ASSUME NEW m, NEW n, NEW a, NEW b, Rising(a, m), Rising(b, n), SameNumbers(a, m, b, n)
  PROVE  m = n /\ Equal(a, b, m)
<1> USE DEF Rising, SameNumbers
<1> DEFINE G == {k \in 0..m : k <= n /\ \A i \in 1..k : a[i] = b[i]}
<1>1. 0 \in G
  OBVIOUS
<1>2. ASSUME NEW k \in 1..m, k - 1 \in G
      PROVE  k \in G
  <2>1. \A i \in 1..m : i < k => i <= n /\ a[i] = b[i]
    BY <1>2
  <2>2. PICK j \in 1..n : a[k] = b[j]
    OBVIOUS
  <2>3. ~(j < k)
    <3> SUFFICES ASSUME j < k PROVE FALSE
      OBVIOUS
    <3>1. j \in 1..m /\ a[j] = b[j] /\ a[j] < a[k] /\ a[k] \in Nat
      BY <2>1
    <3> QED
      BY <2>2, <3>1
  <2>4. k \in 1..n
    BY <2>3
  <2>5. PICK i \in 1..m : a[i] = b[k]
    BY <2>4
  <2>6. ~(i < k)
    <3> SUFFICES ASSUME i < k PROVE FALSE
      OBVIOUS
    <3>1. i \in 1..n /\ a[i] = b[i] /\ b[i] < b[k] /\ b[k] \in Nat
      BY <2>1, <2>4
    <3> QED
      BY <2>5, <3>1
  <2>7. k < j => b[k] < b[j]
    BY <2>4
  <2>8. k < i => a[k] < a[i]
    OBVIOUS
  <2>9. a[k] \in Nat /\ a[i] \in Nat
    OBVIOUS
  <2>10. a[k] = b[k]
    <3>1. CASE k = j
      BY <2>2, <3>1
    <3>2. CASE k # j
      <4>1. b[k] < b[j]
        BY <2>3, <2>7, <3>2
      <4>2. a[i] < a[k]
        BY <2>2, <2>5, <4>1
      <4>3. i = k \/ k < i
        BY <2>6
      <4>4. i # k
        BY <2>9, <4>2
      <4>5. a[k] < a[i]
        BY <2>8, <4>3, <4>4
      <4> QED
        BY <2>9, <4>2, <4>5
    <3> QED
      BY <3>1, <3>2
  <2>11. \A h \in 1..k : (h \in 1..m /\ h < k) \/ h = k
    OBVIOUS
  <2>12. \A h \in 1..k : a[h] = b[h]
    BY <2>1, <2>10, <2>11
  <2>13. k \in 0..m /\ k <= n
    BY <2>4
  <2> QED
    BY <2>12, <2>13
<1> HIDE DEF G
<1>3. \A k \in 1..m : k - 1 \in G => k \in G
  BY <1>2
<1>4. 0..m \subseteq G
  BY <1>1, <1>3, UpTo
<1>5. m <= n /\ \A i \in 1..m : a[i] = b[i]
  <2>1. m \in G
    BY <1>4
  <2> QED
    BY <2>1 DEF G
<1>6. n <= m
  <2> SUFFICES ASSUME ~(n <= m) PROVE FALSE
    OBVIOUS
  <2>1. n \in 1..n
    OBVIOUS
  <2>2. PICK i \in 1..m : a[i] = b[n]
    BY <2>1
  <2>3. i \in 1..n /\ i < n /\ a[i] = b[i]
    BY <1>5
  <2>4. b[i] < b[n] /\ b[n] \in Nat
    BY <2>1, <2>3
  <2> QED
    BY <2>2, <2>3, <2>4
<1> QED
  BY <1>5, <1>6 DEF Equal

\* What turns have said, one message each.
Utterance == [role : {"user", "assistant"}, turn : Turn]
Voiced == {u \in Utterance : u.turn \in Known /\ (u.role = "user" \/ turns[u.turn].replied)}
Utter(u) == <<u.role, IF u.role = "user" THEN turns[u.turn].text ELSE "reply">>
Number(u) == Voice(u.role, u.turn)

\* The utterances z, up to the voice v, are what s has.
Uttered(z, v, s) ==
  /\ z \in Seq(Voiced) /\ s = [k \in DOMAIN z |-> Utter(z[k])]
  /\ \A k, l \in DOMAIN z : k < l => Number(z[k]) < Number(z[l])
  /\ \A k \in DOMAIN z : Number(z[k]) < v
  /\ \A u \in Voiced : Number(u) < v => \E k \in DOMAIN z : z[k] = u

LEMMA NumberIs ==
  ASSUME NEW u \in Utterance
  PROVE  /\ Number(u) \in Nat /\ u.turn \in Nat /\ u.turn \in Turn /\ u.role \in {"user", "assistant"}
         /\ u.role = "user" => Number(u) = 2 * u.turn
         /\ u.role = "assistant" => Number(u) = 2 * u.turn + 1
         /\ u = [role |-> u.role, turn |-> u.turn]
<1>1. u.turn \in Turn /\ u.role \in {"user", "assistant"} /\ u = [role |-> u.role, turn |-> u.turn]
  BY DEF Utterance
<1>2. u.turn \in Nat
  BY <1>1, TurnNumbers
<1> QED
  BY <1>1, <1>2 DEF Number, Voice

LEMMA NumberTells ==
  ASSUME NEW u \in Utterance, NEW w \in Utterance, Number(u) = Number(w)
  PROVE  u = w
<1>1. u.turn = w.turn /\ u.role = w.role
  BY NumberIs
<1> QED
  BY <1>1, NumberIs

LEMMA UtterMore ==
  ASSUME NEW z, NEW s, NEW u \in Voiced, Uttered(z, Number(u), s)
  PROVE  Uttered(Append(z, u), Number(u) + 1, Append(s, Utter(u)))
<1> DEFINE y == Append(z, u)
           V == Voiced
<1>1. z \in Seq(V) /\ s = [k \in DOMAIN z |-> Utter(z[k])] /\ V \subseteq Utterance
  BY DEF Uttered, Voiced
<1>2. u \in V /\ Number(u) \in Nat
  BY <1>1, NumberIs
<1> HIDE DEF V
<1>3. DOMAIN z = 1..Len(z) /\ Len(z) \in Nat /\ \A k \in DOMAIN z : z[k] \in V
  BY <1>1
<1>4. /\ y \in Seq(V) /\ DOMAIN y = 1..(Len(z) + 1) /\ y[Len(z) + 1] = u /\ \A k \in DOMAIN z : y[k] = z[k]
      /\ \A k \in DOMAIN y : k \in DOMAIN z \/ k = Len(z) + 1
  BY <1>1, <1>2, <1>3
<1> HIDE DEF y
<1>5. Append(s, Utter(u)) = [k \in DOMAIN y |-> Utter(y[k])]
  <2> DEFINE t == [k \in DOMAIN y |-> Utter(y[k])]
             x == Utter(u)
             a == Append(s, x)
             C == {s[k] : k \in DOMAIN z} \cup {x}
  <2> HIDE DEF x
  <2>1. s \in Seq(C) /\ DOMAIN s = 1..Len(z) /\ Len(s) = Len(z)
    <3>1. s \in [1..Len(z) -> C]
      BY <1>1, <1>3
    <3> QED
      BY <1>3, <3>1
  <2>2. a = [k \in 1..(Len(z) + 1) |-> IF k = Len(z) + 1 THEN x ELSE s[k]]
    <3>1. x \in C
      OBVIOUS
    <3> HIDE DEF C
    <3>2. a \in Seq(C) /\ Len(a) = Len(z) + 1
      BY <1>3, <2>1, <3>1
    <3>3. \A k \in 1..(Len(z) + 1) : a[k] = IF k = Len(z) + 1 THEN x ELSE s[k]
      BY <1>3, <2>1, <3>1
    <3> HIDE DEF a
    <3>4. a = [k \in 1..(Len(z) + 1) |-> a[k]]
      BY <3>2
    <3> QED
      BY <3>3, <3>4
  <2>3. \A k \in 1..(Len(z) + 1) : Utter(y[k]) = IF k = Len(z) + 1 THEN x ELSE s[k]
    BY <1>1, <1>4 DEF x
  <2> QED
    BY <1>4, <2>2, <2>3 DEF x
<1>6. \A k, l \in DOMAIN y : k < l => Number(y[k]) < Number(y[l])
  <2> TAKE k, l \in DOMAIN y
  <2> HAVE k < l
  <2>1. k \in DOMAIN z
    BY <1>3, <1>4
  <2>2. CASE l \in DOMAIN z
    BY <1>4, <2>1, <2>2 DEF Uttered
  <2>3. CASE l = Len(z) + 1
    BY <1>4, <2>1, <2>3 DEF Uttered
  <2> QED
    BY <1>4, <2>2, <2>3
<1>7. \A k \in DOMAIN y : Number(y[k]) < Number(u) + 1
  <2> TAKE k \in DOMAIN y
  <2>1. CASE k \in DOMAIN z
    <3>1. Number(z[k]) < Number(u) /\ Number(z[k]) \in Nat
      <4>1. z[k] \in Utterance
        BY <1>1, <1>3, <2>1
      <4> QED
        BY <2>1, <4>1, NumberIs DEF Uttered
    <3> QED
      BY <1>2, <1>4, <2>1, <3>1
  <2>2. CASE k = Len(z) + 1
    BY <1>2, <1>4, <2>2
  <2> QED
    BY <1>4, <2>1, <2>2
<1>8. \A w \in Voiced : Number(w) < Number(u) + 1 => \E k \in DOMAIN y : y[k] = w
  <2> TAKE w \in Voiced
  <2> HAVE Number(w) < Number(u) + 1
  <2>1. w \in Utterance /\ u \in Utterance
    BY DEF Voiced
  <2>2. Number(w) \in Nat
    BY <2>1, NumberIs
  <2>3. CASE Number(w) < Number(u)
    <3>1. PICK k \in DOMAIN z : z[k] = w
      BY <2>3 DEF Uttered
    <3> QED
      BY <1>3, <1>4, <3>1
  <2>4. CASE ~(Number(w) < Number(u))
    <3>1. w = u
      BY <1>2, <2>1, <2>2, <2>4, NumberTells
    <3> QED
      BY <1>3, <1>4, <3>1
  <2> QED
    BY <2>3, <2>4
<1> QED
  BY <1>4, <1>5, <1>6, <1>7, <1>8 DEF Uttered, y, V

LEMMA UtterNoMore ==
  ASSUME NEW z, NEW s, NEW v \in Nat, Uttered(z, v, s), \A u \in Voiced : Number(u) # v
  PROVE  Uttered(z, v + 1, s)
<1>1. \A u \in Voiced : Number(u) \in Nat
  BY NumberIs DEF Voiced
<1>2. \A k \in DOMAIN z : z[k] \in Voiced
  BY DEF Uttered
<1>3. \A k \in DOMAIN z : Number(z[k]) < v + 1
  BY <1>1, <1>2 DEF Uttered
<1>4. \A u \in Voiced : Number(u) < v + 1 => Number(u) < v
  BY <1>1
<1> QED
  BY <1>3, <1>4 DEF Uttered

Pair == {"user", "assistant"} \X (Text \cup {"reply"})

LEMMA UtterPairs == 
  ASSUME TurnsInv, NEW u \in Voiced
  PROVE  Utter(u) \in Pair
<1>1. u \in Utterance /\ u.turn \in Known
  BY DEF Voiced
<1>2. u.turn \in Begun /\ u.role \in {"user", "assistant"}
  BY <1>1 DEF Known, Begun, Utterance
<1>3. turns[u.turn].text \in Text
  BY <1>2 DEF TurnsInv
<1> QED
  BY <1>2, <1>3 DEF Utter, Pair

LEMMA AppendTwice ==
  ASSUME NEW C, NEW s \in Seq(C), NEW a \in C, NEW b \in C
  PROVE  s \o <<a>> = Append(s, a) /\ s \o <<a, b>> = Append(Append(s, a), b) /\ s \o <<>> = s
OBVIOUS

\* Turn n says its part.
LEMMA SpeakStep ==
  ASSUME TurnsInv, NEW n \in Turn, NEW z, NEW s \in Seq(Pair), Uttered(z, 2 * n, s)
  PROVE  \E y : Uttered(y, 2 * (n + 1), SpeakOne(s, n))
<1> DEFINE u == [role |-> "user", turn |-> n]
           a == [role |-> "assistant", turn |-> n]
<1>1. n \in Nat /\ u \in Utterance /\ a \in Utterance
  BY TurnNumbers DEF Utterance
<1>2. Number(u) = 2 * n /\ Number(a) = 2 * n + 1 /\ 2 * n \in Nat /\ 2 * n + 1 \in Nat
  BY <1>1, NumberIs
<1>3. /\ u \in Voiced <=> n \in Known
      /\ a \in Voiced <=> n \in Known /\ turns[n].replied
  BY <1>1 DEF Voiced
<1>4. Utter(u) = <<"user", turns[n].text>> /\ Utter(a) = <<"assistant", "reply">>
  BY DEF Utter
<1>5. \A w \in Voiced : /\ Number(w) = 2 * n => w = u
                        /\ Number(w) = 2 * n + 1 => w = a
  BY <1>1, <1>2, NumberTells DEF Voiced
<1> HIDE DEF u, a
<1>6. /\ n \notin Known => SpeakOne(s, n) = s \o <<>>
      /\ n \in Known /\ ~turns[n].replied => SpeakOne(s, n) = s \o <<Utter(u)>>
      /\ n \in Known /\ turns[n].replied => SpeakOne(s, n) = s \o <<Utter(u), Utter(a)>>
  BY <1>4 DEF SpeakOne, SpokenIn
<1>7. 2 * n + 1 + 1 = 2 * (n + 1)
  BY <1>1
<1>8. CASE n \notin Known
  <2>1. SpeakOne(s, n) = s
    <3>1. s \o <<>> = s
      OBVIOUS
    <3> QED
      BY <1>6, <1>8, <3>1
  <2>2. Uttered(z, 2 * n + 1, s)
    BY <1>2, <1>3, <1>5, <1>8, UtterNoMore
  <2>3. Uttered(z, 2 * n + 1 + 1, s)
    BY <1>2, <1>3, <1>5, <1>8, <2>2, UtterNoMore
  <2> QED
    BY <1>7, <2>1, <2>3
<1>9. CASE n \in Known /\ ~turns[n].replied
  <2>1. u \in Voiced /\ a \notin Voiced /\ Utter(u) \in Pair
    BY <1>3, <1>9, UtterPairs
  <2>2. SpeakOne(s, n) = Append(s, Utter(u))
    BY <1>6, <1>9, <2>1, AppendTwice
  <2>3. Uttered(Append(z, u), 2 * n + 1, Append(s, Utter(u)))
    <3>1. Uttered(z, Number(u), s)
      BY <1>2
    <3> QED
      BY <1>2, <2>1, <3>1, UtterMore
  <2>4. Uttered(Append(z, u), 2 * n + 1 + 1, Append(s, Utter(u)))
    BY <1>2, <1>5, <2>1, <2>3, UtterNoMore
  <2> QED
    BY <1>7, <2>2, <2>4
<1>10. CASE n \in Known /\ turns[n].replied
  <2>1. u \in Voiced /\ a \in Voiced /\ Utter(u) \in Pair /\ Utter(a) \in Pair
    BY <1>3, <1>10, UtterPairs
  <2>2. SpeakOne(s, n) = Append(Append(s, Utter(u)), Utter(a))
    BY <1>6, <1>10, <2>1, AppendTwice
  <2>3. Uttered(Append(z, u), 2 * n + 1, Append(s, Utter(u)))
    <3>1. Uttered(z, Number(u), s)
      BY <1>2
    <3> QED
      BY <1>2, <2>1, <3>1, UtterMore
  <2>4. Uttered(Append(Append(z, u), a), 2 * n + 1 + 1, Append(Append(s, Utter(u)), Utter(a)))
    <3>1. Uttered(Append(z, u), Number(a), Append(s, Utter(u)))
      BY <1>2, <2>3
    <3> QED
      BY <1>2, <2>1, <3>1, UtterMore
  <2> QED
    BY <1>7, <2>2, <2>4
<1> QED
  BY <1>8, <1>9, <1>10

\* Spoken has each message of the turns Codex knows of once, in order.
LEMMA SpokenIs ==
  ASSUME TurnsInv
  PROVE  Spoken \in Seq(Pair) /\ \E z : Uttered(z, 2 * (MaxTurn + 1), Spoken)
<1> DEFINE S == Seq(Pair)
<1>1. <<>> \in S
  OBVIOUS
<1>2. Len(InTurn) = MaxTurn /\ MaxTurn \in Nat /\ \A n \in 1..MaxTurn : InTurn[n] = n /\ n \in Turn
  BY TurnSteps, TurnNumbers DEF Turn
<1>3. \A n \in Turn : SpokenIn(n) \in S
  <2> TAKE n \in Turn
  <2>1. n \in Known => <<"user", turns[n].text>> \in Pair
    BY DEF TurnsInv, Known, Begun, Pair
  <2>2. <<"assistant", "reply">> \in Pair
    BY DEF Pair
  <2> QED
    BY <2>1, <2>2 DEF SpokenIn
<1>4. \A x \in S, n \in 1..Len(InTurn) : SpeakOne(x, InTurn[n]) \in S
  <2> TAKE x \in S, n \in 1..Len(InTurn)
  <2>1. SpokenIn(InTurn[n]) \in S
    BY <1>2, <1>3
  <2> QED
    BY <2>1 DEF SpeakOne
<1> HIDE DEF S
<1>5. PICK f : SpokenRun(f, S)
  BY <1>1, <1>2, <1>4, SpokenSteps
<1>6. /\ f \in [0..MaxTurn -> S] /\ f[0] = <<>> /\ Spoken = f[MaxTurn]
      /\ \A n \in 1..MaxTurn : f[n] = SpeakOne(f[n - 1], n)
  BY <1>2, <1>5 DEF SpokenRun
<1> DEFINE G == {n \in 0..MaxTurn : \E z : Uttered(z, 2 * (n + 1), f[n])}
<1>7. 0 \in G
  <2>1. \A u \in Voiced : ~(Number(u) < 2)
    <3> TAKE u \in Voiced
    <3>1. u \in Utterance
      BY DEF Voiced
    <3>2. u.turn \in Nat /\ u.turn # 0 /\ (Number(u) = 2 * u.turn \/ Number(u) = 2 * u.turn + 1)
      BY <3>1, NumberIs, TurnNumbers
    <3> QED
      BY <3>2
  <2>2. Uttered(<<>>, 2, <<>>)
    <3>1. <<>> \in Seq(Voiced) /\ DOMAIN <<>> = {}
      OBVIOUS
    <3>2. <<>> = [k \in {} |-> Utter(<<>>[k])]
      OBVIOUS
    <3> QED
      BY <2>1, <3>1, <3>2 DEF Uttered
  <2>3. 2 * (0 + 1) = 2 /\ 0 \in 0..MaxTurn
    BY <1>2
  <2> QED
    BY <1>6, <2>2, <2>3
<1>8. ASSUME NEW n \in 1..MaxTurn, n - 1 \in G
      PROVE  n \in G
  <2>1. n \in Turn /\ f[n] = SpeakOne(f[n - 1], n) /\ f[n - 1] \in Seq(Pair) /\ n \in 0..MaxTurn /\ (n - 1) + 1 = n
    BY <1>2, <1>6 DEF S
  <2>2. PICK z : Uttered(z, 2 * n, f[n - 1])
    BY <1>8, <2>1
  <2>3. \E y : Uttered(y, 2 * (n + 1), f[n])
    BY <2>1, <2>2, SpeakStep
  <2> QED
    BY <2>1, <2>3
<1> HIDE DEF G
<1>9. \A n \in 1..MaxTurn : n - 1 \in G => n \in G
  BY <1>8
<1>10. 0..MaxTurn \subseteq G
  BY <1>2, <1>7, <1>9, UpTo
<1>11. MaxTurn \in G
  BY <1>2, <1>10
<1> QED
  BY <1>2, <1>6, <1>11 DEF G, S

Speaker(m) == [role |-> m.role, turn |-> m.turn]

\* The records r are what the turns Codex knows of have said.
Recounted(r) ==
  /\ r \in Seq(Record)
  /\ \A k \in DOMAIN r : /\ Speaker(r[k]) \in Voiced /\ r[k].time <= Len(lines)
                         /\ <<r[k].role, r[k].text>> = Utter(Speaker(r[k]))
  /\ \A k \in DOMAIN r : r[k].role = "assistant" =>
       /\ r[k].time \in DOMAIN lines /\ lines[r[k].time].kind = "agent_event"
       /\ lines[r[k].time].turn = r[k].turn
  /\ \A k, l \in DOMAIN r : k < l =>
       r[k].time < r[l].time /\ Number(Speaker(r[k])) < Number(Speaker(r[l]))
  /\ \A u \in Voiced : \E k \in DOMAIN r : Speaker(r[k]) = u

\* Who speaks in the file is a turn Codex knows of, in its own words.
LEMMA SpeaksVoiced ==
  ASSUME LinesInv, Script(lines, turns), NEW j, Speaks(lines, j)
  PROVE  /\ [role |-> Said[lines[j].kind], turn |-> lines[j].turn] \in Voiced
         /\ <<Said[lines[j].kind], lines[j].text>> =
              Utter([role |-> Said[lines[j].kind], turn |-> lines[j].turn])
<1> DEFINE t == lines[j].turn
           role == Said[lines[j].kind]
<1>1. /\ Rollout(lines) /\ Book(lines, turns, running)
  BY WholeFile DEF LinesInv
<1>2. /\ j \in DOMAIN lines /\ t \in Turn /\ role \in {"user", "assistant"} /\ ~Undone(lines, t) /\ t # 0
      /\ lines[j].kind \in {"user_event", "user_item", "agent_event", "agent_item"}
  <2>1. t \in Turn
    BY <1>1, SpeaksFields
  <2> QED
    BY <1>1, <2>1, SpeaksFields, TurnNumbers DEF Speaks
<1>3. turns[t].status # "none"
  BY <1>1, <1>2 DEF Book
<1>4. turns[t].status # "erased"
  BY <1>1, <1>2 DEF Book, Undone
<1>5. t \in Known
  BY <1>2, <1>3, <1>4 DEF Known
<1>6. ScriptAt(lines, turns, j)
  BY <1>2 DEF Script
<1>7. /\ role = "user" => lines[j].kind \in {"user_event", "user_item"}
      /\ role = "assistant" => lines[j].kind \in {"agent_event", "agent_item"}
  BY <1>2, SaidIs
<1>8. /\ role = "user" => lines[j].text = turns[t].text
      /\ role = "assistant" => lines[j].text = "reply" /\ turns[t].replied
  BY <1>6, <1>7 DEF ScriptAt
<1> HIDE DEF t, role
<1>9. [role |-> role, turn |-> t] \in Voiced
  BY <1>2, <1>5, <1>8 DEF Voiced, Utterance
<1>10. <<role, lines[j].text>> = Utter([role |-> role, turn |-> t])
  BY <1>2, <1>8 DEF Utter
<1> QED
  BY <1>9, <1>10 DEF role, t

\* Every message of a turn Codex knows of has a line.
LEMMA VoicedSpeaks ==
  ASSUME LinesInv, Script(lines, turns), NEW u \in Voiced
  PROVE  \E j \in 1..Len(lines) : /\ Speaks(lines, j) /\ Said[lines[j].kind] = u.role
                                  /\ lines[j].turn = u.turn
<1>1. /\ Rollout(lines) /\ Book(lines, turns, running) /\ DOMAIN lines = 1..Len(lines)
  BY WholeFile, RolloutFields DEF LinesInv
<1>2. u.turn \in Turn /\ u.turn \in Known /\ u.role \in {"user", "assistant"}
  BY DEF Voiced, Utterance
<1>3. ~Undone(lines, u.turn)
  BY <1>1, <1>2 DEF Book, Undone, Known
<1>4. CASE u.role = "user"
  <2>1. PICK i \in DOMAIN lines : lines[i].kind = "task_started" /\ lines[i].turn = u.turn
    BY <1>1, <1>2 DEF Book, Known
  <2>2. i + 1 \in DOMAIN lines /\ lines[i + 1].kind = "user_item"
    BY <2>1 DEF Script, ScriptAt
  <2>3. ScriptAt(lines, turns, i + 1)
    BY <2>2 DEF Script
  <2>4. lines[(i + 1) - 1].turn = lines[i + 1].turn
    BY <2>2, <2>3 DEF ScriptAt
  <2>5. (i + 1) - 1 = i
    BY <1>1
  <2>6. lines[i + 1].turn = u.turn
    BY <2>1, <2>4, <2>5
  <2> QED
    BY <1>1, <1>3, <1>4, <2>2, <2>6, SaidIs DEF Speaks
<1>5. CASE u.role = "assistant"
  <2>1. turns[u.turn].replied
    BY <1>5 DEF Voiced
  <2>2. PICK i \in DOMAIN lines : lines[i].kind = "agent_event" /\ lines[i].turn = u.turn
    BY <1>2, <2>1 DEF Script
  <2> QED
    BY <1>1, <1>3, <1>5, <2>2, SaidIs DEF Speaks
<1> QED
  BY <1>2, <1>4, <1>5

LEMMA RecordsRecount ==
  ASSUME HistoryInv, NEW r, r = CollectMessages(lines)
  PROVE  Recounted(r)
<1>1. /\ LinesInv /\ Script(lines, turns) /\ Rollout(lines) /\ Len(lines) \in Nat /\ Len(lines) \in 0..Len(lines)
  BY WholeFile DEF HistoryInv
<1>2. Says(lines)
  <2>1. SubSeq(lines, 1, Len(lines)) = lines
    BY <1>1 DEF Rollout
  <2> QED
    BY <1>1, <2>1, ReadLines
<1>3. r \in Seq(Record) /\ Gathered(lines, Len(lines), r)
  BY <1>1, <1>2, GatheredAll
<1>4. \A k \in DOMAIN r : /\ Speaker(r[k]) \in Voiced /\ r[k].time <= Len(lines)
                          /\ <<r[k].role, r[k].text>> = Utter(Speaker(r[k]))
  <2> TAKE k \in DOMAIN r
  <2> DEFINE j == r[k].time
  <2>1. /\ Speaks(lines, j) /\ j <= Len(lines) /\ r[k].role = Said[lines[j].kind]
        /\ r[k].turn = lines[j].turn /\ r[k].text = lines[j].text
    BY <1>1, <1>3, RecordFields
  <2> HIDE DEF j
  <2>2. /\ [role |-> Said[lines[j].kind], turn |-> lines[j].turn] \in Voiced
        /\ <<Said[lines[j].kind], lines[j].text>> =
             Utter([role |-> Said[lines[j].kind], turn |-> lines[j].turn])
    BY <1>1, <2>1, SpeaksVoiced
  <2>3. Speaker(r[k]) = [role |-> Said[lines[j].kind], turn |-> lines[j].turn]
    BY <2>1 DEF Speaker
  <2>4. r[k].time <= Len(lines)
    BY <2>1 DEF j
  <2> QED
    BY <2>1, <2>2, <2>3, <2>4
<1>8. \A k \in DOMAIN r : r[k].role = "assistant" =>
        /\ r[k].time \in DOMAIN lines /\ lines[r[k].time].kind = "agent_event"
        /\ lines[r[k].time].turn = r[k].turn
  <2> TAKE k \in DOMAIN r
  <2> DEFINE j == r[k].time
  <2>1. /\ Speaks(lines, j) /\ r[k].role = Said[lines[j].kind] /\ r[k].turn = lines[j].turn
    BY <1>1, <1>3, RecordFields
  <2>2. lines[j].kind \in {"user_item", "agent_event"}
    BY <1>3 DEF Gathered
  <2> HIDE DEF j
  <2>3. r[k].role = "assistant" => lines[j].kind = "agent_event"
    BY <2>1, <2>2, SaidIs
  <2> QED
    BY <2>1, <2>3 DEF Speaks, j
<1>5. \A k \in DOMAIN r : Number(Speaker(r[k])) = Voice(r[k].role, r[k].turn)
  BY DEF Number, Speaker
<1>6. \A k, l \in DOMAIN r : k < l =>
        r[k].time < r[l].time /\ Number(Speaker(r[k])) < Number(Speaker(r[l]))
  BY <1>3, <1>5 DEF Gathered
<1>7. \A u \in Voiced : \E k \in DOMAIN r : Speaker(r[k]) = u
  <2> TAKE u \in Voiced
  <2>1. PICK j \in 1..Len(lines) : /\ Speaks(lines, j) /\ Said[lines[j].kind] = u.role
                                   /\ lines[j].turn = u.turn
    BY <1>1, VoicedSpeaks
  <2>2. PICK k \in DOMAIN r : r[k].role = Said[lines[j].kind] /\ r[k].turn = lines[j].turn
    BY <1>3, <2>1 DEF Gathered
  <2>3. u = [role |-> u.role, turn |-> u.turn]
    BY NumberIs DEF Voiced
  <2> QED
    BY <2>1, <2>2, <2>3 DEF Speaker
<1> QED
  BY <1>3, <1>4, <1>6, <1>7, <1>8 DEF Recounted

\* The rollout says what the turns have said.
LEMMA SpokenRecounted ==
  ASSUME TurnsInv, NEW r, Recounted(r)
  PROVE  Len(Spoken) = Len(r) /\ \A k \in 1..Len(r) : Spoken[k] = <<r[k].role, r[k].text>>
<1>1. PICK z : Uttered(z, 2 * (MaxTurn + 1), Spoken)
  BY SpokenIs
<1>2. z \in Seq(Voiced) /\ r \in Seq(Record) /\ Spoken = [k \in DOMAIN z |-> Utter(z[k])]
  BY <1>1 DEF Uttered, Recounted
<1>3. /\ DOMAIN z = 1..Len(z) /\ Len(z) \in Nat /\ \A k \in 1..Len(z) : z[k] \in Voiced
      /\ DOMAIN r = 1..Len(r) /\ Len(r) \in Nat
  BY <1>2
<1>4. \A k \in 1..Len(r) : Speaker(r[k]) \in Voiced
  BY <1>3 DEF Recounted
<1>5. \A u \in Voiced : u \in Utterance /\ Number(u) \in Nat /\ Number(u) < 2 * (MaxTurn + 1)
  <2> TAKE u \in Voiced
  <2>1. u \in Utterance
    BY DEF Voiced
  <2>2. u.turn \in Nat /\ u.turn <= MaxTurn /\ (Number(u) = 2 * u.turn \/ Number(u) = 2 * u.turn + 1)
    BY <2>1, NumberIs, TurnNumbers DEF Turn
  <2> QED
    BY <2>1, <2>2, NumberIs, TurnNumbers
<1> DEFINE a == [k \in 1..Len(z) |-> Number(z[k])]
           b == [k \in 1..Len(r) |-> Number(Speaker(r[k]))]
<1>6. a \in [1..Len(z) -> Nat] /\ b \in [1..Len(r) -> Nat]
  BY <1>3, <1>4, <1>5
<1>7. \A i, j \in 1..Len(z) : i < j => a[i] < a[j]
  BY <1>1, <1>3 DEF Uttered
<1>8. \A i, j \in 1..Len(r) : i < j => b[i] < b[j]
  BY <1>3 DEF Recounted
<1>9. \A i \in 1..Len(z) : \E j \in 1..Len(r) : a[i] = b[j]
  <2> TAKE i \in 1..Len(z)
  <2>1. PICK j \in 1..Len(r) : Speaker(r[j]) = z[i]
    BY <1>3 DEF Recounted
  <2> QED
    BY <2>1
<1>10. \A j \in 1..Len(r) : \E i \in 1..Len(z) : a[i] = b[j]
  <2> TAKE j \in 1..Len(r)
  <2>1. PICK i \in 1..Len(z) : z[i] = Speaker(r[j])
    BY <1>1, <1>3, <1>4, <1>5 DEF Uttered
  <2> QED
    BY <2>1
<1> HIDE DEF a, b
<1>11. Rising(a, Len(z)) /\ Rising(b, Len(r)) /\ SameNumbers(a, Len(z), b, Len(r))
  BY <1>3, <1>6, <1>7, <1>8, <1>9, <1>10 DEF Rising, SameNumbers
<1>12. Len(z) = Len(r) /\ Equal(a, b, Len(z))
  BY <1>11, SameRuns
<1>13. Len(z) = Len(r) /\ \A i \in 1..Len(z) : a[i] = b[i]
  BY <1>12 DEF Equal
<1>14. \A k \in 1..Len(r) : z[k] = Speaker(r[k])
  BY <1>3, <1>4, <1>5, <1>13, NumberTells DEF a, b
<1>15. \A k \in 1..Len(r) : Spoken[k] = <<r[k].role, r[k].text>>
  BY <1>2, <1>3, <1>13, <1>14 DEF Recounted
<1>16. Len(Spoken) = Len(r)
  BY <1>2, <1>3, <1>13
<1> QED
  BY <1>15, <1>16

-----------------------------------------------------------------------------
(* The messages of the details                                             *)

\* A reply is no earlier than its record.
Follows(m, r) == \E j \in DOMAIN r : Speaker(r[j]) = Speaker(m) /\ r[j].time <= m.time

\* What the thread says, of turns Codex knows of.
Extra(r) ==
  {m \in Message : /\ m.id = <<m.role, m.turn>> /\ (m.client => m.role = "user")
                   /\ Speaker(m) \in Voiced /\ <<m.role, m.text>> = Utter(Speaker(m))
                   /\ m.role = "assistant" => Follows(m, r)}

(* The records r and what the thread adds to them: client ids, and replies *)
(* at the end, whatever their times.                                       *)
Merged(y, r) ==
  /\ y \in Seq(Message) /\ Len(r) <= Len(y)
  /\ \A k \in DOMAIN y : y[k].client => y[k].role = "user"
  /\ \A k \in 1..Len(r) :
       /\ y[k].role = r[k].role /\ y[k].text = r[k].text /\ y[k].turn = r[k].turn
       /\ y[k].time = r[k].time
       /\ y[k].id = <<"line", k>> \/ (y[k].role = "user" /\ y[k].id = <<"user", y[k].turn>>)
  /\ \A k \in DOMAIN y : k > Len(r) =>
       y[k].role = "assistant" /\ Follows(y[k], r) /\ Speaker(y[k]) \in Voiced /\ y[k].text = "reply"

LEMMA SpeakerIs ==
  ASSUME NEW m, Speaker(m) \in Voiced, <<m.role, m.text>> = Utter(Speaker(m))
  PROVE  /\ m.turn \in Known /\ m.turn \in Turn /\ m.role \in {"user", "assistant"}
         /\ m.role = "user" => m.text = turns[m.turn].text
         /\ m.role = "assistant" => m.text = "reply" /\ turns[m.turn].replied
<1>1. Speaker(m).role = m.role /\ Speaker(m).turn = m.turn
  BY DEF Speaker
<1>2. m.turn \in Known /\ m.turn \in Turn /\ m.role \in {"user", "assistant"}
  BY <1>1 DEF Voiced, Utterance
<1> QED
  BY <1>1, <1>2 DEF Utter, Voiced

LEMMA ThreadSays ==
  ASSUME HistoryInv, NEW thread \in {NoThread, [t \in Known |-> turns[t]]}, NEW r, Recounted(r),
         NEW at, DOMAIN at = DOMAIN thread, \A u \in DOMAIN thread : at[u] \in Nat, Timely(at)
  PROVE  ThreadMessages(thread, at) \in Seq(Extra(r))
<1>1. DOMAIN thread \subseteq Known /\ \A t \in DOMAIN thread : thread[t] = turns[t]
  BY DEF NoThread
<1>2. TurnsInv /\ Known \subseteq Turn
  BY DEF HistoryInv, Known
<1>3. thread \in Threads
  <2>1. \A t \in Known : turns[t] \in SomeTurn /\ turns[t].text \in Text
    BY <1>2 DEF TurnsInv, Known, Begun
  <2>2. thread \in [DOMAIN thread -> {q \in SomeTurn : q.text \in Text}]
    <3>1. thread = [t \in DOMAIN thread |-> thread[t]]
      BY DEF NoThread
    <3> QED
      BY <1>1, <2>1, <3>1
  <2> QED
    BY <1>1, <1>2, <2>2 DEF Threads
<1>4. ASSUME NEW t \in DOMAIN thread, NEW role \in {"user", "assistant"}, role = "assistant" => turns[t].replied
      PROVE  Reported(thread, at, t, role) \in Extra(r)
  <2> DEFINE m == Reported(thread, at, t, role)
  <2>1. m \in Message
    BY <1>3, ReportedTyped
  <2>2. /\ m.role = role /\ m.turn = t /\ m.time = at[t] /\ m.id = <<role, t>>
        /\ m.text = (IF role = "user" THEN thread[t].text ELSE "reply") /\ (m.client => role = "user")
    BY DEF Reported
  <2> HIDE DEF m
  <2>3. Speaker(m) = [role |-> role, turn |-> t] /\ Speaker(m).turn = t /\ Speaker(m).role = role
    BY <2>2 DEF Speaker
  <2>4. Speaker(m) \in Voiced
    BY <1>1, <1>2, <1>4, <2>3 DEF Voiced, Utterance
  <2>5. <<m.role, m.text>> = Utter(Speaker(m))
    BY <1>1, <2>2, <2>3 DEF Utter
  <2>6. role = "assistant" => Follows(m, r)
    <3> HAVE role = "assistant"
    <3>1. PICK k \in DOMAIN r : Speaker(r[k]) = Speaker(m)
      BY <2>4 DEF Recounted
    <3>2. r[k].role = "assistant" /\ r[k].turn = t
      BY <2>3, <3>1 DEF Speaker
    <3>3. /\ r[k].time \in DOMAIN lines /\ lines[r[k].time].kind = "agent_event"
          /\ lines[r[k].time].turn = t
      BY <3>2 DEF Recounted
    <3>4. r[k].time <= at[t]
      BY <3>3 DEF Timely
    <3> QED
      BY <2>2, <3>1, <3>4 DEF Follows
  <2> QED
    BY <2>1, <2>2, <2>4, <2>5, <2>6 DEF Extra, m
<1> DEFINE D == Extra(r)
           S == Seq(D)
<1>5. \A t : Report(thread, at, t) \in S
  <2> TAKE t
  <2> DEFINE a == Reported(thread, at, t, "user")
             b == Reported(thread, at, t, "assistant")
  <2>1. t \in DOMAIN thread => a \in D /\ (turns[t].replied => b \in D)
    BY <1>4
  <2>2. Report(thread, at, t) = IF t \notin DOMAIN thread THEN <<>>
                               ELSE IF thread[t].replied THEN <<a, b>> ELSE <<a>>
    BY ReportIs
  <2> HIDE DEF a, b, D
  <2> QED
    BY <1>1, <2>1, <2>2
<1> HIDE DEF D
<1>6. <<>> \in S /\ \A x \in S, y \in S : x \o y \in S
  OBVIOUS
<1> HIDE DEF S
<1>7. \A x \in S, n \in 1..Len(InTurn) : ReportOne(x, thread, at, InTurn[n]) \in S
  BY <1>5, <1>6 DEF ReportOne
<1>8. Len(InTurn) \in Nat
  BY TurnSteps
<1>9. PICK f : ReportRun(f, S, thread, at)
  BY <1>6, <1>7, <1>8, ReportSteps
<1>10. ThreadMessages(thread, at) \in S
  BY <1>8, <1>9 DEF ReportRun
<1> QED
  BY <1>10 DEF S, D

\* x is y, with a client id for message i.
ClientAt(x, y, i, id) ==
  /\ Len(x) = Len(y) /\ DOMAIN x = DOMAIN y /\ \A k \in DOMAIN y : k # i => x[k] = y[k]
  /\ x[i].client = TRUE /\ x[i].id = id /\ x[i].role = y[i].role /\ x[i].text = y[i].text
  /\ x[i].turn = y[i].turn /\ x[i].time = y[i].time

LEMMA GetsClientId ==
  ASSUME NEW y \in Seq(Message), NEW i \in DOMAIN y, NEW id
  PROVE  ClientAt([y EXCEPT ![i].client = TRUE, ![i].id = id], y, i, id)
<1> DEFINE x == [y EXCEPT ![i].client = TRUE, ![i].id = id]
<1>1. Len(y) \in Nat /\ DOMAIN y = 1..Len(y) /\ y \in [1..Len(y) -> Message]
  OBVIOUS
<1>2. DOMAIN x = DOMAIN y /\ \A k \in DOMAIN y : k # i => x[k] = y[k]
  BY <1>1
<1>3. Len(x) = Len(y)
  BY <1>1, <1>2
<1>4. x[i] = [y[i] EXCEPT !.client = TRUE, !.id = id] /\ y[i] \in Message
  BY <1>1
<1>5. /\ x[i].client = TRUE /\ x[i].id = id /\ x[i].role = y[i].role /\ x[i].text = y[i].text
      /\ x[i].turn = y[i].turn /\ x[i].time = y[i].time
  BY <1>4 DEF Message
<1> QED
  BY <1>2, <1>3, <1>5 DEF ClientAt

LEMMA MergedStep ==
  ASSUME NEW r, Recounted(r), NEW y, Merged(y, r), NEW m \in Extra(r)
  PROVE  Merged(MergeOne(y, m), r)
<1>1. /\ m \in Message /\ m.id = <<m.role, m.turn>> /\ (m.client => m.role = "user")
      /\ Speaker(m) \in Voiced /\ <<m.role, m.text>> = Utter(Speaker(m))
      /\ m.role = "assistant" => Follows(m, r)
  BY DEF Extra
<1>2. /\ m.role \in {"user", "assistant"}
      /\ m.role = "user" => m.text = turns[m.turn].text
      /\ m.role = "assistant" => m.text = "reply"
  BY <1>1, SpeakerIs
<1>3. /\ y \in Seq(Message) /\ Len(y) \in Nat /\ DOMAIN y = 1..Len(y) /\ r \in Seq(Record)
      /\ Len(r) \in Nat /\ DOMAIN r = 1..Len(r) /\ Len(r) <= Len(y)
  BY DEF Merged, Recounted
<1>4. MergeOne(y, m) \in Seq(Message)
  BY <1>1, <1>3, MergeTyped
<1> DEFINE twins == Twins(y, m)
           first == CHOOSE i \in twins : \A j \in twins : i <= j
           x == [y EXCEPT ![first].client = TRUE, ![first].id = m.id]
<1>5. /\ twins = {} => MergeOne(y, m) = Append(y, m)
      /\ twins # {} => MergeOne(y, m) = x \/ MergeOne(y, m) = y
  BY DEF MergeOne
<1>6. \A i : i \in twins <=> i \in DOMAIN y /\ y[i].role = "user" /\ m.role = "user"
                             /\ y[i].turn = m.turn /\ y[i].text = m.text
  BY DEF Twins
<1> HIDE DEF twins
<1>7. CASE m.role = "user"
  <2>1. PICK k \in DOMAIN r : Speaker(r[k]) = Speaker(m)
    BY <1>1 DEF Recounted
  <2>2. r[k].role = m.role /\ r[k].turn = m.turn
    BY <2>1 DEF Speaker
  <2>3. <<r[k].role, r[k].text>> = Utter(Speaker(r[k]))
    BY DEF Recounted
  <2>4. r[k].text = m.text
    BY <1>1, <2>1, <2>3
  <2>5. k \in 1..Len(r) /\ y[k].role = "user" /\ y[k].turn = m.turn /\ y[k].text = m.text
    BY <1>3, <1>7, <2>2, <2>4 DEF Merged
  <2>6. k \in twins
    BY <1>3, <1>6, <1>7, <2>5
  <2>7. first \in twins
    <3>1. twins \in SUBSET Nat /\ twins # {}
      BY <1>3, <1>6, <2>6
    <3>2. \E i \in twins : \A j \in twins : i <= j
      BY <3>1, LeastOf
    <3> QED
      BY <3>2
  <2> HIDE DEF first
  <2>8. first \in DOMAIN y /\ y[first].role = "user" /\ y[first].turn = m.turn
    BY <1>6, <2>7
  <2>9. first \in 1..Len(r)
    BY <1>3, <2>8 DEF Merged
  <2>10. /\ Len(x) = Len(y) /\ DOMAIN x = DOMAIN y /\ \A i \in DOMAIN y : i # first => x[i] = y[i]
         /\ x[first].client = TRUE /\ x[first].id = m.id /\ x[first].role = y[first].role
         /\ x[first].text = y[first].text /\ x[first].turn = y[first].turn /\ x[first].time = y[first].time
    <3>1. ClientAt(x, y, first, m.id)
      BY <1>3, <2>8, GetsClientId
    <3> HIDE DEF x
    <3> QED
      BY <3>1 DEF ClientAt
  <2> HIDE DEF x
  <2>11. CASE MergeOne(y, m) = x
    <3>1. x \in Seq(Message) /\ Len(r) <= Len(x)
      BY <1>3, <1>4, <2>10, <2>11
    <3>2. \A i \in DOMAIN x : x[i].client => x[i].role = "user"
      BY <2>8, <2>10 DEF Merged
    <3>3. \A i \in 1..Len(r) :
            /\ x[i].role = r[i].role /\ x[i].text = r[i].text /\ x[i].turn = r[i].turn
            /\ x[i].time = r[i].time
            /\ x[i].id = <<"line", i>> \/ (x[i].role = "user" /\ x[i].id = <<"user", x[i].turn>>)
      <4> TAKE i \in 1..Len(r)
      <4>1. /\ y[i].role = r[i].role /\ y[i].text = r[i].text /\ y[i].turn = r[i].turn
            /\ y[i].time = r[i].time
            /\ y[i].id = <<"line", i>> \/ (y[i].role = "user" /\ y[i].id = <<"user", y[i].turn>>)
        BY DEF Merged
      <4>2. i \in DOMAIN y
        BY <1>3
      <4>3. CASE i = first
        BY <1>1, <1>7, <2>8, <2>10, <4>1, <4>3
      <4>4. CASE i # first
        BY <2>10, <4>1, <4>2, <4>4
      <4> QED
        BY <4>3, <4>4
    <3>4. \A i \in DOMAIN x : i > Len(r) =>
            x[i].role = "assistant" /\ Follows(x[i], r) /\ Speaker(x[i]) \in Voiced /\ x[i].text = "reply"
      BY <1>3, <2>9, <2>10 DEF Merged
    <3> QED
      BY <2>11, <3>1, <3>2, <3>3, <3>4 DEF Merged
  <2> QED
    BY <1>5, <2>6, <2>11
<1>8. CASE m.role = "assistant"
  <2>1. MergeOne(y, m) = Append(y, m)
    BY <1>5, <1>6, <1>8
  <2> DEFINE z == Append(y, m)
  <2>2. /\ Len(z) = Len(y) + 1 /\ DOMAIN z = 1..(Len(y) + 1) /\ z[Len(y) + 1] = m
        /\ \A i \in DOMAIN y : z[i] = y[i]
        /\ \A i \in DOMAIN z : i \in DOMAIN y \/ i = Len(y) + 1
    BY <1>1, <1>3
  <2> HIDE DEF z
  <2>3. z \in Seq(Message) /\ Len(r) <= Len(z)
    BY <1>3, <1>4, <2>1, <2>2 DEF z
  <2>4. \A i \in DOMAIN z : z[i].client => z[i].role = "user"
    BY <1>1, <2>2 DEF Merged
  <2>5. \A i \in 1..Len(r) :
          /\ z[i].role = r[i].role /\ z[i].text = r[i].text /\ z[i].turn = r[i].turn
          /\ z[i].time = r[i].time
          /\ z[i].id = <<"line", i>> \/ (z[i].role = "user" /\ z[i].id = <<"user", z[i].turn>>)
    <3> TAKE i \in 1..Len(r)
    <3>1. i \in DOMAIN y /\ z[i] = y[i]
      BY <1>3, <2>2
    <3> QED
      BY <3>1 DEF Merged
  <2>6. \A i \in DOMAIN z : i > Len(r) =>
          z[i].role = "assistant" /\ Follows(z[i], r) /\ Speaker(z[i]) \in Voiced /\ z[i].text = "reply"
    BY <1>1, <1>2, <1>8, <2>2 DEF Merged
  <2> QED
    BY <2>1, <2>3, <2>4, <2>5, <2>6 DEF Merged, z
<1> QED
  BY <1>2, <1>7, <1>8

\* The messages of the details, whatever the thread says.
LEMMA DetailMerged ==
  ASSUME HistoryInv, Flushed, NEW thread \in {NoThread, [t \in Known |-> turns[t]]},
         NEW at, DOMAIN at = DOMAIN thread, \A u \in DOMAIN thread : at[u] \in Nat, Timely(at)
  PROVE  \E r : Recounted(r) /\ Merged(DetailMessages(thread, written, at), r)
<1> DEFINE r == CollectMessages(lines)
           a == RolloutMessages(lines)
           X == ThreadMessages(thread, at)
<1>1. SubSeq(lines, 1, written) = lines /\ written \in Nat
  BY WholeFile DEF HistoryInv, Flushed
<1>2. Recounted(r)
  BY RecordsRecount
<1>3. DetailMessages(thread, written, at) = MergeHistory(a, X)
  BY <1>1 DEF DetailMessages
<1>4. X \in Seq(Extra(r))
  BY <1>2, ThreadSays
<1>5. a = [i \in DOMAIN r |-> Placed(r[i], i)]
  BY DEF RolloutMessages, Placed
<1>6. a \in Seq(Message)
  <2>1. Rollout(lines) /\ Len(lines) \in 0..Len(lines) /\ SubSeq(lines, 1, Len(lines)) = lines
    BY <1>1, WholeFile DEF HistoryInv, Flushed
  <2>2. Says(lines)
    BY <2>1, ReadLines
  <2> QED
    BY <2>1, <2>2, RolloutMessagesTyped
<1> HIDE DEF r, X
<1>7. r \in Seq(Record)
  BY <1>2 DEF Recounted
<1>8. Merged(a, r)
  <2>1. DOMAIN r = 1..Len(r) /\ Len(r) \in Nat /\ DOMAIN a = 1..Len(r) /\ Len(a) = Len(r)
    BY <1>5, <1>7
  <2>2. \A k \in 1..Len(r) : /\ a[k].role = r[k].role /\ a[k].text = r[k].text /\ a[k].turn = r[k].turn
                             /\ a[k].time = r[k].time /\ a[k].id = <<"line", k>> /\ a[k].client = FALSE
    BY <1>5, <2>1 DEF Placed
  <2>3. \A k \in DOMAIN a : ~(k > Len(r))
    BY <2>1
  <2> HIDE DEF a
  <2>4. \A k \in DOMAIN a : a[k].client => a[k].role = "user"
    BY <2>1, <2>2
  <2> QED
    BY <1>6, <2>1, <2>2, <2>3, <2>4 DEF Merged
<1> DEFINE S == Seq(Message)
<1>9. a \in S /\ Len(X) \in Nat /\ \A n \in 1..Len(X) : X[n] \in Extra(r)
  BY <1>4, <1>6
<1>10. \A x \in S, n \in 1..Len(X) : MergeOne(x, X[n]) \in S
  <2>1. Extra(r) \subseteq Message
    BY DEF Extra
  <2> QED
    BY <1>9, <2>1, MergeTyped
<1> HIDE DEF S, a
<1>11. PICK f : MergeRun(f, S, a, X)
  BY <1>9, <1>10, MergeSteps
<1>12. /\ f[0] = a /\ MergeHistory(a, X) = f[Len(X)]
       /\ \A n \in 1..Len(X) : f[n] = MergeOne(f[n - 1], X[n])
  BY <1>11 DEF MergeRun
<1> DEFINE G == {n \in 0..Len(X) : Merged(f[n], r)}
<1>13. 0 \in G
  BY <1>8, <1>9, <1>12
<1>14. ASSUME NEW n \in 1..Len(X), n - 1 \in G
       PROVE  n \in G
  <2>1. Merged(f[n - 1], r) /\ f[n] = MergeOne(f[n - 1], X[n]) /\ X[n] \in Extra(r)
    BY <1>9, <1>12, <1>14
  <2>2. Merged(f[n], r)
    BY <1>1, <1>2, <2>1, MergedStep
  <2> QED
    BY <1>9, <2>2
<1> HIDE DEF G
<1>15. \A n \in 1..Len(X) : n - 1 \in G => n \in G
  BY <1>14
<1>16. 0..Len(X) \subseteq G
  BY <1>9, <1>13, <1>15, UpTo
<1>17. Len(X) \in G
  BY <1>9, <1>16
<1>18. Merged(MergeHistory(a, X), r)
  BY <1>12, <1>17 DEF G
<1> QED
  BY <1>2, <1>3, <1>18

LEMMA AppendNext ==
  ASSUME NEW D, NEW s \in Seq(D), NEW n \in 1..Len(s)
  PROVE  /\ SubSeq(s, 1, n) = Append(SubSeq(s, 1, n - 1), s[n])
         /\ SubSeq(s, 1, 0) = <<>> /\ SubSeq(s, 1, n - 1) \in Seq(D)
         /\ Len(SubSeq(s, 1, n - 1)) = n - 1 /\ \A i \in 1..(n - 1) : SubSeq(s, 1, n - 1)[i] = s[i]
<1>1. Len(s) \in Nat /\ n \in Nat /\ n - 1 \in 0..Len(s)
  OBVIOUS
<1> DEFINE a == SubSeq(s, 1, n)
           b == Append(SubSeq(s, 1, n - 1), s[n])
<1>2. /\ SubSeq(s, 1, n - 1) \in Seq(D) /\ Len(SubSeq(s, 1, n - 1)) = n - 1
      /\ \A i \in 1..(n - 1) : SubSeq(s, 1, n - 1)[i] = s[i]
  BY <1>1
<1>3. a \in Seq(D) /\ Len(a) = n /\ \A i \in 1..n : a[i] = s[i]
  BY <1>1
<1>4. b \in Seq(D) /\ Len(b) = n /\ \A i \in 1..n : b[i] = s[i]
  BY <1>1, <1>2
<1>5. SubSeq(s, 1, 0) = <<>>
  BY <1>1
<1> HIDE DEF a, b
<1>6. a = [i \in 1..n |-> a[i]] /\ b = [i \in 1..n |-> b[i]]
  BY <1>3, <1>4
<1>7. a = b
  BY <1>3, <1>4, <1>6
<1> QED
  BY <1>2, <1>5, <1>7 DEF a, b

\* The messages of x that are no later than w are its first ones.
LEMMA Earlier ==
  ASSUME NEW x \in Seq(Message), NEW w \in Nat,
         \A i, j \in DOMAIN x : i < j => x[i].time <= x[j].time
  PROVE  \E c \in 0..Len(x) : /\ Cardinality({i \in DOMAIN x : x[i].time <= w}) = c
                              /\ \A i \in DOMAIN x : x[i].time <= w <=> i <= c
<1> DEFINE S == {i \in DOMAIN x : x[i].time <= w}
<1>1. DOMAIN x = 1..Len(x) /\ Len(x) \in Nat /\ \A i \in DOMAIN x : x[i].time \in Nat
  <2>1. \A i \in DOMAIN x : x[i] \in Message
    OBVIOUS
  <2> QED
    BY <2>1 DEF Message
<1>2. PICK c \in 0..Len(x) : \A i \in DOMAIN x : x[i].time <= w <=> i <= c
  <2>1. CASE S = {}
    <3>1. \A i \in DOMAIN x : ~(x[i].time <= w) /\ ~(i <= 0)
      BY <1>1, <2>1
    <3> QED
      BY <1>1, <3>1
  <2>2. CASE S # {}
    <3>1. S \in SUBSET Nat /\ \A k \in S : k <= Len(x)
      BY <1>1
    <3> HIDE DEF S
    <3>2. PICK c \in S : \A k \in S : k <= c
      BY <1>1, <2>2, <3>1, GreatestOf
    <3>3. c \in DOMAIN x /\ x[c].time <= w
      BY <3>2 DEF S
    <3>4. \A i \in DOMAIN x : i <= c => x[i].time <= w
      BY <1>1, <3>3
    <3>5. \A i \in DOMAIN x : x[i].time <= w => i <= c
      BY <3>2 DEF S
    <3>6. c \in 0..Len(x)
      BY <1>1, <3>3
    <3> QED
      BY <3>4, <3>5, <3>6
  <2> QED
    BY <2>1, <2>2
<1>3. S = 1..c
  BY <1>1, <1>2
<1>4. Cardinality(1..c) = c
  <2>1. c \in Nat /\ Cardinality(1..c) = IF 1 > c THEN 0 ELSE c - 1 + 1
    BY <1>1, FS_Interval
  <2> QED
    BY <2>1
<1> QED
  BY <1>2, <1>3, <1>4

\* Message k of y comes before message l when they are sorted.
Prior(y, k, l) == y[k].time < y[l].time \/ (y[k].time = y[l].time /\ k < l)

\* s are the first n messages of y, in order; b says which is where.
Sorts(s, b, y, n) ==
  /\ s \in Seq(Message) /\ Len(s) = n /\ b \in [1..n -> 1..n]
  /\ \A i \in 1..n : s[i] = y[b[i]]
  /\ \A k \in 1..n : \E i \in 1..n : b[i] = k
  /\ \A i, j \in 1..n : i < j => Prior(y, b[i], b[j])

LEMMA InsertIs ==
  ASSUME NEW x \in Seq(Message), NEW m \in Message, NEW c \in 0..Len(x),
         Cardinality({i \in DOMAIN x : x[i].time <= m.time}) = c
  PROVE  /\ Len(Insert(x, m)) = Len(x) + 1 /\ Insert(x, m)[c + 1] = m
         /\ \A i \in 1..c : Insert(x, m)[i] = x[i]
         /\ \A i \in (c + 2)..(Len(x) + 1) : Insert(x, m)[i] = x[i - 1]
<1> DEFINE u == SubSeq(x, 1, c)
           v == SubSeq(x, c + 1, Len(x))
<1>1. Len(x) \in Nat /\ c \in Nat /\ c <= Len(x)
  OBVIOUS
<1>2. u \in Seq(Message) /\ Len(u) = c /\ \A i \in 1..c : u[i] = x[i]
  BY <1>1
<1>3. v \in Seq(Message) /\ Len(v) = Len(x) - c /\ \A i \in 1..(Len(x) - c) : v[i] = x[c + i]
  BY <1>1
<1>4. Insert(x, m) = u \o <<m>> \o v
  BY DEF Insert
<1> HIDE DEF u, v
<1> DEFINE w == u \o <<m>>
<1>5. w \in Seq(Message) /\ Len(w) = c + 1 /\ w[c + 1] = m /\ \A i \in 1..c : w[i] = u[i]
  BY <1>1, <1>2
<1> HIDE DEF w
<1> DEFINE z == w \o v
<1>6. /\ Len(z) = Len(x) + 1 /\ \A i \in 1..(c + 1) : z[i] = w[i]
      /\ \A i \in (c + 2)..(Len(x) + 1) : z[i] = v[i - (c + 1)]
  BY <1>1, <1>3, <1>5
<1>7. Insert(x, m) = z
  BY <1>4 DEF w
<1> HIDE DEF z
<1>8. z[c + 1] = m /\ \A i \in 1..c : z[i] = x[i]
  BY <1>1, <1>2, <1>5, <1>6
<1>9. \A i \in (c + 2)..(Len(x) + 1) : z[i] = x[i - 1]
  <2> TAKE i \in (c + 2)..(Len(x) + 1)
  <2>1. i - (c + 1) \in 1..(Len(x) - c) /\ c + (i - (c + 1)) = i - 1
    BY <1>1
  <2> QED
    BY <1>3, <1>6, <2>1
<1> QED
  BY <1>6, <1>7, <1>8, <1>9

LEMMA InsertSorts ==
  ASSUME NEW y \in Seq(Message), NEW n \in 1..Len(y), NEW s, NEW b, Sorts(s, b, y, n - 1)
  PROVE  \E d : Sorts(Insert(s, y[n]), d, y, n)
<1> DEFINE p == n - 1
           m == y[n]
<1>1. /\ s \in Seq(Message) /\ Len(s) = p /\ DOMAIN s = 1..p /\ b \in [1..p -> 1..p]
      /\ p \in Nat /\ n = p + 1 /\ m \in Message /\ Len(y) \in Nat /\ n \in Nat
  BY DEF Sorts
<1>2. /\ \A i \in 1..p : s[i] = y[b[i]]
      /\ \A k \in 1..p : \E i \in 1..p : b[i] = k
      /\ \A i, j \in 1..p : i < j => Prior(y, b[i], b[j])
  BY DEF Sorts
<1>3. m.time \in Nat /\ \A k \in 1..p : y[k].time \in Nat
  <2>1. \A k \in 1..Len(y) : y[k] \in Message
    OBVIOUS
  <2>2. \A k \in 1..p : k \in 1..Len(y)
    BY <1>1
  <2> QED
    BY <1>1, <2>1, <2>2 DEF Message
<1> HIDE DEF p, m
<1>4. \A i, j \in DOMAIN s : i < j => s[i].time <= s[j].time
  <2> TAKE i, j \in DOMAIN s
  <2> HAVE i < j
  <2>1. i \in 1..p /\ j \in 1..p /\ b[i] \in 1..p /\ b[j] \in 1..p
    BY <1>1
  <2>2. Prior(y, b[i], b[j]) /\ s[i] = y[b[i]] /\ s[j] = y[b[j]]
    BY <1>2, <2>1
  <2>3. y[b[i]].time \in Nat /\ y[b[j]].time \in Nat
    BY <1>3, <2>1
  <2> QED
    BY <2>2, <2>3 DEF Prior
<1>5. PICK c \in 0..Len(s) : /\ Cardinality({i \in DOMAIN s : s[i].time <= m.time}) = c
                             /\ \A i \in DOMAIN s : s[i].time <= m.time <=> i <= c
  BY <1>1, <1>3, <1>4, Earlier
<1> DEFINE z == Insert(s, m)
           d == [i \in 1..n |-> IF i <= c THEN b[i] ELSE IF i = c + 1 THEN n ELSE b[i - 1]]
<1>6. /\ Len(z) = n /\ z[c + 1] = m /\ \A i \in 1..c : z[i] = s[i]
      /\ \A i \in (c + 2)..n : z[i] = s[i - 1]
  BY <1>1, <1>5, InsertIs
<1>7. z \in Seq(Message)
  BY <1>1, InsertTyped
<1> HIDE DEF z
<1>8. c \in Nat /\ c <= p
  BY <1>1, <1>5
<1>9. \A i \in 1..n : \/ i \in 1..c /\ i \in 1..p /\ d[i] = b[i] /\ b[i] \in 1..p
                      \/ i = c + 1 /\ d[i] = n
                      \/ i \in (c + 2)..n /\ i - 1 \in 1..p /\ i - 1 > c /\ d[i] = b[i - 1] /\ b[i - 1] \in 1..p
  BY <1>1, <1>8
<1>10. d \in [1..n -> 1..n]
  <2>1. \A i \in 1..n : d[i] \in 1..n
    <3> HIDE DEF d
    <3>1. n \in 1..n /\ \A k \in 1..p : k \in 1..n
      BY <1>1
    <3> QED
      BY <1>9, <3>1
  <2> QED
    BY <2>1
<1>11. \A i \in 1..c : i \in 1..n /\ d[i] = b[i]
  BY <1>1, <1>8
<1>12. c + 1 \in 1..n /\ d[c + 1] = n
  BY <1>1, <1>8
<1>13. \A i \in 1..p : i > c => i + 1 \in 1..n /\ d[i + 1] = b[i]
  BY <1>1, <1>8
<1> HIDE DEF d
<1>14. \A i \in 1..n : z[i] = y[d[i]]
  <2> TAKE i \in 1..n
  <2>1. CASE i \in 1..c /\ i \in 1..p /\ d[i] = b[i]
    BY <1>2, <1>6, <2>1
  <2>2. CASE i = c + 1 /\ d[i] = n
    BY <1>6, <2>2 DEF m
  <2>3. CASE i \in (c + 2)..n /\ i - 1 \in 1..p /\ d[i] = b[i - 1]
    BY <1>2, <1>6, <2>3
  <2> QED
    BY <1>9, <2>1, <2>2, <2>3
<1>15. \A k \in 1..n : \E i \in 1..n : d[i] = k
  <2> TAKE k \in 1..n
  <2>1. CASE k = n
    BY <1>12, <2>1
  <2>2. CASE k # n
    <3>1. k \in 1..p
      BY <1>1, <2>2
    <3>2. PICK i \in 1..p : b[i] = k
      BY <1>2, <3>1
    <3>3. i \in 1..c \/ i > c
      BY <1>8
    <3> QED
      BY <1>11, <1>13, <3>2, <3>3
  <2> QED
    BY <2>1, <2>2
<1>16. \A i, j \in 1..n : i < j => Prior(y, d[i], d[j])
  <2> TAKE i, j \in 1..n
  <2> HAVE i < j
  <2>1. CASE j \in 1..c
    <3>1. i \in 1..c /\ i \in 1..p /\ j \in 1..p
      BY <1>1, <1>8, <2>1
    <3>2. d[i] = b[i] /\ d[j] = b[j]
      BY <1>11, <2>1, <3>1
    <3>3. Prior(y, b[i], b[j])
      BY <1>2, <3>1
    <3> QED
      BY <3>2, <3>3
  <2>2. CASE j = c + 1
    <3>1. i \in 1..c /\ i \in 1..p /\ i <= c /\ d[i] = b[i] /\ b[i] \in 1..p /\ d[j] = n
      <4>1. i \in 1..c /\ i \in 1..p /\ i <= c
        BY <1>1, <1>8, <2>2
      <4>2. b[i] \in 1..p
        BY <1>1, <4>1
      <4> QED
        BY <1>11, <1>12, <2>2, <4>1, <4>2
    <3>2. s[i].time <= m.time
      BY <1>1, <1>5, <3>1
    <3>3. y[b[i]].time <= y[n].time /\ y[n].time \in Nat /\ y[b[i]].time \in Nat
      BY <1>2, <1>3, <3>1, <3>2 DEF m
    <3>4. b[i] < n
      BY <1>1, <3>1
    <3> QED
      BY <3>1, <3>3, <3>4 DEF Prior
  <2>3. CASE j \in (c + 2)..n
    <3>1. j - 1 \in 1..p /\ j - 1 > c /\ d[j] = b[j - 1] /\ b[j - 1] \in 1..p
      <4>1. j - 1 \in 1..p /\ j - 1 > c /\ (j - 1) + 1 = j
        BY <1>1, <1>8, <2>3
      <4>2. d[j] = b[j - 1]
        BY <1>13, <4>1
      <4> QED
        BY <1>1, <4>1, <4>2
    <3>2. CASE i \in 1..c
      <4>1. i \in 1..p /\ i < j - 1
        BY <1>1, <1>8, <3>1, <3>2
      <4>2. d[i] = b[i]
        BY <1>11, <3>2
      <4>3. Prior(y, b[i], b[j - 1])
        BY <1>2, <3>1, <4>1
      <4> QED
        BY <3>1, <4>2, <4>3
    <3>3. CASE i = c + 1
      <4>1. ~(s[j - 1].time <= m.time)
        <5>1. j - 1 \in DOMAIN s /\ ~(j - 1 <= c)
          BY <1>1, <1>8, <3>1
        <5> QED
          BY <1>5, <5>1
      <4>2. y[n].time < y[b[j - 1]].time
        <5>1. s[j - 1] = y[b[j - 1]]
          BY <1>2, <3>1
        <5>2. y[b[j - 1]].time \in Nat
          BY <1>3, <3>1
        <5> QED
          BY <1>3, <4>1, <5>1, <5>2 DEF m
      <4> QED
        BY <1>12, <3>1, <3>3, <4>2 DEF Prior
    <3>4. CASE i \in (c + 2)..n
      <4>1. i - 1 \in 1..p /\ i - 1 > c /\ (i - 1) + 1 = i
        BY <1>1, <1>8, <3>4
      <4>2. i - 1 < j - 1
        BY <1>1
      <4>3. d[i] = b[i - 1]
        BY <1>13, <4>1
      <4>4. Prior(y, b[i - 1], b[j - 1])
        BY <1>2, <3>1, <4>1, <4>2
      <4> QED
        BY <3>1, <4>3, <4>4
    <3>5. i \in 1..c \/ i = c + 1 \/ i \in (c + 2)..n
      BY <1>1, <1>8
    <3> QED
      BY <3>2, <3>3, <3>4, <3>5
  <2> QED
    BY <1>8, <2>1, <2>2, <2>3
<1>17. Sorts(z, d, y, n)
  BY <1>6, <1>7, <1>10, <1>14, <1>15, <1>16 DEF Sorts
<1> QED
  BY <1>17 DEF z, m

LEMMA InOrderSorts ==
  ASSUME NEW y \in Seq(Message)
  PROVE  \E b : Sorts(InOrder(y), b, y, Len(y))
<1> DEFINE S == Seq(Message)
<1>1. Len(y) \in Nat /\ <<>> \in S /\ \A n \in 1..Len(y) : y[n] \in Message
  OBVIOUS
<1>2. \A x \in S, n \in 1..Len(y) : Insert(x, y[n]) \in S
  BY <1>1, InsertTyped
<1> HIDE DEF S
<1>3. PICK f : InOrderRun(f, S, y)
  BY <1>1, <1>2, InOrderSteps
<1>4. f[0] = <<>> /\ InOrder(y) = f[Len(y)] /\ \A n \in 1..Len(y) : f[n] = Insert(f[n - 1], y[n])
  BY <1>3 DEF InOrderRun
<1> DEFINE G == {n \in 0..Len(y) : \E b : Sorts(f[n], b, y, n)}
<1>5. 0 \in G
  <2> DEFINE b == [i \in 1..0 |-> i]
  <2>1. <<>> \in Seq(Message) /\ Len(<<>>) = 0 /\ b \in [1..0 -> 1..0] /\ \A i \in 1..0 : FALSE
    OBVIOUS
  <2> HIDE DEF b
  <2>2. Sorts(<<>>, b, y, 0)
    BY <2>1 DEF Sorts
  <2> QED
    BY <1>1, <1>4, <2>2
<1>6. ASSUME NEW n \in 1..Len(y), n - 1 \in G
      PROVE  n \in G
  <2>1. PICK b : Sorts(f[n - 1], b, y, n - 1)
    BY <1>6
  <2>2. \E d : Sorts(Insert(f[n - 1], y[n]), d, y, n)
    BY <2>1, InsertSorts
  <2>3. n \in 0..Len(y) /\ f[n] = Insert(f[n - 1], y[n])
    BY <1>1, <1>4
  <2> QED
    BY <2>2, <2>3
<1> HIDE DEF G
<1>7. \A n \in 1..Len(y) : n - 1 \in G => n \in G
  BY <1>6
<1>8. 0..Len(y) \subseteq G
  BY <1>1, <1>5, <1>7, UpTo
<1>9. Len(y) \in G
  BY <1>1, <1>8
<1> QED
  BY <1>4, <1>9 DEF G

-----------------------------------------------------------------------------
(* What is left of them                                                    *)

\* A reply comes right after its prompt.
LEMMA ReplyFollows ==
  ASSUME NEW r, Recounted(r), NEW n \in DOMAIN r, r[n].role = "assistant"
  PROVE  n - 1 \in DOMAIN r /\ r[n - 1].role = "user"
<1>1. DOMAIN r = 1..Len(r) /\ Len(r) \in Nat
  BY DEF Recounted
<1> DEFINE v == Speaker(r[n])
           u == [role |-> "user", turn |-> v.turn]
<1>2. v \in Voiced /\ v.role = "assistant"
  BY DEF Recounted, Speaker
<1>3. u \in Voiced /\ u.role = "user" /\ u.turn = v.turn
  BY <1>2 DEF Voiced, Utterance
<1> HIDE DEF u
<1>4. PICK k \in DOMAIN r : Speaker(r[k]) = u
  BY <1>3 DEF Recounted
<1>5. \A i \in DOMAIN r : Speaker(r[i]) \in Utterance
  BY DEF Recounted, Voiced
<1>6. \A i \in DOMAIN r : Number(Speaker(r[i])) \in Nat
  BY <1>5, NumberIs
<1>7. /\ Number(v) = 2 * v.turn + 1 /\ Number(u) = 2 * v.turn /\ v.turn \in Nat
  BY <1>2, <1>3, NumberIs DEF Voiced
<1>8. \A i, j \in DOMAIN r : i < j => Number(Speaker(r[i])) < Number(Speaker(r[j]))
  BY DEF Recounted
<1>9. k < n
  <2>1. ~(n < k)
    BY <1>4, <1>7, <1>8
  <2>2. k # n
    BY <1>4, <1>7
  <2> QED
    BY <1>1, <2>1, <2>2
<1>10. n - 1 \in DOMAIN r /\ n - 1 < n /\ (k = n - 1 \/ k < n - 1)
  BY <1>1, <1>9
<1>11. Number(Speaker(r[n - 1])) < Number(v) /\ (k = n - 1 \/ Number(u) < Number(Speaker(r[n - 1])))
  BY <1>4, <1>8, <1>10
<1>12. k = n - 1
  BY <1>6, <1>7, <1>10, <1>11
<1>13. Speaker(r[k]).role = r[k].role
  BY DEF Speaker
<1> QED
  BY <1>3, <1>4, <1>10, <1>12, <1>13

\* Two messages of the records have nothing in common.
LEMMA MessagesDiffer ==
  ASSUME NEW r, Recounted(r), NEW y, Merged(y, r),
         NEW i \in 1..Len(r), NEW j \in 1..Len(r), i < j
  PROVE  /\ y[i].id # y[j].id
         /\ ~(y[i].role = y[j].role /\ y[i].turn = y[j].turn)
         /\ ~(y[i].client /\ y[j].client /\ y[i].turn = y[j].turn)
<1>1. DOMAIN r = 1..Len(r) /\ Len(r) \in Nat /\ Len(r) <= Len(y) /\ DOMAIN y = 1..Len(y) /\ Len(y) \in Nat
  BY DEF Recounted, Merged
<1>2. Speaker(r[i]) # Speaker(r[j])
  <2>1. Number(Speaker(r[i])) < Number(Speaker(r[j])) /\ Speaker(r[i]) \in Utterance
    BY <1>1 DEF Recounted, Voiced
  <2>2. Number(Speaker(r[i])) \in Nat
    BY <2>1, NumberIs
  <2> QED
    BY <2>1, <2>2
<1>3. ~(y[i].role = y[j].role /\ y[i].turn = y[j].turn)
  BY <1>2 DEF Merged, Speaker
<1>4. i \in DOMAIN y /\ j \in DOMAIN y
  BY <1>1
<1>5. ~(y[i].client /\ y[j].client /\ y[i].turn = y[j].turn)
  BY <1>3, <1>4 DEF Merged
<1>6. /\ y[i].id = <<"line", i>> \/ (y[i].role = "user" /\ y[i].id = <<"user", y[i].turn>>)
      /\ y[j].id = <<"line", j>> \/ (y[j].role = "user" /\ y[j].id = <<"user", y[j].turn>>)
  BY DEF Merged
<1>7. y[i].id # y[j].id
  BY <1>3, <1>6
<1> QED
  BY <1>3, <1>5, <1>7

\* Of the first n messages x is kept, and what it says is h.
Kept(x, h, y, r, n) ==
  /\ x \in Seq(Message) /\ h \in Seq(Pair) /\ Len(h) = Len(x)
  /\ \A i \in DOMAIN x : <<x[i].role, x[i].text>> = h[i]
  /\ \A i \in DOMAIN x : \E j \in 1..n : x[i] = y[j]
  /\ n # 0 => Len(x) # 0 /\ h[Len(h)] = <<r[n].role, r[n].text>>
  /\ \A j \in 1..n : y[j].role = "assistant" =>
       \E i \in DOMAIN x : x[i].role = "assistant" /\ x[i].turn = y[j].turn /\ x[i].text = y[j].text

\* Only a prompt said twice in a row is the same message.
LEMMA SameRepeats ==
  ASSUME NEW r, Recounted(r), NEW y, Merged(y, r), NEW n \in 1..Len(r),
         NEW x, NEW h, Kept(x, h, y, r, n - 1), NEW i \in DOMAIN x
  PROVE  Same(x, i, y[n]) <=> Repeats(x, i, y[n])
<1>1. PICK j \in 1..(n - 1) : x[i] = y[j]
  BY DEF Kept
<1>2. Len(r) \in Nat
  BY DEF Recounted
<1>3. j \in 1..Len(r) /\ j < n
  BY <1>2
<1>4. /\ x[i].id # y[n].id
      /\ ~(x[i].role = y[n].role /\ x[i].turn = y[n].turn)
      /\ ~(x[i].client /\ y[n].client /\ x[i].turn = y[n].turn)
  BY <1>1, <1>3, MessagesDiffer
<1> QED
  BY <1>4 DEF Same

LEMMA KeptStep ==
  ASSUME NEW r, Recounted(r), NEW y, Merged(y, r), NEW n \in 1..Len(r),
         NEW x, NEW h, Kept(x, h, y, r, n - 1)
  PROVE  Kept(Keep(x, y[n]), Heard(h, <<r[n].role, r[n].text>>), y, r, n)
<1> DEFINE m == y[n]
           c == <<r[n].role, r[n].text>>
           S == {i \in DOMAIN x : Same(x, i, m)}
           first == CHOOSE i \in S : \A j \in S : i <= j
           z == [x EXCEPT ![first] = m]
<1>1. /\ r \in Seq(Record) /\ DOMAIN r = 1..Len(r) /\ Len(r) \in Nat /\ n \in Nat /\ n # 0
      /\ y \in Seq(Message) /\ Len(r) <= Len(y) /\ DOMAIN y = 1..Len(y) /\ Len(y) \in Nat
  BY DEF Recounted, Merged
<1>2. m \in Message /\ m.role = r[n].role /\ m.text = r[n].text
  BY <1>1 DEF Merged
<1>3. c \in Pair
  <2>1. r[n] \in Record
    BY <1>1
  <2> QED
    BY <2>1 DEF Record, Pair
<1>4. /\ x \in Seq(Message) /\ DOMAIN x = 1..Len(x) /\ Len(x) \in Nat
      /\ h \in Seq(Pair) /\ Len(h) = Len(x) /\ DOMAIN h = 1..Len(x)
      /\ \A i \in DOMAIN x : <<x[i].role, x[i].text>> = h[i]
  BY DEF Kept
<1>5. /\ S = {} => Keep(x, m) = Append(x, m)
      /\ S # {} => Keep(x, m) = z \/ Keep(x, m) = x
  BY DEF Keep
<1>6. \A i \in DOMAIN x : Same(x, i, m) <=> Repeats(x, i, m)
  BY SameRepeats
<1>7. \A i \in DOMAIN x : Repeats(x, i, m) <=>
        i = Len(x) /\ x[i].role = "user" /\ m.role = "user" /\ x[i].text = m.text
  BY DEF Repeats
<1>8. /\ \A i \in DOMAIN x : \E j \in 1..n : x[i] = y[j]
      /\ \A j \in 1..(n - 1) : y[j].role = "assistant" =>
           \E i \in DOMAIN x : x[i].role = "assistant" /\ x[i].turn = y[j].turn /\ x[i].text = y[j].text
      /\ n - 1 # 0 => h[Len(h)] = <<r[n - 1].role, r[n - 1].text>>
      /\ n - 1 = 0 => Len(x) = 0
  <2>1. \A i \in DOMAIN x : \E j \in 1..(n - 1) : x[i] = y[j]
    BY DEF Kept
  <2>2. \A j \in 1..(n - 1) : j \in 1..n
    BY <1>1
  <2>3. n - 1 = 0 => Len(x) = 0
    BY <1>1, <1>4, <2>1
  <2> QED
    BY <2>1, <2>2, <2>3 DEF Kept
<1>9. \A j \in 1..n : j \in 1..(n - 1) \/ j = n
  BY <1>1
<1>10. n \in 1..n
  BY <1>1
<1> HIDE DEF c, first
<1>11. CASE Len(x) # 0 /\ Repeats(x, Len(x), m)
  <2>1. Len(x) \in DOMAIN x /\ x[Len(x)].role = "user" /\ m.role = "user" /\ x[Len(x)].text = m.text
    BY <1>4, <1>7, <1>11
  <2>2. S = {Len(x)}
    BY <1>6, <1>7, <2>1
  <2>3. first = Len(x)
    BY <1>4, <2>2 DEF first
  <2>4. h[Len(h)] = c /\ Len(h) # 0
    BY <1>2, <1>4, <1>11, <2>1 DEF c
  <2>5. Heard(h, c) = h
    <3>1. h # <<>>
      BY <2>4
    <3> QED
      BY <2>4, <3>1 DEF Heard
  <2>6. CASE Keep(x, m) = x
    <3>1. \A j \in 1..n : y[j].role = "assistant" =>
            \E i \in DOMAIN x : x[i].role = "assistant" /\ x[i].turn = y[j].turn /\ x[i].text = y[j].text
      BY <1>8, <1>9, <2>1
    <3>2. h[Len(h)] = <<r[n].role, r[n].text>> /\ Heard(h, <<r[n].role, r[n].text>>) = h
      BY <2>4, <2>5 DEF c
    <3>3. Kept(x, h, y, r, n)
      BY <1>4, <1>8, <1>11, <3>1, <3>2 DEF Kept
    <3> QED
      BY <2>6, <3>2, <3>3
  <2>7. CASE Keep(x, m) = z
    <3>1. z \in Seq(Message)
      <4>1. Keep(x, m) \in Seq(Message)
        BY <1>2, <1>4, KeepTyped
      <4> QED
        BY <2>7, <4>1
    <3>2. /\ DOMAIN z = DOMAIN x /\ z[Len(x)] = m /\ \A i \in DOMAIN x : i # Len(x) => z[i] = x[i]
      BY <1>4, <2>1, <2>3
    <3> HIDE DEF z
    <3>3. Len(z) = Len(x)
      BY <1>4, <3>1, <3>2
    <3>4. \A i \in DOMAIN z : <<z[i].role, z[i].text>> = h[i]
      <4> TAKE i \in DOMAIN z
      <4>1. CASE i = Len(x)
        BY <1>2, <1>4, <2>4, <3>2, <4>1 DEF c
      <4>2. CASE i # Len(x)
        BY <1>4, <3>2, <4>2
      <4> QED
        BY <4>1, <4>2
    <3>5. \A i \in DOMAIN z : \E j \in 1..n : z[i] = y[j]
      BY <1>8, <1>10, <3>2
    <3>6. \A j \in 1..n : y[j].role = "assistant" =>
            \E i \in DOMAIN z : z[i].role = "assistant" /\ z[i].turn = y[j].turn /\ z[i].text = y[j].text
      <4> TAKE j \in 1..n
      <4> HAVE y[j].role = "assistant"
      <4>1. j \in 1..(n - 1)
        BY <1>9, <2>1
      <4>2. PICK i \in DOMAIN x : x[i].role = "assistant" /\ x[i].turn = y[j].turn /\ x[i].text = y[j].text
        BY <1>8, <4>1
      <4>3. i # Len(x)
        BY <2>1, <4>2
      <4> QED
        BY <3>2, <4>2, <4>3
    <3>7. h[Len(h)] = <<r[n].role, r[n].text>> /\ Heard(h, <<r[n].role, r[n].text>>) = h
      BY <2>4, <2>5 DEF c
    <3>8. Len(z) # 0 /\ Len(h) = Len(z) /\ h \in Seq(Pair)
      BY <1>4, <1>11, <3>3
    <3>9. Kept(z, h, y, r, n)
      BY <3>1, <3>4, <3>5, <3>6, <3>7, <3>8 DEF Kept
    <3> QED
      BY <2>7, <3>7, <3>9
  <2> QED
    BY <1>5, <2>2, <2>6, <2>7
<1>12. CASE ~(Len(x) # 0 /\ Repeats(x, Len(x), m))
  <2>1. S = {}
    <3> SUFFICES ASSUME NEW i \in DOMAIN x, Same(x, i, m) PROVE FALSE
      OBVIOUS
    <3>1. Repeats(x, i, m) /\ i = Len(x)
      BY <1>6, <1>7
    <3> QED
      BY <1>4, <1>12, <3>1
  <2>2. ~(Len(h) # 0 /\ h[Len(h)] = c)
    <3> SUFFICES ASSUME Len(h) # 0, h[Len(h)] = c PROVE FALSE
      OBVIOUS
    <3>1. Len(x) \in DOMAIN x /\ <<x[Len(x)].role, x[Len(x)].text>> = <<r[n].role, r[n].text>>
      BY <1>4 DEF c
    <3>2. x[Len(x)].role = m.role /\ x[Len(x)].text = m.text
      BY <1>2, <3>1
    <3>3. n - 1 # 0 /\ <<r[n - 1].role, r[n - 1].text>> = <<r[n].role, r[n].text>>
      BY <1>4, <1>8 DEF c
    <3>4. r[n - 1].role = r[n].role
      BY <3>3
    <3>5. CASE m.role = "user"
      BY <1>4, <1>7, <1>12, <3>1, <3>2, <3>5
    <3>6. CASE m.role = "assistant"
      <4>1. n \in DOMAIN r /\ r[n].role = "assistant"
        BY <1>1, <1>2, <3>6
      <4>2. r[n - 1].role = "user"
        BY <4>1, ReplyFollows
      <4> QED
        BY <3>4, <4>1, <4>2
    <3> QED
      BY <1>2, <3>5, <3>6, MessageFields
  <2> DEFINE a == Append(x, m)
             b == Append(h, c)
  <2>3. Keep(x, m) = a /\ Heard(h, c) = b
    <3>1. h # <<>> => Len(h) # 0
      BY <1>4
    <3>2. Heard(h, c) = b
      BY <2>2, <3>1 DEF Heard
    <3> QED
      BY <1>5, <2>1, <3>2
  <2>4. /\ a \in Seq(Message) /\ Len(a) = Len(x) + 1 /\ DOMAIN a = 1..(Len(x) + 1) /\ a[Len(x) + 1] = m
        /\ \A i \in DOMAIN x : a[i] = x[i]
        /\ \A i \in DOMAIN a : i \in DOMAIN x \/ i = Len(x) + 1
    BY <1>2, <1>4
  <2>5. /\ b \in Seq(Pair) /\ Len(b) = Len(x) + 1 /\ b[Len(x) + 1] = c /\ \A i \in DOMAIN x : b[i] = h[i]
    BY <1>3, <1>4
  <2> HIDE DEF a, b
  <2>6. \A i \in DOMAIN a : <<a[i].role, a[i].text>> = b[i]
    <3> TAKE i \in DOMAIN a
    <3>1. CASE i \in DOMAIN x
      BY <1>4, <2>4, <2>5, <3>1
    <3>2. CASE i = Len(x) + 1
      BY <1>2, <2>4, <2>5, <3>2 DEF c
    <3> QED
      BY <2>4, <3>1, <3>2
  <2>7. \A i \in DOMAIN a : \E j \in 1..n : a[i] = y[j]
    BY <1>8, <1>10, <2>4
  <2>8. \A j \in 1..n : y[j].role = "assistant" =>
          \E i \in DOMAIN a : a[i].role = "assistant" /\ a[i].turn = y[j].turn /\ a[i].text = y[j].text
    <3> TAKE j \in 1..n
    <3> HAVE y[j].role = "assistant"
    <3>1. CASE j \in 1..(n - 1)
      <4>1. PICK i \in DOMAIN x : x[i].role = "assistant" /\ x[i].turn = y[j].turn /\ x[i].text = y[j].text
        BY <1>8, <3>1
      <4>2. i \in DOMAIN a
        BY <1>4, <2>4
      <4> QED
        BY <2>4, <4>1, <4>2
    <3>2. CASE j = n
      <4>1. Len(x) + 1 \in DOMAIN a
        BY <1>4, <2>4
      <4> QED
        BY <2>4, <3>2, <4>1
    <3> QED
      BY <1>9, <3>1, <3>2
  <2>9. Len(a) # 0 /\ Len(a) = Len(b) /\ b[Len(b)] = <<r[n].role, r[n].text>>
    BY <1>4, <2>4, <2>5 DEF c
  <2> QED
    BY <2>3, <2>4, <2>5, <2>6, <2>7, <2>8, <2>9 DEF Kept, c
<1> QED
  BY <1>11, <1>12

\* A reply the first a records have already is dropped.
LEMMA ReplyDropped ==
  ASSUME NEW r, Recounted(r), NEW y, Merged(y, r), NEW n \in DOMAIN y, n > Len(r),
         NEW a \in 0..Len(r), NEW k \in 1..a, Speaker(r[k]) = Speaker(y[n]),
         NEW x, NEW h, Kept(x, h, y, r, a)
  PROVE  Keep(x, y[n]) = x
<1> DEFINE m == y[n]
           S == {i \in DOMAIN x : Same(x, i, m)}
<1>1. /\ m.role = "assistant" /\ Speaker(m) \in Voiced /\ m.text = "reply" /\ ~m.client
      /\ y \in Seq(Message) /\ Len(r) \in Nat /\ DOMAIN r = 1..Len(r) /\ k \in DOMAIN r
  BY DEF Merged, Recounted
<1>2. r[k].role = "assistant" /\ r[k].turn = m.turn
  BY <1>1 DEF Speaker
<1>3. r[k].text = "reply"
  <2>1. Speaker(r[k]) \in Voiced /\ <<r[k].role, r[k].text>> = Utter(Speaker(r[k]))
    BY <1>1 DEF Recounted
  <2> QED
    BY <1>2, <2>1, SpeakerIs
<1>4. y[k].role = "assistant" /\ y[k].turn = m.turn /\ y[k].text = m.text
  BY <1>1, <1>2, <1>3 DEF Merged
<1>5. PICK i \in DOMAIN x : x[i].role = "assistant" /\ x[i].turn = y[k].turn /\ x[i].text = y[k].text
  BY <1>4 DEF Kept
<1>6. m.turn # 0
  <2>1. m.turn \in Turn
    BY <1>1 DEF Speaker, Voiced, Utterance
  <2> QED
    BY <2>1, TurnNumbers
<1>7. Same(x, i, m)
  BY <1>1, <1>4, <1>5, <1>6 DEF Same
<1>8. S # {}
  BY <1>7
<1> HIDE DEF m
<1> QED
  BY <1>1, <1>8 DEF Keep, m

\* Of the first n sorted messages, the records are the first a.
Passed(b, r, n, a) ==
  /\ a \in 0..Len(r)
  /\ \A i \in 1..n : b[i] <= Len(r) => b[i] <= a
  /\ \A k \in 1..a : \E i \in 1..n : b[i] = k

\* The next of the sorted messages is the next record, or a reply recorded before.
LEMMA NextInOrder ==
  ASSUME NEW r, Recounted(r), NEW y, Merged(y, r), NEW s, NEW b, Sorts(s, b, y, Len(y)),
         NEW n \in 1..Len(y), NEW a, Passed(b, r, n - 1, a)
  PROVE  \/ b[n] = a + 1 /\ a + 1 \in 1..Len(r) /\ Passed(b, r, n, a + 1)
         \/ /\ b[n] \in DOMAIN y /\ b[n] > Len(r) /\ Passed(b, r, n, a)
            /\ \E k \in 1..a : Speaker(r[k]) = Speaker(y[b[n]])
<1> DEFINE l == Len(y)
           q == Len(r)
<1>1. /\ l \in Nat /\ DOMAIN y = 1..l /\ q \in Nat /\ DOMAIN r = 1..q /\ q <= l /\ y \in Seq(Message)
  BY DEF Merged, Recounted
<1>2. /\ b \in [1..l -> 1..l] /\ \A k \in 1..l : \E i \in 1..l : b[i] = k
      /\ \A i, j \in 1..l : i < j => Prior(y, b[i], b[j])
  BY DEF Sorts
<1>3. /\ a \in 0..q /\ \A i \in 1..(n - 1) : b[i] <= q => b[i] <= a
      /\ \A k \in 1..a : \E i \in 1..(n - 1) : b[i] = k
  BY DEF Passed
<1>4. \A k \in 1..l : y[k].time \in Nat
  <2>1. \A k \in 1..l : y[k] \in Message
    BY <1>1
  <2> QED
    BY <2>1 DEF Message
<1>5. \A k \in 1..q : y[k].time = r[k].time
  BY DEF Merged
<1>6. \A k, j \in 1..q : k < j => r[k].time < r[j].time
  BY <1>1 DEF Recounted
<1>7. n \in 1..l /\ b[n] \in 1..l /\ n \in Nat /\ \A i \in 1..(n - 1) : i \in 1..l /\ i < n
  <2>1. n \in 1..l /\ n \in Nat
    BY <1>1
  <2>2. \A i \in 1..(n - 1) : i \in 1..l /\ i < n
    BY <1>1, <2>1
  <2> QED
    BY <1>2, <2>1, <2>2
<1>8. \A i \in 1..n : i \in 1..(n - 1) \/ i = n
  BY <1>7
<1> HIDE DEF l, q
<1>9. \A i, j \in 1..l : i < j => b[i] # b[j]
  <2> TAKE i, j \in 1..l
  <2> HAVE i < j
  <2>1. Prior(y, b[i], b[j]) /\ b[i] \in 1..l
    BY <1>2
  <2>2. y[b[i]].time \in Nat /\ b[i] \in Nat
    BY <1>1, <1>4, <2>1
  <2> QED
    BY <2>1, <2>2 DEF Prior
<1>10. CASE b[n] <= q
  <2>1. b[n] > a
    <3> SUFFICES ASSUME ~(b[n] > a) PROVE FALSE
      OBVIOUS
    <3>1. b[n] \in 1..a
      BY <1>1, <1>3, <1>7
    <3>2. PICK i \in 1..(n - 1) : b[i] = b[n]
      BY <1>3, <3>1
    <3> QED
      BY <1>7, <1>9, <3>2
  <2>2. a + 1 \in 1..q /\ a + 1 \in 1..l /\ b[n] \in 1..q
    BY <1>1, <1>3, <1>7, <1>10, <2>1
  <2>3. b[n] = a + 1
    <3> SUFFICES ASSUME b[n] # a + 1 PROVE FALSE
      OBVIOUS
    <3>1. a + 1 < b[n]
      BY <1>1, <1>3, <2>1, <2>2
    <3>2. PICK i \in 1..l : b[i] = a + 1
      BY <1>2, <2>2
    <3>3. i \notin 1..(n - 1)
      BY <1>3, <2>2, <3>2
    <3>4. n < i
      BY <1>1, <1>7, <3>2, <3>3
    <3>5. Prior(y, b[n], a + 1)
      BY <1>2, <1>7, <3>2, <3>4
    <3>6. r[a + 1].time < r[b[n]].time
      BY <1>6, <2>2, <3>1
    <3>7. y[a + 1].time < y[b[n]].time /\ y[a + 1].time \in Nat /\ y[b[n]].time \in Nat
      BY <1>4, <1>5, <1>7, <2>2, <3>6
    <3> QED
      BY <3>5, <3>7 DEF Prior
  <2>4. Passed(b, r, n, a + 1)
    <3>1. a + 1 \in 0..q
      BY <2>2
    <3>2. \A i \in 1..n : b[i] <= q => b[i] <= a + 1
      <4> TAKE i \in 1..n
      <4> HAVE b[i] <= q
      <4>1. CASE i = n
        BY <2>2, <2>3, <4>1
      <4>2. CASE i \in 1..(n - 1)
        <5>1. b[i] <= a /\ b[i] \in Nat /\ a \in Nat
          BY <1>1, <1>2, <1>3, <1>7, <4>2
        <5> QED
          BY <5>1
      <4> QED
        BY <1>8, <4>1, <4>2
    <3>3. \A k \in 1..(a + 1) : \E i \in 1..n : b[i] = k
      <4> TAKE k \in 1..(a + 1)
      <4>1. CASE k = a + 1
        <5>1. n \in 1..n
          BY <1>7
        <5> QED
          BY <2>3, <4>1, <5>1
      <4>2. CASE k # a + 1
        <5>1. k \in 1..a
          BY <1>3, <4>2
        <5>2. PICK i \in 1..(n - 1) : b[i] = k
          BY <1>3, <5>1
        <5>3. i \in 1..n
          BY <1>7
        <5> QED
          BY <5>2, <5>3
      <4> QED
        BY <4>1, <4>2
    <3> QED
      BY <3>1, <3>2, <3>3 DEF Passed, q
  <2> QED
    BY <2>2, <2>3, <2>4 DEF q
<1>11. CASE ~(b[n] <= q)
  <2>1. b[n] > q /\ b[n] \in DOMAIN y
    BY <1>1, <1>7, <1>11
  <2>2. Follows(y[b[n]], r)
    BY <2>1 DEF Merged, q
  <2>3. PICK k \in 1..q : Speaker(r[k]) = Speaker(y[b[n]]) /\ r[k].time <= y[b[n]].time
    BY <1>1, <2>2 DEF Follows
  <2>4. k \in 1..l /\ k < b[n] /\ y[k].time <= y[b[n]].time
    BY <1>1, <1>5, <2>1, <2>3
  <2>5. PICK i \in 1..l : b[i] = k
    BY <1>2, <2>4
  <2>6. ~(n < i)
    <3> SUFFICES ASSUME n < i PROVE FALSE
      OBVIOUS
    <3>1. Prior(y, b[n], k)
      BY <1>2, <1>7, <2>5
    <3>2. y[k].time \in Nat /\ y[b[n]].time \in Nat /\ k \in Nat /\ b[n] \in Nat
      BY <1>1, <1>4, <1>7, <2>4
    <3> QED
      BY <2>4, <3>1, <3>2 DEF Prior
  <2>7. i # n
    BY <1>1, <2>4, <2>5
  <2>8. i \in 1..(n - 1)
    BY <1>1, <1>7, <2>5, <2>6, <2>7
  <2>9. b[i] <= q
    BY <1>1, <2>3, <2>5
  <2>10. k \in 1..a
    <3>1. k <= a
      BY <1>3, <2>5, <2>8, <2>9
    <3>2. a \in Nat /\ k \in Nat /\ k >= 1
      BY <1>1, <1>3, <2>3
    <3> QED
      BY <3>1, <3>2
  <2>11. Passed(b, r, n, a)
    <3>1. \A j \in 1..n : b[j] <= q => b[j] <= a
      BY <1>3, <1>8, <1>11
    <3>2. \A j \in 1..a : \E o \in 1..n : b[o] = j
      <4> TAKE j \in 1..a
      <4>1. PICK o \in 1..(n - 1) : b[o] = j
        BY <1>3
      <4>2. o \in 1..n
        BY <1>7
      <4> QED
        BY <4>1, <4>2
    <3> QED
      BY <1>3, <3>1, <3>2 DEF Passed, q
  <2> QED
    BY <2>1, <2>3, <2>10, <2>11 DEF q
<1> QED
  BY <1>10, <1>11

(* What dedupeMessages leaves of the details is the conversation, message  *)
(* by message: sorted, the records are in their order, and a reply of the  *)
(* thread comes after its record.                                          *)
LEMMA DedupeSays ==
  ASSUME HistoryInv, Flushed, NEW r, Recounted(r), NEW y, Merged(y, r)
  PROVE  \E x, h : /\ Dedupe(y) = x /\ Conversation = h /\ Kept(x, h, y, r, Len(r))
<1> DEFINE s == InOrder(y)
<1>1. /\ TurnsInv /\ y \in Seq(Message) /\ r \in Seq(Record)
      /\ Len(y) \in Nat /\ DOMAIN y = 1..Len(y) /\ Len(r) \in Nat /\ DOMAIN r = 1..Len(r) /\ Len(r) <= Len(y)
  BY DEF HistoryInv, Merged, Recounted
<1>2. Spoken \in Seq(Pair) /\ Len(Spoken) = Len(r) /\ \A k \in 1..Len(r) : Spoken[k] = <<r[k].role, r[k].text>>
  BY <1>1, SpokenIs, SpokenRecounted
<1>3. PICK b : Sorts(s, b, y, Len(y))
  BY <1>1, InOrderSorts
<1>4. /\ s \in Seq(Message) /\ Len(s) = Len(y) /\ b \in [1..Len(y) -> 1..Len(y)]
      /\ \A i \in 1..Len(y) : s[i] = y[b[i]]
      /\ \A k \in 1..Len(y) : \E i \in 1..Len(y) : b[i] = k
  BY <1>3 DEF Sorts
<1> DEFINE S == Seq(Message)
           T == Seq(Pair)
<1>5. <<>> \in S /\ <<>> \in T
  OBVIOUS
<1>6. \A x \in S, n \in 1..Len(InOrder(y)) : Keep(x, InOrder(y)[n]) \in S
  <2>1. \A n \in 1..Len(s) : s[n] \in Message
    BY <1>4
  <2> QED
    BY <2>1, KeepTyped
<1>7. \A x \in T, n \in 1..Len(Spoken) : Heard(x, Spoken[n]) \in T
  <2>1. \A n \in 1..Len(Spoken) : Spoken[n] \in Pair
    BY <1>2
  <2>2. \A x \in T, c \in Pair : Append(x, c) \in T
    OBVIOUS
  <2> QED
    BY <2>1, <2>2 DEF Heard
<1> HIDE DEF S, T
<1>8. PICK f : DedupeRun(f, S, y)
  BY <1>1, <1>4, <1>5, <1>6, DedupeSteps
<1>9. PICK g : HeardRun(g, T)
  BY <1>1, <1>2, <1>5, <1>7, HeardSteps
<1>10. /\ f[0] = <<>> /\ Dedupe(y) = f[Len(y)] /\ \A n \in 1..Len(y) : f[n] = Keep(f[n - 1], y[b[n]])
  BY <1>4, <1>8 DEF DedupeRun
<1>11. /\ g[0] = <<>> /\ Conversation = g[Len(r)]
       /\ \A n \in 1..Len(r) : g[n] = Heard(g[n - 1], <<r[n].role, r[n].text>>)
  BY <1>2, <1>9 DEF HeardRun
<1> HIDE DEF s
<1> DEFINE G == {n \in 0..Len(y) : \E a : Passed(b, r, n, a) /\ Kept(f[n], g[a], y, r, a)}
<1>12. 0 \in G
  <2>1. Kept(<<>>, <<>>, y, r, 0)
    <3>1. <<>> \in Seq(Message) /\ <<>> \in Seq(Pair) /\ DOMAIN <<>> = {} /\ \A j \in 1..0 : FALSE
      OBVIOUS
    <3> QED
      BY <3>1 DEF Kept
  <2>2. Passed(b, r, 0, 0)
    BY <1>1 DEF Passed
  <2> QED
    BY <1>1, <1>10, <1>11, <2>1, <2>2
<1>13. ASSUME NEW n \in 1..Len(y), n - 1 \in G
       PROVE  n \in G
  <2>1. PICK a : Passed(b, r, n - 1, a) /\ Kept(f[n - 1], g[a], y, r, a)
    BY <1>13
  <2>2. n \in 0..Len(y) /\ f[n] = Keep(f[n - 1], y[b[n]]) /\ a \in 0..Len(r)
    BY <1>1, <1>10, <2>1 DEF Passed
  <2>3. CASE b[n] = a + 1 /\ a + 1 \in 1..Len(r) /\ Passed(b, r, n, a + 1)
    <3>1. (a + 1) - 1 = a /\ g[a + 1] = Heard(g[a], <<r[a + 1].role, r[a + 1].text>>)
      BY <1>1, <1>11, <2>2, <2>3
    <3>2. Kept(Keep(f[n - 1], y[a + 1]), Heard(g[a], <<r[a + 1].role, r[a + 1].text>>), y, r, a + 1)
      BY <2>1, <2>3, <3>1, KeptStep
    <3>3. Kept(f[n], g[a + 1], y, r, a + 1)
      BY <2>2, <2>3, <3>1, <3>2
    <3> QED
      BY <2>2, <2>3, <3>3
  <2>4. CASE /\ b[n] \in DOMAIN y /\ b[n] > Len(r) /\ Passed(b, r, n, a)
             /\ \E k \in 1..a : Speaker(r[k]) = Speaker(y[b[n]])
    <3>1. Keep(f[n - 1], y[b[n]]) = f[n - 1]
      BY <2>1, <2>2, <2>4, ReplyDropped
    <3> QED
      BY <2>1, <2>2, <2>4, <3>1
  <2> QED
    BY <1>3, <2>1, <2>3, <2>4, NextInOrder
<1> HIDE DEF G
<1>14. \A n \in 1..Len(y) : n - 1 \in G => n \in G
  BY <1>13
<1>15. 0..Len(y) \subseteq G
  BY <1>1, <1>12, <1>14, UpTo
<1>16. Len(y) \in G
  BY <1>1, <1>15
<1>17. PICK a : Passed(b, r, Len(y), a) /\ Kept(f[Len(y)], g[a], y, r, a)
  BY <1>16 DEF G
<1>18. a = Len(r)
  <2>1. a \in 0..Len(r) /\ \A i \in 1..Len(y) : b[i] <= Len(r) => b[i] <= a
    BY <1>17 DEF Passed
  <2>2. CASE Len(r) = 0
    BY <1>1, <2>1, <2>2
  <2>3. CASE Len(r) # 0
    <3>1. Len(r) \in 1..Len(y)
      BY <1>1, <2>3
    <3>2. PICK i \in 1..Len(y) : b[i] = Len(r)
      BY <1>4, <3>1
    <3>3. Len(r) <= a
      BY <1>1, <2>1, <3>2
    <3>4. a \in 0..Len(r)
      BY <2>1
    <3>5. Len(r) \in Nat
      BY <1>1
    <3> QED
      BY <3>3, <3>4, <3>5
  <2> QED
    BY <2>2, <2>3
<1> QED
  BY <1>10, <1>11, <1>17, <1>18

\* No turn Codex knows of is hidden.
LEMMA KnownNotHidden ==
  ASSUME HistoryInv, Flushed, NEW thread, NEW t \in Known
  PROVE  t \notin HiddenTurns(DetailEvents(thread, written))
<1> DEFINE R == RolloutEvents(lines)
           M == MergeEvents(R, Stored)
           run == {active} \ {0}
<1>1. /\ Rollout(lines) /\ Book(lines, turns, running) /\ SubSeq(lines, 1, written) = lines
      /\ stored \in Seq(ToldEvents)
  BY WholeFile DEF HistoryInv, LinesInv, EventsInv
<1>2. DetailEvents(thread, written) = Reconcile(thread, M, run)
  BY <1>1 DEF DetailEvents
<1>3. R \cup Stored \subseteq AnyEvent /\ \E b \in Nat : \A e \in R \cup Stored : e.seq <= b
  BY <1>1, SourcesAreEvents DEF HistoryInv
<1>4. PICK b \in Nat : \A e \in R \cup Stored : e.seq <= b
  BY <1>3
<1>5. \A e \in R : e.status = "rolled_back" => Undone(lines, e.turn)
  BY <1>1, RolloutEventsFrom
<1>6. \A e \in Stored : e.status # "rolled_back"
  <2>1. \A i \in DOMAIN stored : stored[i] \in ToldEvents
    BY <1>1
  <2>2. \A e \in ToldEvents : e.status \in Statuses
    BY DEF ToldEvents, StoredEvent
  <2> QED
    BY <2>1, <2>2 DEF Stored, Statuses, Ended
<1> HIDE DEF R
<1>7. M \in SUBSET AnyEvent
  BY <1>3, <1>4, MergedFrom
<1>8. \A m \in M : m.seq <= b /\ \E e \in R \cup Stored, l \in R \cup Stored :
        m.type = e.type /\ m.turn = e.turn /\ l.type = e.type /\ l.turn = e.turn /\ m.status = l.status
  BY <1>3, <1>4, MergedFields
<1> HIDE DEF M, run
<1>9. \A e \in Reconcile(thread, M, run) : e \notin M => e.status \in {"started", "failed", "completed"}
  BY <1>4, <1>7, <1>8, ReconciledIs
<1>10. ~Undone(lines, t)
  BY <1>1 DEF Book, Undone, Known
<1>11. ASSUME NEW e \in Reconcile(thread, M, run), e.status = "rolled_back", e.turn = t
       PROVE  FALSE
  <2>1. e \in M
    BY <1>9, <1>11
  <2>2. PICK l \in R \cup Stored : l.turn = t /\ l.status = "rolled_back"
    BY <1>8, <1>11, <2>1
  <2>3. Undone(lines, t)
    BY <1>5, <1>6, <2>2
  <2> QED
    BY <1>10, <2>3
<1> QED
  BY <1>2, <1>11 DEF HiddenTurns

LEMMA ShowsAll ==
  ASSUME NEW D, NEW s, Dedupe(s) \in Seq(D), NEW events,
         \A i \in DOMAIN Dedupe(s) : Dedupe(s)[i].turn \notin HiddenTurns(events)
  PROVE  ShownMessages(s, events) = Dedupe(s)
<1> DEFINE S == Seq(D)
           d == Dedupe(s)
<1>1. Len(d) \in Nat /\ DOMAIN d = 1..Len(d) /\ <<>> \in S /\ \A n \in 1..Len(d) : d[n] \in D
  OBVIOUS
<1>2. \A x \in S, n \in 1..Len(d) : ShowOne(x, d[n], events) \in S
  BY <1>1 DEF ShowOne
<1> HIDE DEF S
<1>3. PICK f : ShownRun(f, S, s, events)
  BY <1>1, <1>2, ShownSteps
<1>4. f[0] = <<>> /\ ShownMessages(s, events) = f[Len(d)] /\ \A n \in 1..Len(d) : f[n] = ShowOne(f[n - 1], d[n], events)
  BY <1>3 DEF ShownRun
<1> DEFINE Front(n) == SubSeq(d, 1, n)
<1>5. Front(0) = <<>> /\ Front(Len(d)) = d
  BY <1>1
<1>6. \A n \in 1..Len(d) : Front(n) = Append(Front(n - 1), d[n])
  <2> HIDE DEF d
  <2> QED
    BY AppendNext DEF d
<1> HIDE DEF Front
<1> DEFINE G == {n \in 0..Len(d) : f[n] = Front(n)}
<1>7. 0 \in G
  BY <1>1, <1>4, <1>5
<1>8. ASSUME NEW n \in 1..Len(d), n - 1 \in G
      PROVE  n \in G
  <2>1. f[n] = ShowOne(Front(n - 1), d[n], events) /\ n \in 0..Len(d) /\ d[n].turn \notin HiddenTurns(events)
    BY <1>1, <1>4, <1>8
  <2>2. f[n] = Front(n)
    BY <1>6, <2>1 DEF ShowOne
  <2> QED
    BY <2>1, <2>2
<1> HIDE DEF G
<1>9. \A n \in 1..Len(d) : n - 1 \in G => n \in G
  BY <1>8
<1>10. 0..Len(d) \subseteq G
  BY <1>1, <1>7, <1>9, UpTo
<1>11. Len(d) \in G
  BY <1>1, <1>10
<1> QED
  BY <1>4, <1>5, <1>11 DEF G

(* Once the file is written, the details of a conversation show each of    *)
(* its prompts and replies once and in order, for any number of turns,     *)
(* whatever was notified, stored or taken back, and for every scan of the  *)
(* catalog that gives the thread's replies times no older than their       *)
(* lines: each message is written twice and recorded once                  *)
(* (collectRolloutMessages), the thread adds client ids and replies the    *)
(* records have (mergeHistoryMessages), such a reply is sorted after its   *)
(* record and dropped, as is a prompt said twice in a row (dedupeMessages),*)
(* and no turn Codex knows of is hidden.                                   *)
THEOREM DetailsShowConversation == Spec => []HistoryExact
<1>1. ASSUME HistoryInv, Flushed, NEW thread \in {NoThread, [t \in Known |-> turns[t]]},
             NEW seen \in 0..written, NEW at \in Times(thread, seen), Timely(at)
      PROVE  Read(DetailMessages(thread, written, at), DetailEvents(thread, written)) = Conversation
  <2> DEFINE y == DetailMessages(thread, written, at)
             events == DetailEvents(thread, written)
  <2>1. PICK r : Recounted(r) /\ Merged(y, r)
    <3>1. seen \in Nat
      OBVIOUS
    <3>2. DOMAIN at = DOMAIN thread /\ \A t \in DOMAIN thread : at[t] \in Nat
      BY <3>1, TimesTyped
    <3> QED
      BY <1>1, <3>2, DetailMerged
  <2>2. \A t \in Known : t \notin HiddenTurns(events)
    BY <1>1, KnownNotHidden
  <2> HIDE DEF y, events
  <2>3. PICK x, h : Dedupe(y) = x /\ Conversation = h /\ Kept(x, h, y, r, Len(r))
    BY <1>1, <2>1, DedupeSays
  <2>4. x \in Seq(Message) /\ h \in Seq(Pair) /\ Len(h) = Len(x) /\ \A i \in DOMAIN x : <<x[i].role, x[i].text>> = h[i]
    BY <2>3 DEF Kept
  <2>5. \A i \in DOMAIN x : x[i].turn \in Known
    <3> TAKE i \in DOMAIN x
    <3>1. PICK j \in 1..Len(r) : x[i] = y[j]
      BY <2>3 DEF Kept
    <3>2. j \in DOMAIN r /\ y[j].turn = r[j].turn
      BY <2>1 DEF Merged, Recounted
    <3>3. Speaker(r[j]) \in Voiced
      BY <2>1, <3>2 DEF Recounted
    <3> QED
      BY <3>1, <3>2, <3>3 DEF Speaker, Voiced
  <2>6. ShownMessages(y, events) = x
    BY <2>2, <2>3, <2>4, <2>5, ShowsAll
  <2>7. Read(y, events) = [i \in DOMAIN x |-> <<x[i].role, x[i].text>>]
    BY <2>6 DEF Read
  <2>8. h = [i \in DOMAIN x |-> h[i]]
    BY <2>4
  <2>9. Read(y, events) = h
    BY <2>4, <2>7, <2>8
  <2> QED
    BY <2>3, <2>9 DEF y, events
<1>2. HistoryInv => HistoryExact
  BY <1>1 DEF HistoryExact
<1> QED
  BY <1>2, HistoryInvariant, PTL

=============================================================================
