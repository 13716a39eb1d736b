---------------------------- MODULE DesktopState ----------------------------
(***************************************************************************)
(* DesktopStateReader: registerThread, which rewrites the state file of    *)
(* Codex Desktop if it has not changed since it was read, and the readers  *)
(* with their caches (getState, getDeletedThreadIds, getLockedThreadIds).  *)
(*                                                                         *)
(* Of what was read of a file or directory it matters only whether it is   *)
(* still true: mtimes do not repeat, the temporary file that a rename puts *)
(* in place brings one of its own.  A backup of a deleted session is       *)
(* written after it was created, which does not change the mtime of its    *)
(* directory again.                                                        *)
(***************************************************************************)
EXTENDS DesktopViews

CONSTANTS
  Caller,      \* requests of the web client: a list, a creation
  TodoOf,      \* the threads each registers, in turn
  ReadsOf,     \* the sources each reads then
  Repeats,     \* callers that come again
  CwdOf,       \* the working directory of each thread
  Existing,    \* the projects at first
  MaxEdit,     \* bound: changes made by Codex Desktop
  MaxFail      \* bound: reads and renames that fail

ASSUME DesktopAssumption ==
  /\ TodoOf \in [Caller -> Seq(Thread)] /\ Repeats \subseteq Caller
  /\ ReadsOf \in [Caller -> SUBSET {"state", "tombstones", "locks"}]
  /\ CwdOf \in [Thread -> Path] /\ Existing \subseteq Project
  /\ MaxEdit \in Nat /\ MaxFail \in Nat

VARIABLES
  state,     \* the content of the state file
  half,      \* a backup has been created and not yet written
  cache,     \* what the reader remembers of each source
  call,      \* the callers
  edits,     \* changes Codex Desktop has made
  fails      \* operations that have failed

vars == <<state, half, cache, call, edits, fails>>

Source == {"state", "tombstones", "locks"}
Reads == Source \cup {"nothing"}

\* What was read is the present, or old; "partial" is a directory of which a backup
\* was not yet written or could not be read, "empty" the {} that stands for a state
\* file that could not be read or parsed: the mtime of either may be the present one.
Age == {"none", "now", "old", "partial", "empty"}
NoCache == [content |-> "none", mtime |-> "none"]
Known == [content : Age, mtime : Age]

\* raced: the file was written between the two reads, or after the last check.
Call ==
  [pc : {"idle", "register", "check", "rename", "get", "load", "fill", "done"},
   todo : Seq(Thread), attempt : 0..2, data : State, read : Known,
   raced : BOOLEAN, source : Reads]

Resting == [pc |-> "idle", todo |-> <<>>, attempt |-> 0, data |-> EmptyState,
            read |-> NoCache, raced |-> FALSE, source |-> "nothing"]

Init ==
  /\ state = [EmptyState EXCEPT !.projects = Existing, !.listed = Existing]
  /\ half = FALSE
  /\ cache = [s \in Source |-> NoCache]
  /\ call = [c \in Caller |-> Resting]
  /\ edits = 0 /\ fails = 0

Older(age) == IF age = "none" THEN "none" ELSE "old"
Outdated(known) == [content |-> Older(known.content), mtime |-> Older(known.mtime)]

\* A write that falls between two steps of a call between which it goes unnoticed.
Unnoticed(r) ==
  \/ r.pc = "rename"
  \/ r.pc = "register" /\ r.read.content # "none" /\ r.read.mtime = "none"

\* A source has changed: what the callers and the cache know of it is old.
CallsAfter(s) ==
  [c \in Caller |->
    LET r == call[c]
        concerned == r.source = s \/ (s = "state" /\ r.pc \in {"register", "check", "rename"})
    IN  IF concerned
        THEN [r EXCEPT !.read = Outdated(@), !.raced = @ \/ Unnoticed(r)]
        ELSE r]

\* An entry with an mtime that is not that of its source is never used again, and
\* is represented by none.
Remember(known) == IF known.mtime = "now" THEN known ELSE NoCache

CacheAfter(s) == [cache EXCEPT ![s] = NoCache]

----------------------------------------------------------------------------
(* registerThread                                                          *)

Begin(todo) ==
  [Resting EXCEPT !.todo = todo, !.pc = IF todo = <<>> THEN "get" ELSE "register"]

\* service.ts registers one thread after the other.
NextThread(r) == Begin(Tail(r.todo))

Retry(r) ==
  IF r.attempt = 2 THEN NextThread(r)
  ELSE [Begin(r.todo) EXCEPT !.attempt = r.attempt + 1]

Start(c) ==
  /\ call[c].pc = "idle"
  /\ call' = [call EXCEPT ![c] = Begin(TodoOf[c])]
  /\ UNCHANGED <<state, half, cache, edits, fails>>

\* readFile and stat are issued together and end in any order.
ReadContent(c) ==
  /\ call[c].pc = "register" /\ call[c].read.content = "none"
  /\ call' = [call EXCEPT ![c].read.content = "now", ![c].data = state]
  /\ UNCHANGED <<state, half, cache, edits, fails>>

ReadStat(c) ==
  /\ call[c].pc = "register" /\ call[c].read.mtime = "none"
  /\ call' = [call EXCEPT ![c].read.mtime = "now"]
  /\ UNCHANGED <<state, half, cache, edits, fails>>

ReadFails(c) ==
  /\ call[c].pc = "register" /\ fails < MaxFail
  /\ call' = [call EXCEPT ![c] = NextThread(@)]
  /\ fails' = fails + 1
  /\ UNCHANGED <<state, half, cache, edits>>

Wanted(r) == Head(r.todo)
BothRead(r) ==
  r.pc = "register" /\ r.read.content # "none" /\ r.read.mtime # "none"

NothingToDo(c) ==
  LET r == call[c] IN
  /\ BothRead(r) /\ AlreadyPlaced(r.data, Wanted(r), CwdOf[Wanted(r)])
  /\ call' = [call EXCEPT ![c] = NextThread(r)]
  /\ UNCHANGED <<state, half, cache, edits, fails>>

WriteTemp(c) ==
  LET r == call[c] IN
  /\ BothRead(r) /\ ~AlreadyPlaced(r.data, Wanted(r), CwdOf[Wanted(r)])
  /\ call' = [call EXCEPT ![c].pc = "check"]
  /\ UNCHANGED <<state, half, cache, edits, fails>>

\* Mutant: the file is not looked at again before it is replaced.
CheckNothing(c) ==
  /\ call[c].pc = "check"
  /\ call' = [call EXCEPT ![c].pc = "rename"]
  /\ UNCHANGED <<state, half, cache, edits, fails>>

Check(c) ==
  LET r == call[c] IN
  /\ r.pc = "check"
  /\ call' = [call EXCEPT ![c] = IF r.read.mtime = "now"
                                 THEN [r EXCEPT !.pc = "rename"] ELSE Retry(r)]
  /\ UNCHANGED <<state, half, cache, edits, fails>>

\* Mutant: a thread that gets a project stays among those without one.
RenameStillProjectless(c) ==
  LET r == call[c]
      new == Placed(r.data, Wanted(r), CwdOf[Wanted(r)]) IN
  /\ r.pc = "rename"
  /\ state' = [new EXCEPT !.projectless = r.data.projectless]
  /\ cache' = [cache EXCEPT !["state"] = NoCache]
  /\ call' = [CallsAfter("state") EXCEPT ![c] = NextThread(r)]
  /\ UNCHANGED <<half, edits, fails>>

\* Mutant: a thread is assigned to its project and missing in the order of its threads.
RenameAssigning(c) ==
  LET r == call[c]
      new == Placed(r.data, Wanted(r), CwdOf[Wanted(r)]) IN
  /\ r.pc = "rename"
  /\ state' = [new EXCEPT !.order = [p \in Project |-> Without(@[p], Wanted(r))]]
  /\ cache' = [cache EXCEPT !["state"] = NoCache]
  /\ call' = [CallsAfter("state") EXCEPT ![c] = NextThread(r)]
  /\ UNCHANGED <<half, edits, fails>>

Rename(c) ==
  LET r == call[c] IN
  /\ r.pc = "rename"
  /\ state' = Placed(r.data, Wanted(r), CwdOf[Wanted(r)])
  /\ cache' = [cache EXCEPT !["state"] = NoCache]
  /\ call' = [CallsAfter("state") EXCEPT ![c] = NextThread(r)]
  /\ UNCHANGED <<half, edits, fails>>

\* The third failure is thrown, and both callers log it and go on.
RenameFails(c) ==
  /\ call[c].pc \in {"check", "rename"} /\ fails < MaxFail
  /\ call' = [call EXCEPT ![c] = Retry(@)]
  /\ fails' = fails + 1
  /\ UNCHANGED <<state, half, cache, edits>>

----------------------------------------------------------------------------
(* The readers: stat, compare with the cache, read, remember.              *)

Finish(c) == IF c \in Repeats THEN Resting ELSE [Resting EXCEPT !.pc = "done"]

Fresh(s) == cache[s].mtime = "now"

Stat(c, s) ==
  /\ call[c].pc = "get" /\ s \in ReadsOf[c]
  /\ call' = [call EXCEPT ![c] =
       IF Fresh(s) THEN Finish(c)
       ELSE [@ EXCEPT !.pc = "load", !.source = s, !.read.mtime = "now"]]
  /\ UNCHANGED <<state, half, cache, edits, fails>>

StatFails(c, s) ==
  /\ call[c].pc = "get" /\ s \in ReadsOf[c] /\ fails < MaxFail
  /\ cache' = [cache EXCEPT ![s] = NoCache]
  /\ call' = [call EXCEPT ![c] = Finish(c)]
  /\ fails' = fails + 1
  /\ UNCHANGED <<state, half, edits>>

Load(c) ==
  /\ call[c].pc = "load"
  /\ call' = [call EXCEPT ![c].pc = "fill", ![c].read.content = "now"]
  /\ UNCHANGED <<state, half, cache, edits, fails>>

\* A state file that cannot be read or parsed counts as an empty one, a backup that
\* cannot be is skipped, and both are remembered; a directory that cannot be is not.
LoadFails(c) ==
  LET r == call[c] IN
  /\ r.pc = "load" /\ fails < MaxFail /\ fails' = fails + 1
  /\ \/ /\ r.source # "locks"
        /\ call' = [call EXCEPT ![c].pc = "fill",
             ![c].read.content = IF r.source = "state" THEN "empty" ELSE "partial"]
        /\ UNCHANGED cache
     \/ /\ r.source # "state"
        /\ cache' = [cache EXCEPT ![r.source] = NoCache]
        /\ call' = [call EXCEPT ![c] = Finish(c)]
  /\ UNCHANGED <<state, half, edits>>

\* Mutant: the mtime is asked for after the content was read.
FillWithLaterMtime(c) ==
  LET r == call[c] IN
  /\ r.pc = "fill"
  /\ cache' = [cache EXCEPT ![r.source] = [r.read EXCEPT !.mtime = "now"]]
  /\ call' = [call EXCEPT ![c] = Finish(c)]
  /\ UNCHANGED <<state, half, edits, fails>>

Fill(c) ==
  LET r == call[c] IN
  /\ r.pc = "fill"
  /\ cache' = [cache EXCEPT ![r.source] = Remember(r.read)]
  /\ call' = [call EXCEPT ![c] = Finish(c)]
  /\ UNCHANGED <<state, half, edits, fails>>

GetState(c) == Stat(c, "state") \/ StatFails(c, "state")
GetDeletedThreadIds(c) == Stat(c, "tombstones") \/ StatFails(c, "tombstones")
GetLockedThreadIds(c) == Stat(c, "locks") \/ StatFails(c, "locks")

----------------------------------------------------------------------------
(* Codex Desktop                                                           *)

Edit(content) ==
  /\ edits < MaxEdit /\ edits' = edits + 1
  /\ state' = content
  /\ call' = CallsAfter("state") /\ cache' = CacheAfter("state")
  /\ UNCHANGED <<half, fails>>

AddProject(p) ==
  /\ p \notin state.projects
  /\ Edit([state EXCEPT !.projects = @ \cup {p}, !.listed = @ \cup {p}])

RemoveProject(p) ==
  /\ p \in state.projects
  /\ Edit([state EXCEPT
       !.projects = @ \ {p}, !.listed = @ \ {p}, !.order[p] = <<>>,
       !.assigned = [t \in Thread |-> IF @[t] = p THEN NoProject ELSE @[t]]])

MoveThread(t, p) ==
  /\ p \in state.projects \cup {NoProject}
  /\ Edit([state EXCEPT
       !.assigned[t] = p,
       !.order = [q \in Project |-> IF q = p THEN Append(Without(state.order[q], t), t)
                                    ELSE Without(state.order[q], t)],
       !.projectless = IF p = NoProject THEN Append(Without(@, t), t) ELSE Without(@, t)])

\* Locks come and go; a backup is created, and then written.
ChangeDirectory(s) ==
  /\ s \in {"tombstones", "locks"} /\ ~(s = "tombstones" /\ half)
  /\ edits < MaxEdit /\ edits' = edits + 1
  /\ half' = (half \/ s = "tombstones")
  /\ call' = CallsAfter(s) /\ cache' = CacheAfter(s)
  /\ UNCHANGED <<state, fails>>

Partial(known) == IF known.content = "now" THEN [known EXCEPT !.content = "partial"] ELSE known

WriteBackup ==
  /\ half /\ half' = FALSE
  /\ cache' = [cache EXCEPT !["tombstones"] = Partial(@)]
  /\ call' = [c \in Caller |-> IF call[c].source = "tombstones"
                               THEN [call[c] EXCEPT !.read = Partial(@)] ELSE call[c]]
  /\ UNCHANGED <<state, edits, fails>>

----------------------------------------------------------------------------
Register(c) ==
  \/ Start(c) \/ ReadContent(c) \/ ReadStat(c) \/ ReadFails(c)
  \/ NothingToDo(c) \/ WriteTemp(c) \/ Check(c) \/ Rename(c) \/ RenameFails(c)

Read(c) ==
  \/ GetState(c) \/ GetDeletedThreadIds(c) \/ GetLockedThreadIds(c)
  \/ Load(c) \/ LoadFails(c) \/ Fill(c)

Desktop ==
  \/ \E p \in Project : AddProject(p) \/ RemoveProject(p)
  \/ \E t \in Thread, p \in Project \cup {NoProject} : MoveThread(t, p)
  \/ \E s \in Source : ChangeDirectory(s)
  \/ WriteBackup

Next == (\E c \in Caller : Register(c) \/ Read(c)) \/ Desktop

Spec == Init /\ [][Next]_vars

\* The event loop goes on, and a client asks for the list again and again.
Fairness == \A c \in Caller : WF_vars(Register(c) \/ Read(c))
FairSpec == Spec /\ Fairness

----------------------------------------------------------------------------
(* Properties                                                              *)

TypeOK ==
  /\ state \in State /\ half \in BOOLEAN
  /\ cache \in [Source -> Known] /\ call \in [Caller -> Call]
  /\ edits \in 0..MaxEdit /\ fails \in 0..MaxFail

\* A registration replaces the very content it was computed from, so that no
\* change of Codex Desktop or of another registration is lost, unless the file
\* was written between its two reads or after its last look at the mtime.
UpdatesKept ==
  \A c \in Caller : call[c].pc = "rename" /\ ~call[c].raced => call[c].data = state

\* However readers, a writer and failing reads overlap, a cached answer that would
\* be used is never that of an earlier time: it is the present content, but for two
\* cases.  A read of the state file that failed is remembered as an empty file until
\* the file changes, and a backup that was being written or could not be read is
\* missing until another one comes or goes: the mtime tells of neither.
CacheFresh ==
  \A s \in Source : Fresh(s) =>
    \/ cache[s].content = "now"
    \/ s = "state" /\ cache[s].content = "empty" /\ fails > 0
    \/ s = "tombstones" /\ cache[s].content = "partial"

\* A thread has one place in the sidebar, whatever registrations overlap with
\* moves, and losing a write does not tear the lists apart.
PlacedOnce ==
  \A t \in Thread :
    LET places == {pl \in Project \X (1..Cardinality(Thread) + 2) :
                     pl[2] \in DOMAIN state.order[pl[1]] /\ state.order[pl[1]][pl[2]] = t}
        loose == {i \in DOMAIN state.projectless : state.projectless[i] = t}
    IN  /\ Cardinality(places) + Cardinality(loose) <= 1
        /\ loose # {} => state.assigned[t] = NoProject
        /\ \A pl \in places : state.assigned[t] = pl[1]

InPlace(st, t, path) ==
  LET p == ProjectFor(st, path) IN
  /\ st.assigned[t] = p
  /\ t \in Members(IF p = NoProject THEN st.projectless ELSE st.order[p])

\* Lost writes are repaired: once Codex Desktop is quiet, the lists that clients
\* go on asking for put every thread they repair under its project, and keep it there.
RepairedAtLast ==
  \A c \in Repeats :
    <>[](\A i \in DOMAIN TodoOf[c] : InPlace(state, TodoOf[c][i], CwdOf[TodoOf[c][i]]))
=============================================================================
