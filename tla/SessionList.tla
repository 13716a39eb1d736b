---------------------------- MODULE SessionList ----------------------------
(***************************************************************************)
(* SessionService: the list of sessions, put together from the catalog of  *)
(* rollouts, the app-server, and the index, tombstones and state file of   *)
(* Codex Desktop; the details of one; and the cache that says which        *)
(* sessions a client has access to, which all of them fill.                *)
(*                                                                         *)
(* Each read of a file of Codex Desktop is one step here, and may fail:    *)
(* DesktopState shows that the caches in front of the files are fresh but  *)
(* for reads that failed, and for backups that were half written.          *)
(***************************************************************************)
EXTENDS SessionCatalog, DesktopViews

CONSTANTS
  Lister,      \* readers that ask for the list
  Visitor,     \* readers that check or open one session
  Subject,     \* threads that are changed or visited
  Remote,      \* threads a message was sent to: remoteSessionIds
  Announced,   \* the working directories the events of each thread announce
  Allowed,     \* CODEX_CWD_ALLOWLIST, in canonical form
  RowCwd,      \* the working directory in the row of a thread
  States,      \* state files to begin with
  Indexes,     \* rows of state_5.sqlite to begin with
  MaxChange    \* bound: changes made by Codex

ASSUME ListAssumption ==
  /\ Lister \cap Visitor = {} /\ Lister \cup Visitor = Reader
  /\ Dir = Path /\ Subject \subseteq Thread /\ Remote \subseteq Thread
  /\ SessionId \subseteq Thread /\ Allowed \subseteq Path
  /\ Announced \in [Thread -> SUBSET Path]
  /\ RowCwd \in [Thread -> Path] /\ MaxChange \in Nat
  /\ Indexes \subseteq [Thread -> {NoRow, "live", "archived"}]
  /\ \A s \in States : s \in State /\ Tidy(s)

VARIABLES
  st,          \* the state file of Codex Desktop
  index,       \* the rows of state_5.sqlite
  tombstones,  \* deleted sessions
  codex,       \* the working directory of the threads the app-server knows
  up,          \* the app-server answers
  unread,      \* of state file and index, those that cannot be read
  unseen,      \* the tombstones that cannot: a failed look, half-written backups
  access,      \* sessionAccess
  checking,    \* sessionAccessChecks: who has the check under way
  req,         \* the requests
  changes      \* counts up to MaxChange

outside == <<st, index, tombstones, codex, up, unread, unseen>>
memory == <<access, checking>>
listVars == <<catVars, outside, memory, req, changes>>

NoRequest == [pc |-> "idle"]

ListInit ==
  /\ CatInit
  /\ st \in States
  /\ index \in Indexes
  /\ tombstones \in SUBSET Subject
  /\ codex \in [Thread -> Path \cup {NoPath}]
  /\ \A t \in Thread : codex[t] # NoPath => \E f \in Rollout : IdOf[f] = t /\ rollout[f].cwd = codex[t]
  /\ up = TRUE /\ unread = {} /\ unseen = {}
  /\ access = [t \in Thread |-> "unknown"]
  /\ checking = [t \in Thread |-> Nobody]
  /\ req = [r \in Reader |-> NoRequest]
  /\ changes = 0

----------------------------------------------------------------------------
(* What is read of the files of Codex Desktop: nothing of one that cannot  *)
(* be read, which getState remembers until the file changes.               *)

StateRead == IF "state" \in unread THEN EmptyState ELSE st
IndexRead == IF "index" \in unread THEN [t \in Thread |-> NoRow] ELSE index
DeletedRead == tombstones \ unseen

----------------------------------------------------------------------------
(* Working directories and roots                                           *)

RootOf(s, p) ==
  IF \E r \in Path : r \in RootsOf[p] /\ p \in s.projects
  THEN CHOOSE r \in RootsOf[p] : TRUE ELSE NoPath

\* canonicalRoots, with desktopRoots.
Roots(s, rows) ==
  Allowed \cup UNION {RootsOf[p] : p \in Projects(s)}
          \cup ({s.hint[t] : t \in Thread} \ {NoPath})
          \cup {RowCwd[t] : t \in {t \in Thread : rows[t] = "live"}}

IsAllowedPath(path) == path # NoPath /\ \E root \in Roots(StateRead, IndexRead) : Contains(root, path)

\* Mutant: the root of the project wins over what is known of the thread.
EffectiveCwdOfProject(t, cwd) ==
  LET p == ProjectOf(StateRead, t) IN
  IF p # NoProject /\ RootOf(StateRead, p) # NoPath THEN RootOf(StateRead, p)
  ELSE IF cwd # NoPath THEN cwd ELSE StateRead.hint[t]

\* effectiveCwd: what is known of the thread, else its project, else the hint.
EffectiveCwd(t, cwd) ==
  LET p == ProjectOf(StateRead, t) IN
  IF cwd # NoPath THEN cwd
  ELSE IF p # NoProject /\ RootOf(StateRead, p) # NoPath THEN RootOf(StateRead, p)
  ELSE StateRead.hint[t]

Verdict(path) == IF IsAllowedPath(path) THEN "yes" ELSE "no"

----------------------------------------------------------------------------
(* list                                                                    *)

BeginList(r, force) ==
  /\ req[r].pc = "idle" /\ r \in Lister
  /\ Ask(r, force)
  /\ req' = [req EXCEPT ![r] = [pc |-> "catalog", gone |-> tombstones]]
  /\ UNCHANGED <<outside, memory, changes>>

TakeRollouts(r) ==
  /\ req[r].pc = "catalog" /\ Take(r)
  /\ req' = [req EXCEPT ![r] = [pc |-> "threads", gone |-> req[r].gone,
       cwd |-> [t \in Thread |-> IF t \in SessionId /\ ask[r].got[t] # Missing
                                 THEN ask[r].got[t].cwd ELSE NoPath]]]
  /\ UNCHANGED <<outside, memory, changes>>

\* The app-server's threads win over the rollouts; without it the rollouts do.
ListThreads(r) ==
  LET active == {t \in Thread : up /\ codex[t] # NoPath} IN
  /\ req[r].pc = "threads"
  /\ req' = [req EXCEPT ![r] = [pc |-> "index", gone |-> @.gone, active |-> active,
       cwd |-> [t \in Thread |-> IF t \in active THEN codex[t] ELSE @.cwd[t]]]]
  /\ UNCHANGED <<catVars, outside, memory, changes>>

\* Mutant: the rows of the index are added without a look at the tombstones.
ReadIndexDeleted(r) ==
  LET q == req[r]
      rows == IndexRead
      tracked == {t \in Thread : q.cwd[t] # NoPath /\ t \notin DeletedRead}
      kept == {t \in tracked : t \in q.active \/ ~Gone(rows, t)} \ {t \in Thread : rows[t] = "archived"}
      added == {t \in Thread : rows[t] = "live"} \ kept
  IN
  /\ q.pc = "index"
  /\ req' = [req EXCEPT ![r] = [pc |-> "repair", gone |-> q.gone \ unseen, deleted |-> {},
       known |-> kept \cup added, todo |-> (kept \cup added) \cap Remote,
       cwd |-> [t \in Thread |-> IF t \in kept THEN q.cwd[t]
                                 ELSE IF t \in added THEN RowCwd[t] ELSE NoPath]]]
  /\ UNCHANGED <<catVars, outside, memory, changes>>

\* What is known of each source is filtered, and rows of the index are added.
\* gone forgets the tombstones this look at the backups misses.
ReadIndex(r) ==
  LET q == req[r]
      rows == IndexRead
      tracked == {t \in Thread : q.cwd[t] # NoPath /\ t \notin DeletedRead}
      kept == {t \in tracked : t \in q.active \/ ~Gone(rows, t)} \ {t \in Thread : rows[t] = "archived"}
      added == {t \in Thread : rows[t] = "live"} \ (kept \cup DeletedRead)
  IN
  /\ q.pc = "index"
  /\ req' = [req EXCEPT ![r] = [pc |-> "repair", gone |-> q.gone \ unseen,
       deleted |-> DeletedRead,
       known |-> kept \cup added, todo |-> (kept \cup added) \cap Remote,
       cwd |-> [t \in Thread |-> IF t \in kept THEN q.cwd[t]
                                 ELSE IF t \in added THEN RowCwd[t] ELSE NoPath]]]
  /\ UNCHANGED <<catVars, outside, memory, changes>>

\* A file that changes is read again.
StateChanges(content) ==
  st' = content /\ unread' = IF content = st THEN unread ELSE unread \ {"state"}

\* registerThread for each; it may give up.
Repair(r) ==
  LET q == req[r] IN
  /\ q.pc = "repair"
  /\ \E t \in q.todo :
       /\ \E content \in {st, Placed(st, t, q.cwd[t])} : StateChanges(content)
       /\ req' = [req EXCEPT ![r].todo = @ \ {t}]
  /\ UNCHANGED <<catVars, index, tombstones, codex, up, unseen, memory, changes>>

\* Hints fill in, and a project that the working directory is the id of.
Enrich(r) ==
  LET q == req[r] IN
  /\ q.pc = "repair" /\ q.todo = {}
  /\ req' = [req EXCEPT ![r] = [pc |-> "projectless", gone |-> q.gone, deleted |-> q.deleted,
       rows |-> {[id |-> t, from |-> "known", cwd |-> IF q.cwd[t] # NoPath THEN q.cwd[t]
                                                     ELSE StateRead.hint[t]] : t \in q.known}]]
  /\ UNCHANGED <<catVars, outside, memory, changes>>

KnownIds(q) == {row.id : row \in {row \in q.rows : row.from = "known"}}

AddProjectless(r) ==
  LET q == req[r] IN
  /\ q.pc = "projectless"
  /\ req' = [req EXCEPT ![r] =
       [pc |-> "sidebar", gone |-> q.gone, deleted |-> q.deleted, seen |-> StateRead,
        rows |-> q.rows \cup
          {[id |-> t, from |-> "projectless", cwd |-> StateRead.hint[t]] :
             t \in ProjectlessGhosts(StateRead, IndexRead, DeletedRead, KnownIds(q))}]]
  /\ UNCHANGED <<catVars, outside, memory, changes>>

\* Mutant: the sidebar adds the sessions that are known as well.
AddSidebarTwice(r) ==
  LET q == req[r]
      rows == q.rows \cup
        {[id |-> g[1], from |-> "sidebar", cwd |-> RootOf(StateRead, g[2])] :
           g \in SidebarGhosts(StateRead, IndexRead, DeletedRead, {})}
  IN
  /\ q.pc = "sidebar"
  /\ req' = [req EXCEPT ![r] = [pc |-> "roots", gone |-> q.gone, torn |-> q.seen # StateRead,
                                rows |-> {row \in rows : row.id \notin q.deleted}]]
  /\ access' = [t \in Thread |-> IF t \in q.deleted THEN "no" ELSE access[t]]
  /\ UNCHANGED <<catVars, outside, checking, changes>>

\* The last of them; deleted sessions lose their access.
AddSidebar(r) ==
  LET q == req[r]
      rows == q.rows \cup
        {[id |-> g[1], from |-> "sidebar", cwd |-> RootOf(StateRead, g[2])] :
           g \in SidebarGhosts(StateRead, IndexRead, DeletedRead, KnownIds(q))}
  IN
  /\ q.pc = "sidebar"
  /\ req' = [req EXCEPT ![r] = [pc |-> "roots", gone |-> q.gone, torn |-> q.seen # StateRead,
                                rows |-> {row \in rows : row.id \notin q.deleted}]]
  /\ access' = [t \in Thread |-> IF t \in q.deleted THEN "no" ELSE access[t]]
  /\ UNCHANGED <<catVars, outside, checking, changes>>

AnswerList(r) ==
  LET q == req[r]
      shown == {row \in q.rows : IsAllowedPath(row.cwd)}
      ids == {row.id : row \in q.rows}
  IN
  /\ q.pc = "roots"
  /\ access' = [t \in Thread |-> IF t \in ids
       THEN IF t \in {row.id : row \in shown} THEN "yes" ELSE "no" ELSE access[t]]
  /\ req' = [req EXCEPT ![r] = [pc |-> "answer", gone |-> q.gone, torn |-> q.torn, rows |-> shown]]
  /\ UNCHANGED <<catVars, outside, checking, changes>>

EndRequest(r) ==
  /\ req[r].pc = "answer"
  /\ req' = [req EXCEPT ![r] = NoRequest]
  /\ UNCHANGED <<catVars, outside, memory, changes>>

----------------------------------------------------------------------------
(* canAccessSession: a forced check, or one of a session not seen before.  *)

BeginCheck(r, t, force) ==
  /\ req[r].pc = "idle" /\ r \in Visitor /\ t \in Subject
  /\ (force \/ access[t] = "unknown") /\ checking[t] = Nobody
  /\ checking' = [checking EXCEPT ![t] = r]
  /\ req' = [req EXCEPT ![r] = [pc |-> "read", id |-> t, forced |-> force]]
  /\ UNCHANGED <<catVars, outside, access, changes>>

CheckThread(r) ==
  LET q == req[r] IN
  /\ q.pc = "read"
  /\ IF up /\ codex[q.id] # NoPath
     THEN /\ req' = [req EXCEPT ![r] = [pc |-> "verdict", id |-> q.id, cwd |-> codex[q.id]]]
          /\ UNCHANGED catVars
     ELSE /\ Ask(r, q.forced)
          /\ req' = [req EXCEPT ![r] = [pc |-> "scanned", id |-> q.id, again |-> FALSE]]
  /\ UNCHANGED <<outside, memory, changes>>

\* catalog.detail refreshes once more when it does not know the session.
Refreshed(r) == req[r].again \/ (req[r].id \in SessionId /\ sessions[req[r].id] # Missing)

RefreshAgain(r) ==
  /\ req[r].pc = "scanned" /\ ~Refreshed(r) /\ AskAgain(r, FALSE)
  /\ req' = [req EXCEPT ![r] = [pc |-> "scanned", id |-> req[r].id, again |-> TRUE]]
  /\ UNCHANGED <<outside, memory, changes>>

\* Mutant: a file that cannot be read leaves the check behind.
CheckRolloutLeft(r) ==
  LET t == req[r].id
      known == t \in SessionId /\ sessions[t] # Missing
  IN
  /\ req[r].pc = "scanned" /\ Refreshed(r) /\ Take(r)
  /\ IF known /\ CanRead(t)
     THEN /\ req' = [req EXCEPT ![r] = [pc |-> "verdict", id |-> t, cwd |-> sessions[t].cwd]]
          /\ UNCHANGED memory
     ELSE /\ req' = [req EXCEPT ![r] = NoRequest]
          /\ access' = IF known THEN access ELSE [access EXCEPT ![t] = "no"]
          /\ UNCHANGED checking
  /\ UNCHANGED <<outside, changes>>

\* A session that is not found is denied; a file that cannot be read is an error.
CheckRollout(r) ==
  LET t == req[r].id
      known == t \in SessionId /\ sessions[t] # Missing
  IN
  /\ req[r].pc = "scanned" /\ Refreshed(r) /\ Take(r)
  /\ IF known /\ CanRead(t)
     THEN /\ req' = [req EXCEPT ![r] = [pc |-> "verdict", id |-> t, cwd |-> sessions[t].cwd]]
          /\ UNCHANGED memory
     ELSE /\ req' = [req EXCEPT ![r] = NoRequest]
          /\ access' = IF known THEN access ELSE [access EXCEPT ![t] = "no"]
          /\ checking' = [checking EXCEPT ![t] = Nobody]
  /\ UNCHANGED <<outside, changes>>

CheckVerdict(r) ==
  LET q == req[r] IN
  /\ q.pc = "verdict"
  /\ access' = [access EXCEPT ![q.id] = Verdict(EffectiveCwd(q.id, q.cwd))]
  /\ checking' = [checking EXCEPT ![q.id] = Nobody]
  /\ req' = [req EXCEPT ![r] = NoRequest]
  /\ UNCHANGED <<catVars, outside, changes>>

----------------------------------------------------------------------------
(* detail                                                                  *)

BeginDetail(r, t) ==
  /\ req[r].pc = "idle" /\ r \in Visitor /\ t \in Subject
  /\ IF t \in SessionId /\ sessions[t] # Missing
     THEN /\ req' = [req EXCEPT ![r] = [pc |-> "open", id |-> t]]
          /\ UNCHANGED catVars
     ELSE /\ Ask(r, FALSE)
          /\ req' = [req EXCEPT ![r] = [pc |-> "opening", id |-> t]]
  /\ UNCHANGED <<outside, memory, changes>>

DetailScanned(r) ==
  /\ req[r].pc = "opening" /\ Take(r)
  /\ req' = [req EXCEPT ![r] = [pc |-> "open", id |-> req[r].id]]
  /\ UNCHANGED <<outside, memory, changes>>

\* The rollout, by the path the catalog has, and the thread.
ReadBoth(r) ==
  LET t == req[r].id
      durable == t \in SessionId /\ CanRead(t)
      live == up /\ codex[t] # NoPath
  IN
  /\ req[r].pc = "open"
  /\ req' = [req EXCEPT ![r] = [pc |-> "judge", id |-> t, found |-> durable \/ live,
       cwd |-> IF live THEN codex[t] ELSE IF durable THEN sessions[t].cwd ELSE NoPath]]
  /\ UNCHANGED <<catVars, outside, memory, changes>>

AnswerDetail(r) ==
  LET q == req[r]
      cwd == EffectiveCwd(q.id, q.cwd)
  IN
  /\ q.pc = "judge"
  /\ access' = IF cwd = NoPath THEN access ELSE [access EXCEPT ![q.id] = Verdict(cwd)]
  /\ req' = [req EXCEPT ![r] = NoRequest]
  /\ UNCHANGED <<catVars, outside, checking, changes>>

----------------------------------------------------------------------------
(* canAccessEvent of an event that says where its thread is: a live one,   *)
(* or one that sync reads again from the store, with what it said then.    *)

EventVerdict(t, path) ==
  /\ path \in Announced[t]
  /\ access' = [access EXCEPT ![t] = Verdict(path)]
  /\ UNCHANGED <<catVars, outside, checking, req, changes>>

Announcing == \E t \in Subject : \E path \in Announced[t] : EventVerdict(t, path)

----------------------------------------------------------------------------
(* Codex and Codex Desktop                                                 *)

Change == changes < MaxChange /\ changes' = changes + 1

RewriteRollout(f, dir) ==
  /\ Change /\ Grow(f, dir)
  /\ codex' = IF codex[IdOf[f]] = NoPath THEN codex ELSE [codex EXCEPT ![IdOf[f]] = dir]
  /\ UNCHANGED <<st, index, tombstones, up, unread, unseen, memory, req>>

LoseRollout(f) ==
  /\ Change /\ (Remove(f) \/ \E form \in Form : Pack(f, form))
  /\ UNCHANGED <<outside, memory, req>>

DeleteThread(t) ==
  /\ Change /\ t \notin tombstones
  /\ tombstones' = tombstones \cup {t}
  /\ unseen' \in {unseen, unseen \cup {t}}
  /\ UNCHANGED <<catVars, st, index, codex, up, unread, memory, req>>

SetRow(t, row) ==
  /\ Change /\ index[t] # row
  /\ index' = [index EXCEPT ![t] = row]
  /\ UNCHANGED <<catVars, st, tombstones, codex, up, unread, unseen, memory, req>>

ForgetThread(t) ==
  /\ Change /\ codex[t] # NoPath
  /\ codex' = [codex EXCEPT ![t] = NoPath]
  /\ UNCHANGED <<catVars, st, index, tombstones, up, unread, unseen, memory, req>>

AppServer ==
  /\ Change /\ up' = ~up
  /\ UNCHANGED <<catVars, st, index, tombstones, codex, unread, unseen, memory, req>>

RewriteState(content) ==
  /\ Change /\ content # st /\ StateChanges(content)
  /\ UNCHANGED <<catVars, index, tombstones, codex, up, unseen, memory, req>>

\* A file cannot be read, or can be again.
MissFile(file) ==
  /\ Change
  /\ unread' = IF file \in unread THEN unread \ {file} ELSE unread \cup {file}
  /\ UNCHANGED <<catVars, st, index, tombstones, codex, up, unseen, memory, req>>

\* Backups cannot be read, or can be again.
MissBackups(missed) ==
  /\ Change /\ missed # unseen /\ unseen' = missed
  /\ UNCHANGED <<catVars, st, index, tombstones, codex, up, unread, memory, req>>

Outside ==
  \/ \E f \in Rollout, dir \in Dir : RewriteRollout(f, dir)
  \/ \E f \in Rollout : LoseRollout(f)
  \/ \E t \in Subject : DeleteThread(t) \/ ForgetThread(t)
  \/ \E t \in Subject, row \in {NoRow, "live", "archived"} : SetRow(t, row)
  \/ AppServer
  \/ \E content \in States : RewriteState(content)
  \/ \E file \in {"state", "index"} : MissFile(file)
  \/ \E missed \in SUBSET tombstones : MissBackups(missed)

Lists(r) ==
  \/ \E force \in BOOLEAN : BeginList(r, force)
  \/ TakeRollouts(r) \/ ListThreads(r) \/ ReadIndex(r) \/ Repair(r) \/ Enrich(r)
  \/ AddProjectless(r) \/ AddSidebar(r) \/ AnswerList(r) \/ EndRequest(r)

Visits(r) ==
  \/ \E t \in Subject, force \in BOOLEAN : BeginCheck(r, t, force)
  \/ CheckThread(r) \/ RefreshAgain(r) \/ CheckRollout(r) \/ CheckVerdict(r)
  \/ \E t \in Subject : BeginDetail(r, t)
  \/ DetailScanned(r) \/ ReadBoth(r) \/ AnswerDetail(r)

Catalog == (Scanning \/ Expire) /\ UNCHANGED <<outside, memory, req, changes>>

ListNext == (\E r \in Reader : Lists(r) \/ Visits(r)) \/ Announcing \/ Catalog \/ Outside

ListSpec == ListInit /\ [][ListNext]_listVars

\* The event loop goes on, and clients ask for the list again and again.
ListFairness ==
  /\ \A r \in Lister : WF_listVars(Lists(r))
  /\ \A r \in Visitor : WF_listVars(Visits(r))
  /\ WF_listVars(Catalog)

FairListSpec == ListSpec /\ ListFairness

----------------------------------------------------------------------------
(* Properties                                                              *)

\* A session that was deleted before a list was asked for is not in it, whichever
\* of the five sources still has it, unless the list's look at the backups missed
\* it: it failed, or the backup was half written when it was read.
DeletedHidden ==
  \A r \in Lister : req[r].pc = "answer" =>
    \A row \in req[r].rows : row.id \notin req[r].gone

\* A session is listed once, unless it was moved between the two reads of the
\* sidebar: the ghosts of both are added to those known before.
OneRow ==
  \A r \in Lister : req[r].pc = "answer" /\ ~req[r].torn =>
    \A x, y \in req[r].rows : x.id = y.id => x = y

\* A check is never left behind: whoever is waited for is on the way to a verdict
\* on that session, also after a file that could not be read.
ChecksEnd ==
  \A t \in Thread : checking[t] # Nobody =>
    LET q == req[checking[t]] IN q.pc \in {"read", "scanned", "verdict"} /\ q.id = t

\* The session can be read: by the app-server, or from a file.
Backed(t) ==
  /\ t \notin tombstones
  /\ \/ up /\ codex[t] # NoPath
     \/ \E f \in Rollout : IdOf[f] = t /\ rollout[f].form \in {"plain", "gz"}

\* Once nothing changes, the list, the checks and the details agree on who may see
\* a session that can be read, whatever verdicts came late or from old scans: unless
\* events that say where it is, or was, are read again and again.
AccessSettles ==
  \A t \in Subject :
    <>[]Backed(t) /\ <>[][~\E path \in Announced[t] : EventVerdict(t, path)]_access
    => <>[](access[t] = "yes") \/ <>[](access[t] # "yes")
=============================================================================
