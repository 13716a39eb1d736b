--------------------------- MODULE SessionCatalog ---------------------------
(***************************************************************************)
(* CodexSessionCatalog: the scan of the rollout files of Codex, which      *)
(* callers share while it is under way, and its result, which is used      *)
(* again for five seconds.                                                 *)
(*                                                                         *)
(* A rollout has a form (plain, gz, or zst, which cannot be read), a       *)
(* working directory and the time of its last entry; a session may have    *)
(* several.                                                                *)
(***************************************************************************)
EXTENDS Naturals, FiniteSets

CONSTANTS
  Rollout,     \* rollout files without their extension, as numbers
  IdOf,        \* the session each belongs to
  Dir,         \* working directories
  Reader,      \* callers of refresh
  Nobody,      \* no reader
  MaxTime      \* bound: the times of the last entries

ASSUME CatalogAssumption ==
  /\ Rollout \subseteq Nat /\ IdOf \in [Rollout -> Nat]
  /\ Nobody \notin Reader /\ MaxTime \in Nat

VARIABLES
  rollout,   \* the files
  sessions,  \* the result of the last scan: an entry for each session found
  recent,    \* it ended less than five seconds ago
  scan,      \* the scan each reader has started
  inFlight,  \* refreshInFlight: who has started the scan under way
  ask        \* what each reader waits for, or was answered

catVars == <<rollout, sessions, recent, scan, inFlight, ask>>

SessionId == {IdOf[f] : f \in Rollout}
Form == {"plain", "gz", "zst"}
Absent == [form |-> "none"]
Missing == [file |-> 0]

File == [form : Form, cwd : Dir, at : 0..MaxTime] \cup {Absent}
Entry == [file : Rollout, form : Form, cwd : Dir, at : 0..MaxTime] \cup {Missing}

NoScan == [pc |-> "idle", found |-> [f \in {} |-> "none"], seen |-> {}]
NoAsk == [pc |-> "idle"]

Present(f) == rollout[f].form # "none"

CatInit ==
  /\ rollout \in [Rollout -> [form : {"plain"}, cwd : Dir, at : {0}]]
  /\ sessions = [t \in SessionId |-> Missing]
  /\ recent = FALSE
  /\ scan = [r \in Reader |-> NoScan] /\ inFlight = Nobody
  /\ ask = [r \in Reader |-> NoAsk]

----------------------------------------------------------------------------
(* Codex appends to a file, moving the session perhaps, packs and removes. *)

Grow(f, dir) ==
  /\ rollout[f].form = "plain" /\ rollout[f].at < MaxTime
  /\ rollout' = [rollout EXCEPT ![f].cwd = dir, ![f].at = @ + 1]
  /\ UNCHANGED <<sessions, recent, scan, inFlight, ask>>

Pack(f, form) ==
  /\ rollout[f].form = "plain" /\ form \in {"gz", "zst"}
  /\ rollout' = [rollout EXCEPT ![f].form = form]
  /\ UNCHANGED <<sessions, recent, scan, inFlight, ask>>

Remove(f) ==
  /\ Present(f)
  /\ rollout' = [rollout EXCEPT ![f] = Absent]
  /\ UNCHANGED <<sessions, recent, scan, inFlight, ask>>

----------------------------------------------------------------------------
(* refresh: use a recent result, join the scan under way, or start one.    *)

\* since is what was there when the reader asked.
Asking(force, on) == [pc |-> "wait", forced |-> force, on |-> on, since |-> rollout]
Answered(a, result) == [pc |-> "done", forced |-> a.forced, on |-> a.on,
                        since |-> a.since, got |-> result]

UseRecent(r, force) ==
  /\ ask' = [ask EXCEPT ![r] = Answered(Asking(force, r), sessions)]
  /\ UNCHANGED <<scan, inFlight>>

Join(r, force) ==
  /\ inFlight # Nobody
  /\ ask' = [ask EXCEPT ![r] = Asking(force, inFlight)]
  /\ UNCHANGED <<scan, inFlight>>

StartScan(r, force) ==
  /\ ask' = [ask EXCEPT ![r] = Asking(force, r)]
  /\ scan' = [scan EXCEPT ![r] = [NoScan EXCEPT !.pc = "walk"]]
  /\ inFlight' = r

\* Mutant: a forced refresh is content with a recent result.
AskForgettingForce(r, force) ==
  /\ ask[r].pc = "idle"
  /\ IF recent THEN UseRecent(r, force)
     ELSE IF inFlight # Nobody THEN Join(r, force) ELSE StartScan(r, force)
  /\ UNCHANGED <<rollout, sessions, recent>>

\* Mutant: every refresh scans for itself.
AskAlone(r, force) ==
  /\ ask[r].pc = "idle" /\ scan[r].pc = "idle"
  /\ IF ~force /\ recent THEN UseRecent(r, force) ELSE StartScan(r, force)
  /\ UNCHANGED <<rollout, sessions, recent>>

Refresh(r, force) ==
  /\ IF ~force /\ recent THEN UseRecent(r, force)
     ELSE IF inFlight # Nobody THEN Join(r, force) ELSE StartScan(r, force)
  /\ UNCHANGED <<rollout, sessions, recent>>

Ask(r, force) == ask[r].pc = "idle" /\ Refresh(r, force)

\* A reader that was answered asks once more.
AskAgain(r, force) == ask[r].pc = "done" /\ Refresh(r, force)

\* The reader goes on with its answer.
Take(r) ==
  /\ ask[r].pc = "done"
  /\ ask' = [ask EXCEPT ![r] = NoAsk]
  /\ UNCHANGED <<rollout, sessions, recent, scan, inFlight>>

----------------------------------------------------------------------------
(* doRefresh: find the files, read each, keep the newest of a session.     *)

Walk(r) ==
  /\ scan[r].pc = "walk"
  /\ scan' = [scan EXCEPT ![r].pc = "inspect",
       ![r].found = [f \in {f \in Rollout : Present(f)} |-> rollout[f].form]]
  /\ UNCHANGED <<rollout, sessions, recent, inFlight, ask>>

\* A file that has been packed or removed since cannot be read, like a zst file.
Readable(f, form) == rollout[f].form = form /\ form # "zst"

EntryOf(f) == [file |-> f, form |-> rollout[f].form, cwd |-> rollout[f].cwd,
               at |-> rollout[f].at]

Inspect(r, f) ==
  LET found == scan[r].found IN
  /\ scan[r].pc = "inspect" /\ f \in DOMAIN found
  /\ scan' = [scan EXCEPT
       ![r].found = [g \in DOMAIN found \ {f} |-> found[g]],
       ![r].seen = IF Readable(f, found[f]) THEN @ \cup {EntryOf(f)} ELSE @]
  /\ UNCHANGED <<rollout, sessions, recent, inFlight, ask>>

Newest(entries) ==
  CHOOSE e \in entries : \A d \in entries : e.at > d.at \/ (e.at = d.at /\ e.file <= d.file)

Result(seen) ==
  [t \in SessionId |->
    LET own == {e \in seen : IdOf[e.file] = t}
    IN  IF own = {} THEN Missing ELSE Newest(own)]

EndScan(r) ==
  LET result == Result(scan[r].seen) IN
  /\ scan[r].pc = "inspect" /\ DOMAIN scan[r].found = {}
  /\ sessions' = result /\ recent' = TRUE
  /\ scan' = [scan EXCEPT ![r] = NoScan]
  /\ inFlight' = IF inFlight = r THEN Nobody ELSE inFlight
  /\ ask' = [a \in Reader |-> IF ask[a].pc = "wait" /\ ask[a].on = r
                              THEN Answered(ask[a], result) ELSE ask[a]]
  /\ UNCHANGED rollout

\* Five seconds have passed.
Expire ==
  /\ recent /\ recent' = FALSE
  /\ UNCHANGED <<rollout, sessions, scan, inFlight, ask>>

\* The files of a session, read by the path the catalog has.
CanRead(t) == sessions[t] # Missing /\ Readable(sessions[t].file, sessions[t].form)

----------------------------------------------------------------------------
CodexWrites ==
  \E f \in Rollout :
    \/ \E dir \in Dir : Grow(f, dir)
    \/ \E form \in Form : Pack(f, form)
    \/ Remove(f)

Scanning ==
  \/ \E r \in Reader : Walk(r) \/ EndScan(r)
  \/ \E r \in Reader, f \in Rollout : Inspect(r, f)

CatNext ==
  \/ CodexWrites \/ Scanning \/ Expire
  \/ \E r \in Reader : Take(r) \/ \E force \in BOOLEAN : Ask(r, force) \/ AskAgain(r, force)

CatSpec == CatInit /\ [][CatNext]_catVars

----------------------------------------------------------------------------
(* Properties                                                              *)

\* A forced refresh sees what was there when it was asked for: each file that
\* could be read then, and has not been packed or removed since, is in the
\* answer as it was or newer, or a newer file of the session is.  One that joins
\* the scan of another may be answered with what that scan read before.
ForcedSees ==
  \A r \in Reader, f \in Rollout :
    LET a == ask[r] IN
    (/\ a.pc = "done" /\ a.forced /\ a.on = r
     /\ a.since[f].form \in {"plain", "gz"} /\ rollout[f].form = a.since[f].form)
    => /\ a.got[IdOf[f]] # Missing
       /\ a.got[IdOf[f]].at >= a.since[f].at

\* The catalog never goes back: a session that is shown from the same file is
\* shown as it was, or as it was later.  Scans that overlapped could end in the
\* wrong order.
CatalogForward ==
  [][\A t \in SessionId :
       sessions[t] # Missing /\ sessions'[t] # Missing /\ sessions'[t].file = sessions[t].file
       => sessions'[t].at >= sessions[t].at]_catVars
=============================================================================
