-------------------------- MODULE SessionListProofs --------------------------
(***************************************************************************)
(* Proofs about the catalog of rollouts and the list of sessions that is   *)
(* put together from it, for any number of requests, files and changes.    *)
(*                                                                         *)
(* The catalog: files only move forward, what was packed is not unpacked,  *)
(* what was removed does not return, and the time of a file grows.  With   *)
(* at most one scan under way, everything a scan holds, answers with or    *)
(* has left behind in the catalog is therefore no newer than the files,    *)
(* and what a scan reads is no older than what was there when it started.  *)
(*                                                                         *)
(* The list: each of its steps is a step of the catalog or leaves it alone *)
(* and the requests carry along what the deleted sessions were when they   *)
(* began, less those that their look at the backups missed.  What is read  *)
(* of the state file is tidy by the lemmas of DesktopStateProofs.          *)
(***************************************************************************)
EXTENDS SessionList, DesktopStateProofs

SeenEntry == [file : Rollout, form : {"plain", "gz"}, cwd : Dir, at : 0..MaxTime]
Founds == UNION {[D -> Form] : D \in SUBSET Rollout}
Files == [Rollout -> File]
Results == [SessionId -> SeenEntry \cup {Missing}]

Waiting == [pc : {"wait"}, forced : BOOLEAN, on : Reader, since : Files]
Served == [pc : {"done"}, forced : BOOLEAN, on : Reader, since : Files, got : Results]

CatTypes ==
  /\ rollout \in Files
  /\ sessions \in Results
  /\ recent \in BOOLEAN
  /\ scan \in [Reader -> [pc : {"idle", "walk", "inspect"}, found : Founds, seen : SUBSET SeenEntry]]
  /\ inFlight \in Reader \cup {Nobody}
  /\ ask \in [Reader -> {NoAsk} \cup Waiting \cup Served]

\* What may become of the files: none is unpacked or comes back, and none gets older.
Later(old, new) ==
  \A f \in Rollout :
    /\ old[f].form # "plain" => new[f].form \in {old[f].form, "none"}
    /\ new[f].form # "none" => old[f].form # "none" /\ new[f].at >= old[f].at

\* The entry is no newer than its file.
NoNewer(e) == rollout[e.file].form = "none" \/ rollout[e.file].at >= e.at

\* One scan at a time: everybody waits for the reader that has started it, and
\* that reader waits too.
OneScan ==
  /\ \A r \in Reader : scan[r].pc # "idle" <=> inFlight = r
  /\ \A r \in Reader : ask[r].pc = "wait" => inFlight = ask[r].on
  /\ \A r \in Reader : inFlight = r => ask[r].pc = "wait"

SinceLater == \A r \in Reader : ask[r].pc # "idle" => Later(ask[r].since, rollout)

\* The reader that scans has yet to walk, has the file still to read, or has read it.
WaitSees ==
  \A r \in Reader, f \in Rollout :
    LET a == ask[r] IN
    (/\ a.pc = "wait" /\ a.on = r
     /\ a.since[f].form \in {"plain", "gz"} /\ rollout[f].form = a.since[f].form)
    => \/ scan[r].pc = "walk"
       \/ f \in DOMAIN scan[r].found /\ scan[r].found[f] = a.since[f].form
       \/ \E e \in scan[r].seen : e.file = f /\ e.at >= a.since[f].at

\* What a scan has read, and what the catalog has, is no newer than the files, and
\* a scan reads no file as it was before the catalog's.
SeenOld ==
  /\ \A r \in Reader : \A e \in scan[r].seen : NoNewer(e)
  /\ \A t \in SessionId : sessions[t] # Missing =>
       /\ NoNewer(sessions[t])
       /\ \A r \in Reader : scan[r].pc # "idle" =>
            \A e \in scan[r].seen : e.file = sessions[t].file => e.at >= sessions[t].at

\* The inductive invariant.
CatInv == CatTypes /\ OneScan /\ SinceLater /\ WaitSees /\ ForcedSees /\ SeenOld
----------------------------------------------------------------------------
(* The newest entry of a session                                           *)

\* Newest is one of the entries, and none of them is newer.
LEMMA NewestIsNewest ==
  ASSUME NEW S \in SUBSET SeenEntry, S # {}
  PROVE  Newest(S) \in S /\ \A d \in S : Newest(S).at >= d.at
<1>1. Rollout \subseteq Nat /\ MaxTime \in Nat
  BY CatalogAssumption
<1>2. \A e \in S : e.at \in Nat /\ e.at <= MaxTime /\ e.file \in Nat
  <2> TAKE e \in S
  <2>1. e.file \in Rollout /\ e.at \in 0..MaxTime
    BY DEF SeenEntry
  <2>2. \A x \in 0..MaxTime : x \in Nat /\ x <= MaxTime
    BY <1>1
  <2>3. e.at \in Nat /\ e.at <= MaxTime
    BY <2>1, <2>2, Zenon
  <2> QED
    BY <1>1, <2>1, <2>3
<1> DEFINE Ages == {n \in Nat : \E e \in S : n + e.at = MaxTime}
<1>3. PICK n \in Ages : \A m \in Ages : n <= m
  <2>1. Ages \in SUBSET Nat
    OBVIOUS
  <2>2. PICK e \in S : TRUE
    OBVIOUS
  <2>3. MaxTime - e.at \in Ages
    BY <1>1, <1>2, <2>2
  <2> QED
    BY <2>1, <2>3, LeastNumber
<1>4. PICK e \in S : n + e.at = MaxTime
  BY <1>3
<1>5. \A d \in S : e.at >= d.at
  <2> TAKE d \in S
  <2>1. MaxTime - d.at \in Ages
    BY <1>1, <1>2
  <2> QED
    BY <1>1, <1>2, <1>3, <1>4, <2>1
<1> DEFINE Own == {m \in Nat : \E d \in S : d.at = e.at /\ d.file = m}
<1>6. PICK m \in Own : \A k \in Own : m <= k
  <2>1. Own \in SUBSET Nat
    OBVIOUS
  <2>2. e.file \in Own
    BY <1>2, <1>4
  <2> QED
    BY <2>1, <2>2, LeastNumber
<1>7. PICK b \in S : b.at = e.at /\ b.file = m
  BY <1>6
<1>8. \A d \in S : b.at > d.at \/ (b.at = d.at /\ b.file <= d.file)
  <2> TAKE d \in S
  <2>1. CASE d.at = e.at
    <3>1. d.file \in Own
      BY <1>2, <2>1
    <3> QED
      BY <1>6, <1>7, <2>1, <3>1
  <2>2. CASE d.at # e.at
    BY <1>2, <1>4, <1>5, <1>7, <2>2
  <2> QED
    BY <2>1, <2>2
<1>9. Newest(S) \in S /\ \A d \in S : Newest(S).at > d.at \/ (Newest(S).at = d.at /\ Newest(S).file <= d.file)
  BY <1>8 DEF Newest
<1> QED
  BY <1>2, <1>9

\* The result of a scan: nothing for a session it has not seen, and else an entry of
\* the session that is not older than any other.
LEMMA ResultIsNewest ==
  ASSUME NEW S \in SUBSET SeenEntry
  PROVE  /\ Result(S) \in Results
         /\ \A t \in SessionId : Result(S)[t] # Missing =>
              Result(S)[t] \in S /\ IdOf[Result(S)[t].file] = t
         /\ \A d \in S : /\ Result(S)[IdOf[d.file]] # Missing
                         /\ Result(S)[IdOf[d.file]].at >= d.at
<1> DEFINE own(t) == {e \in S : IdOf[e.file] = t}
<1>1. \A e \in SeenEntry : e # Missing
  BY DEF SeenEntry, Missing
<1>2. \A t \in SessionId : own(t) # {} => Newest(own(t)) \in own(t) /\ \A d \in own(t) : Newest(own(t)).at >= d.at
  <2> TAKE t \in SessionId
  <2>1. own(t) \in SUBSET SeenEntry
    OBVIOUS
  <2> HIDE DEF own
  <2> QED
    BY <2>1, NewestIsNewest
<1>3. \A t \in SessionId : Result(S)[t] = IF own(t) = {} THEN Missing ELSE Newest(own(t))
  BY DEF Result
<1>4. \A d \in S : IdOf[d.file] \in SessionId /\ d \in own(IdOf[d.file])
  BY DEF SessionId, SeenEntry
<1>5. Result(S) = [t \in SessionId |-> Result(S)[t]]
  BY DEF Result
<1>6. \A t \in SessionId : Result(S)[t] # Missing =>
              Result(S)[t] \in S /\ IdOf[Result(S)[t].file] = t
  BY <1>2, <1>3
<1>7. \A t \in SessionId : Result(S)[t] \in SeenEntry \cup {Missing}
  BY <1>6
<1>8. Result(S) \in Results
  BY <1>5, <1>7 DEF Results
<1>9. \A d \in S : /\ Result(S)[IdOf[d.file]] # Missing
                   /\ Result(S)[IdOf[d.file]].at >= d.at
  BY <1>1, <1>2, <1>3, <1>4
<1> QED
  BY <1>6, <1>8, <1>9
----------------------------------------------------------------------------
(* Files, entries and askers                                               *)

LEMMA TimesAreNumbers == \A x \in 0..MaxTime : x \in Nat /\ x <= MaxTime
BY CatalogAssumption

LEMMA FileKinds ==
  ASSUME NEW fs \in Files, NEW f \in Rollout
  PROVE  /\ fs[f] \in File
         /\ fs[f].form \in Form \cup {"none"}
         /\ fs[f].form # "none" => /\ fs[f].cwd \in Dir /\ fs[f].at \in 0..MaxTime
                                   /\ fs[f].at \in Nat
<1>1. fs[f] \in File
  BY DEF Files
<1>2. CASE fs[f] = Absent
  BY <1>1, <1>2 DEF Absent
<1>3. CASE fs[f] \in [form : Form, cwd : Dir, at : 0..MaxTime]
  <2>1. fs[f].form \in Form /\ fs[f].cwd \in Dir /\ fs[f].at \in 0..MaxTime
    BY <1>3
  <2> QED
    BY <1>1, <2>1, TimesAreNumbers
<1> QED
  BY <1>1, <1>2, <1>3 DEF File

LEMMA EntryKinds ==
  ASSUME NEW e \in SeenEntry
  PROVE  /\ e.file \in Rollout /\ e.form \in {"plain", "gz"} /\ e.at \in Nat
         /\ e # Missing
<1>1. e.file \in Rollout /\ e.form \in {"plain", "gz"} /\ e.at \in 0..MaxTime /\ e # Missing
  BY DEF SeenEntry, Missing
<1> QED
  BY <1>1, TimesAreNumbers

\* Later is transitive: what happened since holds after one more step.
LEMMA LaterStill ==
  ASSUME NEW a \in Files, NEW b \in Files, NEW c \in Files, Later(a, b), Later(b, c)
  PROVE  Later(a, c)
<1> SUFFICES ASSUME NEW f \in Rollout
             PROVE  /\ a[f].form # "plain" => c[f].form \in {a[f].form, "none"}
                    /\ c[f].form # "none" => a[f].form # "none" /\ c[f].at >= a[f].at
  BY DEF Later
<1>1. /\ a[f].form # "plain" => b[f].form \in {a[f].form, "none"}
      /\ b[f].form # "none" => a[f].form # "none" /\ b[f].at >= a[f].at
      /\ b[f].form # "plain" => c[f].form \in {b[f].form, "none"}
      /\ c[f].form # "none" => b[f].form # "none" /\ c[f].at >= b[f].at
  BY DEF Later
<1>2. /\ a[f].form # "none" => a[f].at \in Nat
      /\ b[f].form # "none" => b[f].at \in Nat
      /\ c[f].form # "none" => c[f].at \in Nat
  BY FileKinds
<1> QED
  BY <1>1, <1>2

LEMMA LaterNow ==
  ASSUME NEW a \in Files
  PROVE  Later(a, a)
<1> SUFFICES ASSUME NEW f \in Rollout
             PROVE  /\ a[f].form # "plain" => a[f].form \in {a[f].form, "none"}
                    /\ a[f].form # "none" => a[f].form # "none" /\ a[f].at >= a[f].at
  BY DEF Later
<1> QED
  BY FileKinds

\* A reader has asked nothing, waits or is answered.
LEMMA AskKinds ==
  ASSUME CatTypes, NEW r \in Reader
  PROVE  /\ ask[r].pc \in {"idle", "wait", "done"}
         /\ ask[r].pc = "idle" => ask[r] = NoAsk
         /\ ask[r].pc = "wait" => ask[r] \in Waiting
         /\ ask[r].pc = "done" => ask[r] \in Served
         /\ ask[r].pc # "idle" => ask[r].on \in Reader /\ ask[r].since \in Files
BY DEF CatTypes, NoAsk, Waiting, Served

----------------------------------------------------------------------------
(* Codex writes                                                            *)

LEMMA WritesGoForward ==
  ASSUME CatTypes, CodexWrites
  PROVE  /\ rollout' \in Files /\ Later(rollout, rollout')
         /\ UNCHANGED <<sessions, recent, scan, inFlight, ask>>
<1>1. rollout \in Files
  BY DEF CatTypes
<1>2. ASSUME NEW f \in Rollout, NEW new \in File, rollout' = [rollout EXCEPT ![f] = new],
             /\ rollout[f].form # "plain" => new.form \in {rollout[f].form, "none"}
             /\ new.form # "none" => rollout[f].form # "none" /\ new.at >= rollout[f].at
      PROVE  rollout' \in Files /\ Later(rollout, rollout')
  <2>1. rollout' \in Files
    BY <1>1, <1>2 DEF Files
  <2>2. \A g \in Rollout : rollout'[g] = IF g = f THEN new ELSE rollout[g]
    BY <1>1, <1>2 DEF Files
  <2>3. \A g \in Rollout : rollout[g].form # "none" => rollout[g].at >= rollout[g].at
    BY <1>1, FileKinds
  <2> QED
    BY <1>2, <2>1, <2>2, <2>3 DEF Later
<1>3. ASSUME NEW f \in Rollout, NEW dir \in Dir, Grow(f, dir)
      PROVE  rollout' \in Files /\ Later(rollout, rollout')
  <2> DEFINE old == rollout[f]
             new == [form |-> old.form, cwd |-> dir, at |-> old.at + 1]
  <2>1. old \in [form : Form, cwd : Dir, at : 0..MaxTime] /\ old.form = "plain" /\ old.at < MaxTime
    BY <1>1, <1>3, FileKinds DEF Grow, File, Absent
  <2>2. old.at \in Nat /\ old.at + 1 \in 0..MaxTime
    <3>1. old.at \in 0..MaxTime
      BY <2>1
    <3> QED
      BY <2>1, <3>1, CatalogAssumption
  <2>3. rollout' = [rollout EXCEPT ![f] = new]
    <3>1. [[old EXCEPT !.cwd = dir] EXCEPT !.at = old.at + 1] = new
      <4> DEFINE mid == [form |-> old.form, cwd |-> dir, at |-> old.at]
      <4>1. [old EXCEPT !.cwd = dir] = mid
        BY <2>1
      <4>2. \A n : [mid EXCEPT !.at = n] = [form |-> old.form, cwd |-> dir, at |-> n]
        OBVIOUS
      <4> HIDE DEF mid
      <4> QED
        BY <4>1, <4>2
    <3>2. rollout' = [rollout EXCEPT ![f] = [[old EXCEPT !.cwd = dir] EXCEPT !.at = old.at + 1]]
      BY <1>1, <1>3, <2>1 DEF Grow, Files
    <3> QED
      BY <3>1, <3>2
  <2>4. new \in File
    BY <2>1, <2>2 DEF File
  <2>5. new.form = "plain" /\ new.at >= old.at
    BY <2>1, <2>2
  <2> QED
    BY <1>2, <2>1, <2>3, <2>4, <2>5
<1>4. ASSUME NEW f \in Rollout, NEW form \in Form, Pack(f, form)
      PROVE  rollout' \in Files /\ Later(rollout, rollout')
  <2> DEFINE old == rollout[f]
             new == [form |-> form, cwd |-> old.cwd, at |-> old.at]
  <2>1. old \in [form : Form, cwd : Dir, at : 0..MaxTime] /\ old.form = "plain"
    BY <1>1, <1>4, FileKinds DEF Pack, File, Absent
  <2>2. rollout' = [rollout EXCEPT ![f] = new]
    <3>1. [old EXCEPT !.form = form] = new
      BY <2>1
    <3>2. rollout' = [rollout EXCEPT ![f] = [old EXCEPT !.form = form]]
      BY <1>1, <1>4 DEF Pack, Files
    <3> QED
      BY <3>1, <3>2
  <2>3. new \in File
    BY <2>1 DEF File
  <2>4. new.at >= old.at
    BY <2>1, FileKinds, <1>1
  <2> QED
    BY <1>2, <2>1, <2>2, <2>3, <2>4
<1>5. ASSUME NEW f \in Rollout, Remove(f)
      PROVE  rollout' \in Files /\ Later(rollout, rollout')
  <2>1. Absent \in File /\ Absent.form = "none"
    BY DEF File, Absent
  <2> QED
    BY <1>2, <1>5, <2>1 DEF Remove
<1> QED
  BY <1>3, <1>4, <1>5 DEF CodexWrites, Grow, Pack, Remove

\* A file that has the form it had has had it all along.
LEMMA FormKept ==
  ASSUME NEW a, NEW b, NEW c, Later(a, b), Later(b, c), NEW f \in Rollout,
         a[f].form \in {"plain", "gz"}, c[f].form = a[f].form
  PROVE  b[f].form = a[f].form
BY DEF Later

LEMMA StillNoNewer ==
  ASSUME NEW e \in SeenEntry, rollout \in Files, rollout' \in Files,
         Later(rollout, rollout'), NoNewer(e)
  PROVE  NoNewer(e)'
<1>1. e.file \in Rollout /\ e.at \in Nat
  BY EntryKinds
<1>2. /\ rollout[e.file].form # "none" => rollout[e.file].at \in Nat
      /\ rollout'[e.file].form # "none" => rollout'[e.file].at \in Nat
  BY <1>1, FileKinds
<1>3. rollout'[e.file].form # "none" => /\ rollout[e.file].form # "none"
                                        /\ rollout'[e.file].at >= rollout[e.file].at
  BY <1>1 DEF Later
<1> QED
  BY <1>1, <1>2, <1>3 DEF NoNewer

LEMMA WritesKeep ==
  ASSUME CatInv, CodexWrites
  PROVE  CatInv'
<1>1. CatTypes /\ OneScan /\ SinceLater /\ WaitSees /\ ForcedSees /\ SeenOld
  BY DEF CatInv
<1>2. /\ rollout' \in Files /\ Later(rollout, rollout')
      /\ UNCHANGED <<sessions, recent, scan, inFlight, ask>>
  BY <1>1, WritesGoForward
<1>3. rollout \in Files
  BY <1>1 DEF CatTypes
<1>4. CatTypes'
  BY <1>1, <1>2 DEF CatTypes
<1>5. OneScan'
  BY <1>1, <1>2 DEF OneScan
<1>6. SinceLater'
  <2> SUFFICES ASSUME NEW r \in Reader, ask[r].pc # "idle"
               PROVE  Later(ask[r].since, rollout')
    BY <1>2 DEF SinceLater
  <2>1. ask[r].since \in Files /\ Later(ask[r].since, rollout)
    BY <1>1, AskKinds DEF SinceLater
  <2> QED
    BY <1>2, <1>3, <2>1, LaterStill
<1>7. \A r \in Reader, f \in Rollout :
        (/\ ask[r].pc # "idle" /\ ask[r].since[f].form \in {"plain", "gz"}
         /\ rollout'[f].form = ask[r].since[f].form)
        => rollout[f].form = ask[r].since[f].form
  <2> SUFFICES ASSUME NEW r \in Reader, NEW f \in Rollout, ask[r].pc # "idle",
                      ask[r].since[f].form \in {"plain", "gz"},
                      rollout'[f].form = ask[r].since[f].form
               PROVE  rollout[f].form = ask[r].since[f].form
    OBVIOUS
  <2>1. Later(ask[r].since, rollout)
    BY <1>1 DEF SinceLater
  <2> QED
    BY <1>2, <2>1, FormKept
<1>8. WaitSees'
  BY <1>1, <1>2, <1>7 DEF WaitSees
<1>9. ForcedSees'
  BY <1>1, <1>2, <1>7 DEF ForcedSees
<1>10. SeenOld'
  <2>1. \A r \in Reader : \A e \in scan[r].seen : e \in SeenEntry
    BY <1>1 DEF CatTypes
  <2>2. \A t \in SessionId : sessions[t] # Missing => sessions[t] \in SeenEntry
    BY <1>1 DEF CatTypes, Results
  <2>3. \A r \in Reader : \A e \in scan[r].seen : NoNewer(e)'
    BY <1>1, <1>2, <1>3, <2>1, StillNoNewer DEF SeenOld
  <2>4. \A t \in SessionId : sessions[t] # Missing => NoNewer(sessions[t])'
    <3> SUFFICES ASSUME NEW t \in SessionId, sessions[t] # Missing
                 PROVE  rollout'[sessions[t].file].form = "none" \/ rollout'[sessions[t].file].at >= sessions[t].at
      BY <1>2 DEF NoNewer
    <3>1. NoNewer(sessions[t]) /\ sessions[t] \in SeenEntry
      BY <1>1, <2>2 DEF SeenOld
    <3>2. ASSUME NEW e \in SeenEntry, NoNewer(e)
          PROVE  rollout'[e.file].form = "none" \/ rollout'[e.file].at >= e.at
      BY <1>2, <1>3, <3>2, StillNoNewer DEF NoNewer
    <3> QED
      BY <3>1, <3>2
  <2> QED
    BY <1>1, <1>2, <2>3, <2>4 DEF SeenOld, NoNewer
<1> QED
  BY <1>4, <1>5, <1>6, <1>8, <1>9, <1>10 DEF CatInv

----------------------------------------------------------------------------
(* Asking                                                                  *)

LEMMA RefreshKeeps ==
  ASSUME CatInv, NEW r \in Reader, NEW force \in BOOLEAN, ask[r].pc # "wait", Refresh(r, force)
  PROVE  CatInv'
<1>1. CatTypes /\ OneScan /\ SinceLater /\ WaitSees /\ ForcedSees /\ SeenOld
  BY DEF CatInv
<1>2. /\ rollout \in Files /\ ask[r].pc # "wait"
      /\ UNCHANGED <<rollout, sessions, recent>> /\ Later(rollout, rollout)
  BY <1>1, LaterNow DEF CatTypes, Refresh
<1>3. ASSUME NEW a \in Waiting \cup Served, ask' = [ask EXCEPT ![r] = a],
             a.since = rollout
      PROVE  SinceLater'
  <2>1. \A p \in Reader : ask'[p] = IF p = r THEN a ELSE ask[p]
    BY <1>1, <1>3 DEF CatTypes
  <2> QED
    BY <1>1, <1>2, <1>3, <2>1 DEF SinceLater
<1>4. CASE ~force /\ recent
  <2> DEFINE a == Answered(Asking(force, r), sessions)
  <2>1. ask' = [ask EXCEPT ![r] = a] /\ UNCHANGED <<scan, inFlight>>
    BY <1>4 DEF Refresh, UseRecent
  <2>2. a \in Served /\ a.pc = "done" /\ a.forced = FALSE /\ a.since = rollout
    BY <1>1, <1>2, <1>4 DEF CatTypes, Served, Answered, Asking
  <2> HIDE DEF a
  <2>3. \A p \in Reader : ask'[p] = IF p = r THEN a ELSE ask[p]
    BY <1>1, <2>1 DEF CatTypes
  <2>4. CatTypes'
    BY <1>1, <1>2, <2>1, <2>2 DEF CatTypes
  <2>5. OneScan'
    BY <1>1, <1>2, <2>1, <2>2, <2>3 DEF OneScan
  <2>6. SinceLater'
    BY <1>3, <2>1, <2>2
  <2>7. WaitSees'
    BY <1>1, <1>2, <2>1, <2>2, <2>3 DEF WaitSees
  <2>8. ForcedSees'
    BY <1>1, <1>2, <2>1, <2>2, <2>3 DEF ForcedSees
  <2>9. SeenOld'
    BY <1>1, <1>2, <2>1 DEF SeenOld, NoNewer
  <2> QED
    BY <2>4, <2>5, <2>6, <2>7, <2>8, <2>9 DEF CatInv
<1>5. CASE ~(~force /\ recent) /\ inFlight # Nobody
  <2> DEFINE a == Asking(force, inFlight)
  <2>1. ask' = [ask EXCEPT ![r] = a] /\ UNCHANGED <<scan, inFlight>>
    BY <1>5 DEF Refresh, Join
  <2>2. a \in Waiting /\ a.pc = "wait" /\ a.on = inFlight /\ a.since = rollout
    BY <1>1, <1>2, <1>5 DEF CatTypes, Waiting, Asking
  <2> HIDE DEF a
  <2>3. \A p \in Reader : ask'[p] = IF p = r THEN a ELSE ask[p]
    BY <1>1, <2>1 DEF CatTypes
  <2>4. CatTypes'
    BY <1>1, <1>2, <2>1, <2>2 DEF CatTypes
  <2>5. OneScan' /\ inFlight # r
    BY <1>1, <1>2, <2>1, <2>2, <2>3 DEF OneScan
  <2>6. SinceLater'
    BY <1>3, <2>1, <2>2
  <2>7. WaitSees'
    BY <1>1, <1>2, <2>1, <2>2, <2>3, <2>5 DEF WaitSees
  <2>8. ForcedSees'
    BY <1>1, <1>2, <2>1, <2>2, <2>3 DEF ForcedSees
  <2>9. SeenOld'
    BY <1>1, <1>2, <2>1 DEF SeenOld, NoNewer
  <2> QED
    BY <2>4, <2>5, <2>6, <2>7, <2>8, <2>9 DEF CatInv
<1>6. CASE ~(~force /\ recent) /\ inFlight = Nobody
  <2> DEFINE a == Asking(force, r)
             new == [pc |-> "walk", found |-> [f \in {} |-> "none"], seen |-> {}]
  <2>1. ask' = [ask EXCEPT ![r] = a] /\ scan' = [scan EXCEPT ![r] = new] /\ inFlight' = r
    <3>1. [NoScan EXCEPT !.pc = "walk"] = new
      <4>1. \A fs : [[pc |-> "idle", found |-> fs, seen |-> {}] EXCEPT !.pc = "walk"]
                   = [pc |-> "walk", found |-> fs, seen |-> {}]
        OBVIOUS
      <4> QED
        BY <4>1, Zenon DEF NoScan
    <3> QED
      BY <1>6, <3>1 DEF Refresh, StartScan
  <2>2. a \in Waiting /\ a.pc = "wait" /\ a.on = r /\ a.since = rollout
    BY <1>2 DEF Waiting, Asking
  <2>3. /\ new \in [pc : {"idle", "walk", "inspect"}, found : Founds, seen : SUBSET SeenEntry]
        /\ new.pc = "walk" /\ new.seen = {}
    <3>1. [f \in {} |-> "none"] \in [{} -> Form]
      OBVIOUS
    <3>2. [f \in {} |-> "none"] \in Founds
      BY <3>1 DEF Founds
    <3> QED
      BY <3>2
  <2> HIDE DEF a, new
  <2>4. \A p \in Reader : /\ ask'[p] = IF p = r THEN a ELSE ask[p]
                          /\ scan'[p] = IF p = r THEN new ELSE scan[p]
    BY <1>1, <2>1 DEF CatTypes
  <2>5. CatTypes'
    BY <1>1, <1>2, <2>1, <2>2, <2>3 DEF CatTypes
  <2>6. \A p \in Reader : ask[p].pc # "wait" /\ scan[p].pc = "idle"
    BY <1>1, <1>6, AskKinds, CatalogAssumption DEF OneScan
  <2>7. SinceLater'
    BY <1>3, <2>1, <2>2
  <2>8. OneScan'
    <3>1. \A p \in Reader : (scan'[p].pc # "idle" <=> inFlight' = p)
      BY <2>1, <2>3, <2>4, <2>6
    <3>2. \A p \in Reader : ask'[p].pc = "wait" => inFlight' = ask'[p].on
      BY <2>1, <2>2, <2>4, <2>6
    <3>3. \A p \in Reader : inFlight' = p => ask'[p].pc = "wait"
      BY <2>1, <2>2, <2>4
    <3> QED
      BY <3>1, <3>2, <3>3 DEF OneScan
  <2>9. WaitSees'
    BY <1>2, <2>1, <2>2, <2>3, <2>4, <2>6 DEF WaitSees
  <2>10. ForcedSees'
    BY <1>1, <1>2, <2>2, <2>4 DEF ForcedSees
  <2>11. SeenOld'
    BY <1>1, <1>2, <2>3, <2>4 DEF SeenOld, NoNewer
  <2> QED
    BY <2>5, <2>7, <2>8, <2>9, <2>10, <2>11 DEF CatInv
<1> QED
  BY <1>4, <1>5, <1>6

LEMMA AskKeeps ==
  ASSUME CatInv, NEW r \in Reader, NEW force \in BOOLEAN, Ask(r, force)
  PROVE  CatInv'
BY RefreshKeeps DEF Ask

LEMMA AskAgainKeeps ==
  ASSUME CatInv, NEW r \in Reader, NEW force \in BOOLEAN, AskAgain(r, force)
  PROVE  CatInv'
BY RefreshKeeps DEF AskAgain

LEMMA TakeKeeps ==
  ASSUME CatInv, NEW r \in Reader, Take(r)
  PROVE  CatInv'
<1>1. CatTypes /\ OneScan /\ SinceLater /\ WaitSees /\ ForcedSees /\ SeenOld
  BY DEF CatInv
<1>2. /\ ask[r].pc = "done" /\ ask' = [ask EXCEPT ![r] = NoAsk]
      /\ UNCHANGED <<rollout, sessions, recent, scan, inFlight>>
  BY DEF Take
<1>3. NoAsk.pc = "idle"
  BY DEF NoAsk
<1>4. \A p \in Reader : ask'[p] = IF p = r THEN NoAsk ELSE ask[p]
  BY <1>1, <1>2 DEF CatTypes
<1>5. CatTypes'
  BY <1>1, <1>2 DEF CatTypes
<1>6. OneScan'
  BY <1>1, <1>2, <1>3, <1>4 DEF OneScan
<1>7. SinceLater'
  BY <1>1, <1>2, <1>3, <1>4 DEF SinceLater
<1>8. WaitSees'
  BY <1>1, <1>2, <1>3, <1>4 DEF WaitSees
<1>9. ForcedSees'
  BY <1>1, <1>2, <1>3, <1>4 DEF ForcedSees
<1>10. SeenOld'
  BY <1>1, <1>2 DEF SeenOld, NoNewer
<1> QED
  BY <1>5, <1>6, <1>7, <1>8, <1>9, <1>10 DEF CatInv

LEMMA ExpireKeeps ==
  ASSUME CatInv, Expire
  PROVE  CatInv'
<1>1. UNCHANGED <<rollout, sessions, scan, inFlight, ask>> /\ recent' = FALSE
  BY DEF Expire
<1> QED
  BY <1>1 DEF CatInv, CatTypes, OneScan, SinceLater, WaitSees, ForcedSees, SeenOld, NoNewer

----------------------------------------------------------------------------
(* The scan                                                                *)

\* What a step of a scan keeps that leaves the catalog and the askers alone.
LEMMA ScanStepKeeps ==
  ASSUME CatInv, UNCHANGED <<rollout, sessions, recent, inFlight, ask>>,
         NEW r \in Reader, NEW new, scan[r].pc # "idle", scan' = [scan EXCEPT ![r] = new],
         new \in [pc : {"walk", "inspect"}, found : Founds, seen : SUBSET SeenEntry],
         \A e \in new.seen : NoNewer(e),
         \A t \in SessionId : sessions[t] # Missing =>
           \A e \in new.seen : e.file = sessions[t].file => e.at >= sessions[t].at
  PROVE  /\ CatTypes' /\ OneScan' /\ SinceLater' /\ ForcedSees' /\ SeenOld'
         /\ \A p \in Reader : scan'[p] = IF p = r THEN new ELSE scan[p]
<1>1. CatTypes /\ OneScan /\ SinceLater /\ ForcedSees /\ SeenOld
  BY DEF CatInv
<1>2. \A p \in Reader : scan'[p] = IF p = r THEN new ELSE scan[p]
  BY <1>1 DEF CatTypes
<1>3. new.pc # "idle"
  OBVIOUS
<1>4. CatTypes'
  <2>1. new \in [pc : {"idle", "walk", "inspect"}, found : Founds, seen : SUBSET SeenEntry]
    OBVIOUS
  <2> QED
    BY <1>1, <2>1 DEF CatTypes
<1>5. OneScan'
  BY <1>1, <1>2, <1>3 DEF OneScan
<1>6. SinceLater' /\ ForcedSees'
  BY <1>1 DEF SinceLater, ForcedSees
<1>7. SeenOld'
  BY <1>1, <1>2 DEF SeenOld, NoNewer
<1> QED
  BY <1>2, <1>4, <1>5, <1>6, <1>7

LEMMA WalkKeeps ==
  ASSUME CatInv, NEW r \in Reader, Walk(r)
  PROVE  CatInv'
<1>1. CatTypes /\ OneScan /\ SinceLater /\ WaitSees /\ ForcedSees /\ SeenOld
  BY DEF CatInv
<1> DEFINE found == [f \in {f \in Rollout : Present(f)} |-> rollout[f].form]
           new == [pc |-> "inspect", found |-> found, seen |-> scan[r].seen]
<1>2. UNCHANGED <<rollout, sessions, recent, inFlight, ask>> /\ scan[r].pc = "walk"
  BY DEF Walk
<1>3. scan[r] \in [pc : {"idle", "walk", "inspect"}, found : Founds, seen : SUBSET SeenEntry]
  BY <1>1 DEF CatTypes
<1>4. found \in Founds
  <2> DEFINE D == {f \in Rollout : Present(f)}
  <2>1. \A f \in D : rollout[f].form \in Form
    BY <1>1, FileKinds DEF Present, CatTypes
  <2>2. found \in [D -> Form]
    BY <2>1
  <2>3. D \in SUBSET Rollout
    OBVIOUS
  <2> HIDE DEF D, found
  <2> QED
    BY <2>2, <2>3 DEF Founds
<1>5. scan' = [scan EXCEPT ![r] = new]
  <2>1. \A g : [[scan[r] EXCEPT !.pc = "inspect"] EXCEPT !.found = g]
               = [pc |-> "inspect", found |-> g, seen |-> scan[r].seen]
    <3> DEFINE mid == [pc |-> "inspect", found |-> scan[r].found, seen |-> scan[r].seen]
    <3>1. [scan[r] EXCEPT !.pc = "inspect"] = mid
      BY <1>3
    <3>2. \A g : [mid EXCEPT !.found = g] = [pc |-> "inspect", found |-> g, seen |-> scan[r].seen]
      OBVIOUS
    <3> HIDE DEF mid
    <3> QED
      BY <3>1, <3>2
  <2>2. scan' = [scan EXCEPT ![r] = [[scan[r] EXCEPT !.pc = "inspect"] EXCEPT !.found = found]]
    BY <1>1 DEF Walk, CatTypes
  <2> HIDE DEF found
  <2> QED
    BY <2>1, <2>2
<1>6. \A f \in Rollout : rollout[f].form # "none" => f \in DOMAIN found /\ found[f] = rollout[f].form
  BY DEF Present
<1> HIDE DEF found
<1>7. new \in [pc : {"walk", "inspect"}, found : Founds, seen : SUBSET SeenEntry]
  BY <1>3, <1>4
<1>8. new.seen = scan[r].seen /\ new.found = found
  OBVIOUS
<1> HIDE DEF new
<1>9. /\ CatTypes' /\ OneScan' /\ SinceLater' /\ ForcedSees' /\ SeenOld'
      /\ \A p \in Reader : scan'[p] = IF p = r THEN new ELSE scan[p]
  <2>1. \A e \in new.seen : NoNewer(e)
    BY <1>1, <1>8 DEF SeenOld
  <2>2. \A t \in SessionId : sessions[t] # Missing =>
          \A e \in new.seen : e.file = sessions[t].file => e.at >= sessions[t].at
    BY <1>1, <1>2, <1>8 DEF SeenOld
  <2>3. scan[r].pc # "idle"
    BY <1>2
  <2> QED
    BY <1>2, <1>5, <1>7, <2>1, <2>2, <2>3, ScanStepKeeps
<1>10. WaitSees'
  BY <1>1, <1>2, <1>6, <1>8, <1>9 DEF WaitSees
<1> QED
  BY <1>9, <1>10 DEF CatInv

LEMMA InspectKeeps ==
  ASSUME CatInv, NEW r \in Reader, NEW f \in Rollout, Inspect(r, f)
  PROVE  CatInv'
<1>1. CatTypes /\ OneScan /\ SinceLater /\ WaitSees /\ ForcedSees /\ SeenOld
  BY DEF CatInv
<1>2. /\ UNCHANGED <<rollout, sessions, recent, inFlight, ask>>
      /\ scan[r].pc = "inspect" /\ f \in DOMAIN scan[r].found
  BY DEF Inspect
<1>3. scan[r] \in [pc : {"idle", "walk", "inspect"}, found : Founds, seen : SUBSET SeenEntry]
  BY <1>1 DEF CatTypes
<1> DEFINE old == scan[r].found
           found == [g \in DOMAIN old \ {f} |-> old[g]]
           seen == IF Readable(f, old[f]) THEN scan[r].seen \cup {EntryOf(f)} ELSE scan[r].seen
           new == [pc |-> "inspect", found |-> found, seen |-> seen]
<1>4. found \in Founds
  <2>1. PICK D \in SUBSET Rollout : old \in [D -> Form]
    BY <1>3 DEF Founds
  <2>2. found \in [D \ {f} -> Form]
    BY <2>1
  <2>3. D \ {f} \in SUBSET Rollout
    BY <2>1
  <2> HIDE DEF found
  <2> QED
    BY <2>2, <2>3 DEF Founds
<1>5. Readable(f, old[f]) => /\ EntryOf(f) \in SeenEntry /\ EntryOf(f).file = f
                             /\ EntryOf(f).at = rollout[f].at /\ rollout[f].form # "none"
  <2> SUFFICES ASSUME Readable(f, old[f])
               PROVE  /\ EntryOf(f) \in SeenEntry /\ EntryOf(f).file = f
                      /\ EntryOf(f).at = rollout[f].at /\ rollout[f].form # "none"
    OBVIOUS
  <2>1. old[f] \in Form
    BY <1>2, <1>3 DEF Founds
  <2>2. rollout[f].form \in {"plain", "gz"}
    BY <2>1 DEF Readable, Form
  <2>3. rollout[f].cwd \in Dir /\ rollout[f].at \in 0..MaxTime
    BY <1>1, <2>2, FileKinds DEF CatTypes
  <2> QED
    BY <2>2, <2>3 DEF EntryOf, SeenEntry
<1>6. scan' = [scan EXCEPT ![r] = new]
  <2>1. \A g, h : [[scan[r] EXCEPT !.found = g] EXCEPT !.seen = h]
                  = [pc |-> "inspect", found |-> g, seen |-> h]
    <3> DEFINE mid(g) == [pc |-> "inspect", found |-> g, seen |-> scan[r].seen]
    <3>1. \A g : [scan[r] EXCEPT !.found = g] = mid(g)
      BY <1>2, <1>3
    <3>2. \A g, h : [mid(g) EXCEPT !.seen = h] = [pc |-> "inspect", found |-> g, seen |-> h]
      OBVIOUS
    <3> HIDE DEF mid
    <3> QED
      BY <3>1, <3>2
  <2>2. scan' = [scan EXCEPT ![r] = [[scan[r] EXCEPT !.found = found] EXCEPT !.seen = seen]]
    BY <1>1, <1>3 DEF Inspect, CatTypes
  <2> HIDE DEF found, seen
  <2> QED
    BY <2>1, <2>2
<1>7. \A e \in seen : e \in scan[r].seen \/ (Readable(f, old[f]) /\ e = EntryOf(f))
  OBVIOUS
<1>8. scan[r].seen \subseteq seen /\ (Readable(f, old[f]) => EntryOf(f) \in seen)
  OBVIOUS
<1>9. \A g \in DOMAIN old : g # f => g \in DOMAIN found /\ found[g] = old[g]
  OBVIOUS
<1> HIDE DEF found, seen
<1>10. seen \in SUBSET SeenEntry
  BY <1>3, <1>5, <1>7
<1>11. /\ new \in [pc : {"walk", "inspect"}, found : Founds, seen : SUBSET SeenEntry]
       /\ new.pc = "inspect" /\ new.seen = seen /\ new.found = found
  BY <1>4, <1>10
<1> HIDE DEF new
<1>12. /\ CatTypes' /\ OneScan' /\ SinceLater' /\ ForcedSees' /\ SeenOld'
       /\ \A p \in Reader : scan'[p] = IF p = r THEN new ELSE scan[p]
  <2>1. \A e \in new.seen : NoNewer(e)
    <3>1. Readable(f, old[f]) => NoNewer(EntryOf(f))
      BY <1>1, <1>5, FileKinds DEF NoNewer, CatTypes
    <3> QED
      BY <1>1, <1>7, <1>11, <3>1 DEF SeenOld
  <2>2. \A t \in SessionId : sessions[t] # Missing =>
          \A e \in new.seen : e.file = sessions[t].file => e.at >= sessions[t].at
    <3> SUFFICES ASSUME NEW t \in SessionId, sessions[t] # Missing,
                        NEW e \in new.seen, e.file = sessions[t].file
                 PROVE  e.at >= sessions[t].at
      OBVIOUS
    <3>1. CASE e \in scan[r].seen
      BY <1>1, <1>2, <3>1 DEF SeenOld
    <3>2. CASE Readable(f, old[f]) /\ e = EntryOf(f)
      BY <1>1, <1>5, <3>2 DEF SeenOld, NoNewer
    <3> QED
      BY <1>7, <1>11, <3>1, <3>2
  <2>3. scan[r].pc # "idle"
    BY <1>2
  <2> QED
    BY <1>2, <1>6, <1>11, <2>1, <2>2, <2>3, ScanStepKeeps
<1>13. WaitSees'
  <2> SUFFICES ASSUME NEW p \in Reader, NEW g \in Rollout, ask[p].pc = "wait", ask[p].on = p,
                      ask[p].since[g].form \in {"plain", "gz"},
                      rollout[g].form = ask[p].since[g].form
               PROVE  \/ scan'[p].pc = "walk"
                      \/ g \in DOMAIN scan'[p].found /\ scan'[p].found[g] = ask[p].since[g].form
                      \/ \E e \in scan'[p].seen : e.file = g /\ e.at >= ask[p].since[g].at
    BY <1>2 DEF WaitSees
  <2>1. \/ scan[p].pc = "walk"
        \/ g \in DOMAIN scan[p].found /\ scan[p].found[g] = ask[p].since[g].form
        \/ \E e \in scan[p].seen : e.file = g /\ e.at >= ask[p].since[g].at
    BY <1>1 DEF WaitSees
  <2>2. CASE p # r
    BY <1>12, <2>1, <2>2
  <2>3. CASE p = r /\ g = f /\ f \in DOMAIN old /\ old[f] = ask[p].since[g].form
    <3>1. Readable(f, old[f])
      BY <2>3 DEF Readable
    <3>2. rollout[f].at >= ask[p].since[f].at
      BY <1>1, <1>5, <2>3, <3>1 DEF SinceLater, Later
    <3> QED
      BY <1>5, <1>8, <1>11, <1>12, <2>3, <3>1, <3>2
  <2>4. CASE p = r /\ g # f /\ g \in DOMAIN old /\ old[g] = ask[p].since[g].form
    BY <1>9, <1>11, <1>12, <2>4
  <2>5. CASE p = r /\ \E e \in scan[p].seen : e.file = g /\ e.at >= ask[p].since[g].at
    BY <1>8, <1>11, <1>12, <2>5
  <2> QED
    BY <1>2, <2>1, <2>2, <2>3, <2>4, <2>5
<1> QED
  BY <1>12, <1>13 DEF CatInv

LEMMA EndScanKeeps ==
  ASSUME CatInv, NEW r \in Reader, EndScan(r)
  PROVE  CatInv'
<1>1. CatTypes /\ OneScan /\ SinceLater /\ WaitSees /\ ForcedSees /\ SeenOld
  BY DEF CatInv
<1> DEFINE seen == scan[r].seen
           result == Result(seen)
<1>2. /\ scan[r].pc = "inspect" /\ DOMAIN scan[r].found = {}
      /\ sessions' = result /\ recent' = TRUE /\ scan' = [scan EXCEPT ![r] = NoScan]
      /\ inFlight' = IF inFlight = r THEN Nobody ELSE inFlight
      /\ ask' = [a \in Reader |-> IF ask[a].pc = "wait" /\ ask[a].on = r
                                  THEN Answered(ask[a], result) ELSE ask[a]]
      /\ UNCHANGED rollout
  BY DEF EndScan
<1>3. seen \in SUBSET SeenEntry
  BY <1>1 DEF CatTypes
<1> HIDE DEF result
<1>4. /\ result \in Results
      /\ \A t \in SessionId : result[t] # Missing => result[t] \in seen /\ IdOf[result[t].file] = t
      /\ \A d \in seen : result[IdOf[d.file]] # Missing /\ result[IdOf[d.file]].at >= d.at
  BY <1>3, ResultIsNewest DEF result
<1>5. inFlight = r /\ inFlight' = Nobody
  BY <1>1, <1>2 DEF OneScan
<1>6. /\ NoScan \in [pc : {"idle", "walk", "inspect"}, found : Founds, seen : SUBSET SeenEntry]
      /\ NoScan.pc = "idle" /\ NoScan.seen = {}
  <2>1. [f \in {} |-> "none"] \in [{} -> Form]
    OBVIOUS
  <2>2. [f \in {} |-> "none"] \in Founds
    BY <2>1 DEF Founds
  <2> QED
    BY <2>2 DEF NoScan
<1>7. \A p \in Reader : scan'[p] = IF p = r THEN NoScan ELSE scan[p]
  BY <1>1, <1>2 DEF CatTypes
<1>8. \A p \in Reader : scan'[p].pc = "idle"
  BY <1>1, <1>5, <1>6, <1>7 DEF OneScan
<1>9. \A p \in Reader :
        \/ /\ ask[p].pc = "wait" /\ ask[p] \in Waiting
           /\ ask'[p] \in Served /\ ask'[p].since = ask[p].since /\ ask'[p].on = r
           /\ ask'[p].got = result /\ ask[p].on = r
        \/ ask[p].pc # "wait" /\ ask'[p] = ask[p]
  <2> SUFFICES ASSUME NEW p \in Reader
               PROVE  \/ /\ ask[p].pc = "wait" /\ ask[p] \in Waiting
                         /\ ask'[p] \in Served /\ ask'[p].since = ask[p].since /\ ask'[p].on = r
                         /\ ask'[p].got = result /\ ask[p].on = r
                      \/ ask[p].pc # "wait" /\ ask'[p] = ask[p]
    OBVIOUS
  <2>1. CASE ask[p].pc = "wait"
    <3>1. ask[p].on = r /\ ask[p] \in Waiting
      BY <1>1, <1>5, <2>1, AskKinds DEF OneScan
    <3>2. ask'[p] = Answered(ask[p], result)
      BY <1>2, <2>1, <3>1
    <3>3. Answered(ask[p], result) \in Served
      BY <1>4, <3>1 DEF Answered, Waiting, Served
    <3> QED
      BY <2>1, <3>1, <3>2, <3>3 DEF Answered
  <2>2. CASE ask[p].pc # "wait"
    BY <1>2, <2>2
  <2> QED
    BY <2>1, <2>2
<1>10. \A p \in Reader : ask'[p].pc # "wait"
  BY <1>9 DEF Served
<1>11. CatTypes'
  <2>1. ask' \in [Reader -> {NoAsk} \cup Waiting \cup Served]
    <3>1. \A p \in Reader : ask'[p] \in {NoAsk} \cup Waiting \cup Served
      BY <1>1, <1>9 DEF CatTypes
    <3>2. ask' = [p \in Reader |-> ask'[p]]
      BY <1>2
    <3> QED
      BY <3>1, <3>2
  <2>2. scan' \in [Reader -> [pc : {"idle", "walk", "inspect"}, found : Founds, seen : SUBSET SeenEntry]]
    BY <1>1, <1>2, <1>6 DEF CatTypes
  <2> QED
    BY <1>1, <1>2, <1>4, <1>5, <2>1, <2>2 DEF CatTypes
<1>12. OneScan'
  BY <1>5, <1>8, <1>10, CatalogAssumption DEF OneScan
<1>13. SinceLater'
  BY <1>1, <1>2, <1>9 DEF SinceLater
<1>14. WaitSees'
  BY <1>10 DEF WaitSees
<1>15. ForcedSees'
  <2> SUFFICES ASSUME NEW p \in Reader, NEW f \in Rollout,
                      ask'[p].pc = "done", ask'[p].forced, ask'[p].on = p,
                      ask'[p].since[f].form \in {"plain", "gz"},
                      rollout[f].form = ask'[p].since[f].form
               PROVE  /\ ask'[p].got[IdOf[f]] # Missing
                      /\ ask'[p].got[IdOf[f]].at >= ask'[p].since[f].at
    BY <1>2 DEF ForcedSees
  <2>1. CASE ask[p].pc # "wait"
    BY <1>1, <1>9, <2>1 DEF ForcedSees
  <2>2. CASE ask[p].pc = "wait"
    <3>1. p = r /\ ask[p].on = p /\ ask'[p].since = ask[p].since /\ ask'[p].got = result
      BY <1>9, <2>2
    <3>2. PICK e \in seen : e.file = f /\ e.at >= ask[p].since[f].at
      BY <1>1, <1>2, <2>2, <3>1 DEF WaitSees
    <3>3. result[IdOf[f]] # Missing /\ result[IdOf[f]].at >= e.at
      BY <1>4, <3>2
    <3>4. result[IdOf[f]].at \in Nat /\ e.at \in Nat /\ ask[p].since[f].at \in Nat
      <4>1. IdOf[f] \in SessionId
        BY DEF SessionId
      <4>2. result[IdOf[f]] \in seen
        BY <1>4, <3>3, <4>1
      <4>3. ask[p].since \in Files
        BY <1>1, <2>2, AskKinds
      <4>4. ask[p].since[f].form # "none"
        BY <3>1
      <4> QED
        BY <1>3, <4>2, <4>3, <4>4, EntryKinds, FileKinds
    <3> QED
      BY <3>1, <3>2, <3>3, <3>4
  <2> QED
    BY <2>1, <2>2
<1>16. SeenOld'
  <2>1. \A e \in seen : NoNewer(e)
    BY <1>1 DEF SeenOld
  <2>2. \A t \in SessionId : result[t] # Missing => NoNewer(result[t])
    BY <1>4, <2>1
  <2>3. \A p \in Reader : \A e \in scan'[p].seen : NoNewer(e)
    BY <1>1, <1>6, <1>7 DEF SeenOld
  <2> QED
    BY <1>2, <1>8, <2>2, <2>3 DEF SeenOld, NoNewer
<1> QED
  BY <1>11, <1>12, <1>13, <1>14, <1>15, <1>16 DEF CatInv

----------------------------------------------------------------------------
(* The theorems                                                            *)

LEMMA CatInvInit ==
  ASSUME CatInit
  PROVE  CatInv
<1>1. /\ rollout \in [Rollout -> [form : {"plain"}, cwd : Dir, at : {0}]]
      /\ sessions = [t \in SessionId |-> Missing] /\ recent = FALSE
      /\ scan = [r \in Reader |-> NoScan] /\ inFlight = Nobody
      /\ ask = [r \in Reader |-> NoAsk]
  BY DEF CatInit
<1>2. /\ NoScan \in [pc : {"idle", "walk", "inspect"}, found : Founds, seen : SUBSET SeenEntry]
      /\ NoScan.pc = "idle" /\ NoScan.seen = {}
  <2>1. [f \in {} |-> "none"] \in [{} -> Form]
    OBVIOUS
  <2>2. [f \in {} |-> "none"] \in Founds
    BY <2>1 DEF Founds
  <2> QED
    BY <2>2 DEF NoScan
<1>3. \A r \in Reader : scan[r] = NoScan /\ ask[r] = NoAsk /\ ask[r].pc = "idle"
  BY <1>1 DEF NoAsk
<1>4. CatTypes
  <2>1. rollout \in Files
    <3>1. 0 \in 0..MaxTime
      BY CatalogAssumption
    <3>2. [form : {"plain"}, cwd : Dir, at : {0}] \subseteq File
      BY <3>1 DEF File, Form
    <3> QED
      BY <1>1, <3>2 DEF Files
  <2>2. sessions \in Results /\ ask \in [Reader -> {NoAsk} \cup Waiting \cup Served]
    BY <1>1 DEF Results
  <2> QED
    BY <1>1, <1>2, <2>1, <2>2 DEF CatTypes
<1>5. OneScan
  BY <1>1, <1>2, <1>3, CatalogAssumption DEF OneScan
<1>6. SinceLater /\ WaitSees /\ ForcedSees
  BY <1>3 DEF SinceLater, WaitSees, ForcedSees
<1>7. SeenOld
  BY <1>1, <1>2, <1>3 DEF SeenOld
<1> QED
  BY <1>4, <1>5, <1>6, <1>7 DEF CatInv

LEMMA CatInvNext ==
  ASSUME CatInv, [CatNext]_catVars
  PROVE  CatInv'
<1>1. CASE CodexWrites
  BY <1>1, WritesKeep
<1>2. CASE Scanning
  BY <1>2, WalkKeeps, InspectKeeps, EndScanKeeps DEF Scanning
<1>3. CASE Expire
  BY <1>3, ExpireKeeps
<1>4. CASE \E r \in Reader : Take(r) \/ \E force \in BOOLEAN : Ask(r, force) \/ AskAgain(r, force)
  BY <1>4, TakeKeeps, AskKeeps, AskAgainKeeps
<1>5. CASE UNCHANGED catVars
  BY <1>5 DEF catVars, CatInv, CatTypes, OneScan, SinceLater, WaitSees, ForcedSees, SeenOld, NoNewer
<1> QED
  BY <1>1, <1>2, <1>3, <1>4, <1>5 DEF CatNext

\* Only the end of a scan changes the catalog, and what it has read of the file of a
\* session is not older than what the catalog has.
LEMMA ForwardStep ==
  ASSUME CatInv, [CatNext]_catVars, NEW t \in SessionId,
         sessions[t] # Missing, sessions'[t] # Missing, sessions'[t].file = sessions[t].file
  PROVE  sessions'[t].at >= sessions[t].at
<1>1. CatTypes /\ SeenOld
  BY DEF CatInv
<1>2. CASE UNCHANGED sessions
  <2>1. sessions[t] \in SeenEntry
    BY <1>1 DEF CatTypes, Results
  <2> QED
    BY <1>2, <2>1, EntryKinds
<1>3. ASSUME NEW r \in Reader, EndScan(r)
      PROVE  sessions'[t].at >= sessions[t].at
  <2>1. scan[r].seen \in SUBSET SeenEntry /\ scan[r].pc = "inspect" /\ sessions' = Result(scan[r].seen)
    BY <1>1, <1>3 DEF CatTypes, EndScan
  <2>2. sessions'[t] \in scan[r].seen
    BY <2>1, ResultIsNewest
  <2> QED
    BY <1>1, <2>1, <2>2 DEF SeenOld
<1>4. UNCHANGED sessions \/ \E r \in Reader : EndScan(r)
  BY DEF CatNext, catVars, CodexWrites, Grow, Pack, Remove, Scanning, Walk, Inspect, Expire, Take,
     Ask, AskAgain, Refresh
<1> QED
  BY <1>2, <1>3, <1>4

\* The catalog keeps its invariant.
THEOREM CatalogInvariant == CatSpec => []CatInv
BY CatInvInit, CatInvNext, PTL DEF CatSpec

\* A forced refresh is answered with what was there when it was asked for
\* (CodexSessionCatalog.refresh: it may neither take a recent result nor, when it
\* scans itself, one that has been read before).
THEOREM ForcedRefreshSees == CatSpec => []ForcedSees
<1>1. CatInv => ForcedSees
  BY DEF CatInv
<1> QED
  BY <1>1, CatalogInvariant, PTL

\* The catalog does not go back to an older entry of a file (refreshInFlight: one
\* scan at a time).
THEOREM CatalogGoesForward == CatSpec => CatalogForward
<1>1. CatInv /\ [CatNext]_catVars =>
        [\A t \in SessionId :
           sessions[t] # Missing /\ sessions'[t] # Missing /\ sessions'[t].file = sessions[t].file
           => sessions'[t].at >= sessions[t].at]_catVars
  BY ForwardStep
<1> QED
  BY <1>1, CatalogInvariant, PTL DEF CatSpec, CatalogForward

----------------------------------------------------------------------------
(* The list                                                                *)

\* Every row is of a session of its own.
Single(rows) == \A x, y \in rows : x.id = y.id => x = y

\* What a request has gathered: the sessions that were deleted when it began are
\* still deleted (dead), are known to be, or have been filtered out; the rows are
\* of different sessions, unless the sidebar changed between its two reads.
Sound(q, dead) ==
  /\ q.pc = "read" => q.forced \in BOOLEAN
  /\ q.pc \in {"catalog", "threads", "index"} => q.gone \subseteq dead
  /\ q.pc \in {"threads", "index"} => q.cwd \in [Thread -> Path \cup {NoPath}]
  /\ q.pc = "repair" =>
       /\ q = [pc |-> "repair", gone |-> q.gone, deleted |-> q.deleted,
               known |-> q.known, todo |-> q.todo, cwd |-> q.cwd]
       /\ q.todo \subseteq q.known
       /\ \A t \in q.known : t \in Thread /\ q.cwd[t] \in Path
  /\ q.pc \in {"repair", "projectless", "sidebar"} => q.gone \subseteq q.deleted
  /\ q.pc = "projectless" => Single(q.rows) /\ \A x \in q.rows : x.from = "known"
  /\ q.pc = "sidebar" =>
       /\ Single(q.rows) /\ q.seen \in State /\ Tidy(q.seen)
       /\ \A x \in q.rows : x.from = "known" \/ x.id \in Members(q.seen.projectless)
  /\ q.pc \in {"roots", "answer"} =>
       /\ ~q.torn => Single(q.rows)
       /\ \A row \in q.rows : row.id \notin q.gone

ListTypes ==
  /\ st \in State /\ Tidy(st)
  /\ codex \in [Thread -> Path \cup {NoPath}]
  /\ checking \in [Thread -> Reader \cup {Nobody}]
  /\ req = [r \in Reader |-> req[r]]

\* The inductive invariant.
ListInv ==
  /\ CatInv /\ ListTypes /\ ChecksEnd
  /\ \A r \in Reader : Sound(req[r], tombstones)

\* A step of the list is one of the catalog, or leaves the catalog alone.
LEMMA CatalogSteps ==
  ASSUME ListInv, ListNext
  PROVE  [CatNext]_catVars
<1>1. ASSUME NEW r \in Reader, Lists(r)
      PROVE  [CatNext]_catVars
  <2>1. CASE \E force \in BOOLEAN : BeginList(r, force)
    BY <2>1 DEF BeginList, CatNext
  <2>2. CASE TakeRollouts(r)
    BY <2>2 DEF TakeRollouts, CatNext
  <2>3. CASE ~(\E force \in BOOLEAN : BeginList(r, force)) /\ ~TakeRollouts(r)
    BY <1>1, <2>3 DEF Lists, ListThreads, ReadIndex, Repair, Enrich, AddProjectless, AddSidebar,
       AnswerList, EndRequest
  <2> QED
    BY <2>1, <2>2, <2>3
<1>2. ASSUME NEW r \in Reader, Visits(r)
      PROVE  [CatNext]_catVars
  <2>1. CASE CheckThread(r)
    <3>1. req[r].forced \in BOOLEAN
      BY <2>1 DEF CheckThread, ListInv, Sound
    <3>2. Ask(r, req[r].forced) \/ UNCHANGED catVars
      BY <2>1 DEF CheckThread
    <3> QED
      BY <3>1, <3>2 DEF CatNext
  <2>2. CASE CheckRollout(r) \/ DetailScanned(r) \/ RefreshAgain(r)
    <3>1. Take(r) \/ AskAgain(r, FALSE)
      BY <2>2 DEF CheckRollout, DetailScanned, RefreshAgain
    <3> QED
      BY <3>1 DEF CatNext
  <2>3. CASE \E t \in Subject : BeginDetail(r, t)
    <3>1. Ask(r, FALSE) \/ UNCHANGED catVars
      BY <2>3 DEF BeginDetail
    <3> QED
      BY <3>1 DEF CatNext
  <2>4. CASE \/ \E t \in Subject, force \in BOOLEAN : BeginCheck(r, t, force)
             \/ CheckVerdict(r) \/ ReadBoth(r) \/ AnswerDetail(r)
    BY <2>4 DEF BeginCheck, CheckVerdict, ReadBoth, AnswerDetail
  <2> QED
    BY <1>2, <2>1, <2>2, <2>3, <2>4 DEF Visits
<1>3. CASE Catalog
  BY <1>3 DEF Catalog, CatNext
<1>4. CASE Outside
  <2>1. CASE \E f \in Rollout, dir \in Dir : RewriteRollout(f, dir)
    BY <2>1 DEF RewriteRollout, CatNext, CodexWrites
  <2>2. CASE \E f \in Rollout : LoseRollout(f)
    BY <2>2 DEF LoseRollout, CatNext, CodexWrites
  <2>3. CASE ~(\E f \in Rollout, dir \in Dir : RewriteRollout(f, dir)) /\ ~(\E f \in Rollout : LoseRollout(f))
    BY <1>4, <2>3 DEF Outside, DeleteThread, ForgetThread, SetRow, AppServer, RewriteState,
       MissFile, MissBackups
  <2> QED
    BY <2>1, <2>2, <2>3
<1>5. CASE Announcing
  BY <1>5 DEF Announcing, EventVerdict
<1> QED
  BY <1>1, <1>2, <1>3, <1>4, <1>5 DEF ListNext

\* What is deleted stays deleted.
LEMMA SoundStill ==
  ASSUME NEW q, NEW dead, NEW more, Sound(q, dead), dead \subseteq more
  PROVE  Sound(q, more)
BY DEF Sound

LEMMA NoRequestIsSound == ASSUME NEW dead PROVE Sound(NoRequest, dead)
BY DEF Sound, NoRequest

\* One request goes on.
LEMMA OneRequest ==
  ASSUME ListInv, NEW r \in Reader, NEW new, req' = [req EXCEPT ![r] = new],
         Sound(new, tombstones), tombstones' = tombstones
  PROVE  /\ req' = [x \in Reader |-> req'[x]]
         /\ \A x \in Reader : req'[x] = IF x = r THEN new ELSE req[x]
         /\ \A x \in Reader : Sound(req'[x], tombstones')
<1>1. req = [x \in Reader |-> req[x]]
  BY DEF ListInv, ListTypes
<1>2. req' = [x \in Reader |-> IF x = r THEN new ELSE req[x]]
  BY <1>1
<1>3. \A x \in Reader : Sound(req[x], tombstones)
  BY DEF ListInv
<1> QED
  BY <1>2, <1>3

Checking == {"read", "scanned", "verdict"}

\* A request goes on that is no check, or a check on the same session.
LEMMA ChecksGoOn ==
  ASSUME ListInv, NEW r \in Reader, NEW new, req' = [req EXCEPT ![r] = new],
         checking' = checking,
         req[r].pc \notin Checking \/ (new.pc \in Checking /\ new.id = req[r].id)
  PROVE  ChecksEnd'
<1>1. req = [x \in Reader |-> req[x]] /\ checking \in [Thread -> Reader \cup {Nobody}]
  BY DEF ListInv, ListTypes
<1>2. \A x \in Reader : req'[x] = IF x = r THEN new ELSE req[x]
  BY <1>1
<1>3. ChecksEnd
  BY DEF ListInv
<1> QED
  BY <1>1, <1>2, <1>3 DEF ChecksEnd, Checking

\* A check ends: nobody waits for the reader any more.
LEMMA CheckGone ==
  ASSUME ListInv, NEW r \in Reader, NEW new, req' = [req EXCEPT ![r] = new],
         req[r].pc \in Checking, checking' = [checking EXCEPT ![req[r].id] = Nobody]
  PROVE  ChecksEnd' /\ checking' \in [Thread -> Reader \cup {Nobody}]
<1>1. req = [x \in Reader |-> req[x]] /\ checking \in [Thread -> Reader \cup {Nobody}]
  BY DEF ListInv, ListTypes
<1>2. \A x \in Reader : req'[x] = IF x = r THEN new ELSE req[x]
  BY <1>1
<1>3. /\ \A t \in Thread : checking'[t] = IF t = req[r].id THEN Nobody ELSE checking[t]
      /\ checking' \in [Thread -> Reader \cup {Nobody}]
  BY <1>1
<1>4. ChecksEnd
  BY DEF ListInv
<1>5. \A t \in Thread : checking'[t] # Nobody => checking'[t] = checking[t] /\ checking[t] # r
  BY <1>1, <1>3, <1>4 DEF ChecksEnd
<1> QED
  BY <1>1, <1>2, <1>3, <1>4, <1>5 DEF ChecksEnd

\* A step of one request that is no check, and leaves what is outside alone.
LEMMA ListGoesOn ==
  ASSUME ListInv, [CatNext]_catVars, NEW r \in Reader, NEW new, req' = [req EXCEPT ![r] = new],
         Sound(new, tombstones), req[r].pc \notin Checking,
         UNCHANGED <<tombstones, codex, checking>>,
         st' \in State, Tidy(st')
  PROVE  ListInv'
<1>1. CatInv'
  BY CatInvNext DEF ListInv
<1>2. ChecksEnd'
  BY ChecksGoOn
<1>3. ListTypes'
  BY OneRequest DEF ListInv, ListTypes
<1> QED
  BY <1>1, <1>2, <1>3, OneRequest DEF ListInv

\* What is read of the state file is in order, if only because it is empty.
LEMMA ReadIsTidy ==
  ASSUME ListInv
  PROVE  StateRead \in State /\ Tidy(StateRead)
BY EmptyIsTidy DEF ListInv, ListTypes, StateRead

----------------------------------------------------------------------------
(* list: one lemma for each of its steps                                   *)

LEMMA BeginListKeeps ==
  ASSUME ListInv, [CatNext]_catVars, NEW r \in Reader, NEW force \in BOOLEAN, BeginList(r, force)
  PROVE  ListInv'
<1> DEFINE new == [pc |-> "catalog", gone |-> tombstones]
<1>1. Sound(new, tombstones)
  BY DEF Sound
<1>2. req' = [req EXCEPT ![r] = new] /\ req[r].pc \notin Checking
  BY DEF BeginList, Checking
<1>3. UNCHANGED <<tombstones, codex, checking>> /\ st' \in State /\ Tidy(st')
  BY DEF BeginList, outside, memory, ListInv, ListTypes
<1> HIDE DEF new
<1> QED
  BY <1>1, <1>2, <1>3, ListGoesOn

\* The working directory of a rollout is one of the known ones.
LEMMA AnswerDirs ==
  ASSUME CatInv, NEW r \in Reader, ask[r].pc = "done", NEW t \in SessionId, ask[r].got[t] # Missing
  PROVE  ask[r].got[t].cwd \in Path
<1>1. ask[r] \in Served
  BY AskKinds DEF CatInv
<1>2. ask[r].got \in Results
  BY <1>1 DEF Served
<1>3. ask[r].got[t] \in SeenEntry
  BY <1>2 DEF Results
<1> QED
  BY <1>3, ListAssumption DEF SeenEntry

LEMMA TakeRolloutsKeeps ==
  ASSUME ListInv, [CatNext]_catVars, NEW r \in Reader, TakeRollouts(r)
  PROVE  ListInv'
<1> DEFINE cwd == [t \in Thread |-> IF t \in SessionId /\ ask[r].got[t] # Missing
                                    THEN ask[r].got[t].cwd ELSE NoPath]
           new == [pc |-> "threads", gone |-> req[r].gone, cwd |-> cwd]
<1>1. cwd \in [Thread -> Path \cup {NoPath}]
  BY AnswerDirs DEF TakeRollouts, Take, ListInv
<1>2. req' = [req EXCEPT ![r] = new] /\ req[r].pc = "catalog"
  BY DEF TakeRollouts
<1> HIDE DEF cwd
<1>3. Sound(new, tombstones)
  BY <1>1, <1>2 DEF Sound, ListInv
<1>4. UNCHANGED <<tombstones, codex, checking>> /\ st' \in State /\ Tidy(st')
  BY DEF TakeRollouts, outside, memory, ListInv, ListTypes
<1> HIDE DEF new
<1> QED
  BY <1>2, <1>3, <1>4, ListGoesOn DEF Checking

LEMMA ListThreadsKeeps ==
  ASSUME ListInv, [CatNext]_catVars, NEW r \in Reader, ListThreads(r)
  PROVE  ListInv'
<1> DEFINE active == {t \in Thread : up /\ codex[t] # NoPath}
           cwd == [t \in Thread |-> IF t \in active THEN codex[t] ELSE req[r].cwd[t]]
           new == [pc |-> "index", gone |-> req[r].gone, active |-> active, cwd |-> cwd]
<1>1. req' = [req EXCEPT ![r] = new] /\ req[r].pc = "threads"
  BY DEF ListThreads
<1>2. cwd \in [Thread -> Path \cup {NoPath}]
  BY <1>1 DEF ListInv, ListTypes, Sound
<1> HIDE DEF cwd, active
<1>3. Sound(new, tombstones)
  BY <1>1, <1>2 DEF Sound, ListInv
<1>4. UNCHANGED <<tombstones, codex, checking>> /\ st' \in State /\ Tidy(st')
  BY DEF ListThreads, outside, memory, ListInv, ListTypes
<1> HIDE DEF new
<1> QED
  BY <1>1, <1>3, <1>4, ListGoesOn DEF Checking

\* Every known session has a working directory, which registerThread will need.
LEMMA ReadIndexKeeps ==
  ASSUME ListInv, [CatNext]_catVars, NEW r \in Reader, ReadIndex(r)
  PROVE  ListInv'
<1> DEFINE q == req[r]
           tracked == {t \in Thread : q.cwd[t] # NoPath /\ t \notin DeletedRead}
           kept == {t \in tracked : t \in q.active \/ ~Gone(IndexRead, t)} \ {t \in Thread : IndexRead[t] = "archived"}
           rows == {t \in Thread : IndexRead[t] = "live"} \ (kept \cup DeletedRead)
           known == kept \cup rows
           todo == known \cap Remote
           cwd == [t \in Thread |-> IF t \in kept THEN q.cwd[t]
                                    ELSE IF t \in rows THEN RowCwd[t] ELSE NoPath]
           new == [pc |-> "repair", gone |-> q.gone \ unseen, deleted |-> DeletedRead,
                   known |-> known, todo |-> todo, cwd |-> cwd]
<1>1. req' = [req EXCEPT ![r] = new] /\ q.pc = "index"
  BY DEF ReadIndex
<1>2. q.cwd \in [Thread -> Path \cup {NoPath}] /\ q.gone \subseteq tombstones
  BY <1>1 DEF ListInv, Sound
<1>3. \A t \in known : t \in Thread /\ cwd[t] \in Path
  <2>1. \A t \in kept : t \in Thread /\ q.cwd[t] \in Path
    BY <1>2
  <2>2. \A t \in rows : t \in Thread /\ RowCwd[t] \in Path
    BY ListAssumption
  <2> HIDE DEF kept, rows
  <2> QED
    BY <2>1, <2>2
<1>4. todo \subseteq known
  OBVIOUS
<1> HIDE DEF known, todo, cwd
<1>5. Sound(new, tombstones)
  <2>1. q.gone \ unseen \subseteq DeletedRead
    BY <1>2 DEF DeletedRead
  <2> HIDE DEF q
  <2> QED
    BY <1>3, <1>4, <2>1 DEF Sound
<1>6. UNCHANGED <<tombstones, codex, checking>> /\ st' \in State /\ Tidy(st')
  BY DEF ReadIndex, outside, memory, ListInv, ListTypes
<1> HIDE DEF new
<1> QED
  BY <1>1, <1>5, <1>6, ListGoesOn DEF Checking

\* registerThread leaves the state file in order.
LEMMA RepairKeeps ==
  ASSUME ListInv, [CatNext]_catVars, NEW r \in Reader, Repair(r)
  PROVE  ListInv'
<1> DEFINE q == req[r]
<1>1. PICK t \in q.todo : /\ st' \in {st, Placed(st, t, q.cwd[t])}
                          /\ req' = [req EXCEPT ![r].todo = @ \ {t}]
  BY DEF Repair, StateChanges
<1>2. q.pc = "repair" /\ Sound(q, tombstones) /\ st \in State /\ Tidy(st)
  BY DEF Repair, ListInv, ListTypes
<1>3. t \in Thread /\ q.cwd[t] \in Path
  BY <1>1, <1>2 DEF Sound
<1>4. st' \in State /\ Tidy(st')
  BY <1>1, <1>2, <1>3, PlacedIsTidy
<1> DEFINE new == [pc |-> "repair", gone |-> q.gone, deleted |-> q.deleted,
                   known |-> q.known, todo |-> q.todo \ {t}, cwd |-> q.cwd]
<1>5. req' = [req EXCEPT ![r] = new]
  <2>1. r \in DOMAIN req
    BY DEF ListInv, ListTypes
  <2>2. req' = [req EXCEPT ![r] = [q EXCEPT !.todo = q.todo \ {t}]]
    BY <1>1, <2>1
  <2>3. [q EXCEPT !.todo = q.todo \ {t}] = new
    BY <1>2 DEF Sound
  <2> QED
    BY <2>2, <2>3
<1>6. Sound(new, tombstones)
  BY <1>2 DEF Sound
<1>7. UNCHANGED <<tombstones, codex, checking>>
  BY DEF Repair, memory
<1> HIDE DEF new
<1> QED
  BY <1>2, <1>4, <1>5, <1>6, <1>7, ListGoesOn DEF Checking

LEMMA EnrichKeeps ==
  ASSUME ListInv, [CatNext]_catVars, NEW r \in Reader, Enrich(r)
  PROVE  ListInv'
<1> DEFINE q == req[r]
           rows == {[id |-> t, from |-> "known", cwd |-> IF q.cwd[t] # NoPath THEN q.cwd[t]
                                                         ELSE StateRead.hint[t]] : t \in q.known}
           new == [pc |-> "projectless", gone |-> q.gone, deleted |-> q.deleted, rows |-> rows]
<1>1. q.pc = "repair" /\ req' = [req EXCEPT ![r] = new] /\ Sound(q, tombstones)
  BY DEF Enrich, ListInv
<1>2. Single(rows) /\ \A x \in rows : x.from = "known"
  BY DEF Single
<1> HIDE DEF rows
<1>3. Sound(new, tombstones)
  BY <1>1, <1>2 DEF Sound
<1>4. UNCHANGED <<tombstones, codex, checking>> /\ st' \in State /\ Tidy(st')
  BY DEF Enrich, outside, memory, ListInv, ListTypes
<1> HIDE DEF new
<1> QED
  BY <1>1, <1>3, <1>4, ListGoesOn DEF Checking

\* The projectless sessions that are added are not known yet.
LEMMA AddProjectlessKeeps ==
  ASSUME ListInv, [CatNext]_catVars, NEW r \in Reader, AddProjectless(r)
  PROVE  ListInv'
<1> DEFINE q == req[r]
           ghosts == ProjectlessGhosts(StateRead, IndexRead, DeletedRead, KnownIds(q))
           added == {[id |-> t, from |-> "projectless", cwd |-> StateRead.hint[t]] : t \in ghosts}
           rows == q.rows \cup added
           new == [pc |-> "sidebar", gone |-> q.gone, deleted |-> q.deleted, seen |-> StateRead, rows |-> rows]
<1>1. /\ q.pc = "projectless" /\ req' = [req EXCEPT ![r] = new] /\ Sound(q, tombstones)
      /\ StateRead \in State /\ Tidy(StateRead)
  BY ReadIsTidy DEF AddProjectless, ListInv
<1>2. Single(q.rows) /\ \A x \in q.rows : x.from = "known"
  BY <1>1 DEF Sound
<1>3. \A t \in ghosts : t \in Members(StateRead.projectless) /\ t \notin KnownIds(q)
  BY DEF ProjectlessGhosts
<1>4. \A x \in q.rows : x.id \in KnownIds(q)
  BY <1>2 DEF KnownIds
<1> HIDE DEF ghosts
<1>5. \A x \in added : x.id \in ghosts /\ x = [id |-> x.id, from |-> "projectless", cwd |-> StateRead.hint[x.id]]
  OBVIOUS
<1> HIDE DEF added
<1>6. Single(rows)
  BY <1>2, <1>3, <1>4, <1>5 DEF Single
<1>7. \A x \in rows : x.from = "known" \/ x.id \in Members(StateRead.projectless)
  BY <1>2, <1>3, <1>5
<1> HIDE DEF rows
<1>8. Sound(new, tombstones)
  BY <1>1, <1>6, <1>7 DEF Sound
<1>9. UNCHANGED <<tombstones, codex, checking>> /\ st' \in State /\ Tidy(st')
  BY DEF AddProjectless, outside, memory, ListInv, ListTypes
<1> HIDE DEF new
<1> QED
  BY <1>1, <1>8, <1>9, ListGoesOn DEF Checking

\* The sidebar adds sessions that are not known, each under the one project that has
\* it; none was added as projectless unless it has been moved since.
LEMMA AddSidebarKeeps ==
  ASSUME ListInv, [CatNext]_catVars, NEW r \in Reader, AddSidebar(r)
  PROVE  ListInv'
<1> DEFINE q == req[r]
           ghosts == SidebarGhosts(StateRead, IndexRead, DeletedRead, KnownIds(q))
           added == {[id |-> g[1], from |-> "sidebar", cwd |-> RootOf(StateRead, g[2])] : g \in ghosts}
           rows == q.rows \cup added
           shown == {row \in rows : row.id \notin q.deleted}
           torn == q.seen # StateRead
           new == [pc |-> "roots", gone |-> q.gone, torn |-> torn, rows |-> shown]
<1>1. /\ q.pc = "sidebar" /\ req' = [req EXCEPT ![r] = new] /\ Sound(q, tombstones)
      /\ StateRead \in State /\ Tidy(StateRead)
  BY ReadIsTidy DEF AddSidebar, ListInv
<1>2. /\ Single(q.rows) /\ q.gone \subseteq q.deleted /\ Tidy(q.seen)
      /\ \A x \in q.rows : x.from = "known" \/ x.id \in Members(q.seen.projectless)
  BY <1>1 DEF Sound
<1>3. \A g \in ghosts : /\ g = <<g[1], g[2]>> /\ g[2] \in Project
                        /\ g[1] \in Members(StateRead.order[g[2]]) /\ g[1] \notin KnownIds(q)
  <2>1. StateRead.projects \subseteq Project
    BY <1>1, StateFields
  <2> QED
    BY <2>1 DEF SidebarGhosts
<1>4. \A g \in ghosts : StateRead.assigned[g[1]] = g[2]
  BY <1>1, <1>3 DEF Tidy
<1> HIDE DEF ghosts
<1>5. \A x \in added : \E g \in ghosts : x = [id |-> g[1], from |-> "sidebar", cwd |-> RootOf(StateRead, g[2])]
  OBVIOUS
<1>6. \A x, y \in added : x.id = y.id => x = y
  BY <1>4, <1>5
<1>7. ASSUME ~torn, NEW x \in q.rows, NEW y \in added
      PROVE  x.id # y.id
  <2>1. PICK g \in ghosts : y.id = g[1]
    BY <1>5
  <2>2. CASE x.from = "known"
    BY <1>3, <2>1, <2>2 DEF KnownIds
  <2>3. CASE x.id \in Members(StateRead.projectless)
    <3>1. StateRead.assigned[x.id] = NoProject
      BY <1>1, <2>3 DEF Tidy
    <3> QED
      BY <1>3, <1>4, <2>1, <3>1, ViewsAssumption
  <2> QED
    BY <1>2, <1>7, <2>2, <2>3
<1> HIDE DEF added
<1>8. ~torn => Single(shown)
  BY <1>2, <1>6, <1>7 DEF Single
<1>9. \A row \in shown : row.id \notin q.gone
  BY <1>2
<1> HIDE DEF torn, shown
<1>10. Sound(new, tombstones)
  BY <1>8, <1>9 DEF Sound
<1>11. UNCHANGED <<tombstones, codex, checking>> /\ st' \in State /\ Tidy(st')
  BY DEF AddSidebar, outside, ListInv, ListTypes
<1> HIDE DEF new
<1> QED
  BY <1>1, <1>10, <1>11, ListGoesOn DEF Checking

LEMMA AnswerListKeeps ==
  ASSUME ListInv, [CatNext]_catVars, NEW r \in Reader, AnswerList(r) \/ EndRequest(r)
  PROVE  ListInv'
<1>1. CASE AnswerList(r)
  <2> DEFINE q == req[r]
             shown == {row \in q.rows : IsAllowedPath(row.cwd)}
             new == [pc |-> "answer", gone |-> q.gone, torn |-> q.torn, rows |-> shown]
  <2>1. q.pc = "roots" /\ req' = [req EXCEPT ![r] = new] /\ Sound(q, tombstones)
    BY <1>1 DEF AnswerList, ListInv
  <2>2. shown \subseteq q.rows
    OBVIOUS
  <2> HIDE DEF shown
  <2>3. Sound(new, tombstones)
    BY <2>1, <2>2 DEF Sound, Single
  <2>4. UNCHANGED <<tombstones, codex, checking>> /\ st' \in State /\ Tidy(st')
    BY <1>1 DEF AnswerList, outside, ListInv, ListTypes
  <2> HIDE DEF new
  <2> QED
    BY <2>1, <2>3, <2>4, ListGoesOn DEF Checking
<1>2. CASE EndRequest(r)
  <2>1. req[r].pc \notin Checking /\ req' = [req EXCEPT ![r] = NoRequest]
    BY <1>2 DEF EndRequest, Checking
  <2>2. UNCHANGED <<tombstones, codex, checking>> /\ st' \in State /\ Tidy(st')
    BY <1>2 DEF EndRequest, outside, memory, ListInv, ListTypes
  <2> QED
    BY <2>1, <2>2, ListGoesOn, NoRequestIsSound
<1> QED
  BY <1>1, <1>2

----------------------------------------------------------------------------
(* canAccessSession and detail                                             *)

\* A request of one session goes on; the files stay as they are.
LEMMA VisitGoesOn ==
  ASSUME ListInv, [CatNext]_catVars, NEW r \in Reader, NEW new, req' = [req EXCEPT ![r] = new],
         Sound(new, tombstones), UNCHANGED outside, ChecksEnd',
         checking' \in [Thread -> Reader \cup {Nobody}]
  PROVE  ListInv'
<1>1. CatInv'
  BY CatInvNext DEF ListInv
<1>2. ListTypes' /\ tombstones' = tombstones
  BY OneRequest DEF ListInv, ListTypes, outside
<1> QED
  BY <1>1, <1>2, OneRequest DEF ListInv

LEMMA BeginCheckKeeps ==
  ASSUME ListInv, [CatNext]_catVars, NEW r \in Reader, NEW t \in Subject, NEW force \in BOOLEAN,
         BeginCheck(r, t, force)
  PROVE  ListInv'
<1> DEFINE new == [pc |-> "read", id |-> t, forced |-> force]
<1>1. /\ req[r].pc = "idle" /\ req' = [req EXCEPT ![r] = new]
      /\ checking' = [checking EXCEPT ![t] = r] /\ UNCHANGED outside
  BY DEF BeginCheck
<1>2. Sound(new, tombstones) /\ new.pc = "read" /\ new.id = t
  BY DEF Sound
<1> HIDE DEF new
<1>3. /\ req = [x \in Reader |-> req[x]] /\ checking \in [Thread -> Reader \cup {Nobody}]
      /\ ChecksEnd /\ t \in Thread
  BY ListAssumption DEF ListInv, ListTypes
<1>4. /\ \A x \in Reader : req'[x] = IF x = r THEN new ELSE req[x]
      /\ \A u \in Thread : checking'[u] = IF u = t THEN r ELSE checking[u]
      /\ checking' \in [Thread -> Reader \cup {Nobody}]
  BY <1>1, <1>3
<1>5. \A u \in Thread : checking[u] # r
  BY <1>1, <1>3, CatalogAssumption DEF ChecksEnd
<1>6. ChecksEnd'
  BY <1>2, <1>3, <1>4, <1>5 DEF ChecksEnd
<1> QED
  BY <1>1, <1>2, <1>4, <1>6, VisitGoesOn

LEMMA CheckThreadKeeps ==
  ASSUME ListInv, [CatNext]_catVars, NEW r \in Reader, CheckThread(r)
  PROVE  ListInv'
<1> DEFINE q == req[r]
<1>1. q.pc = "read" /\ UNCHANGED <<outside, memory>>
  BY DEF CheckThread
<1>2. PICK new : /\ req' = [req EXCEPT ![r] = new] /\ Sound(new, tombstones)
                 /\ new.pc \in Checking /\ new.id = q.id
  <2> DEFINE a == [pc |-> "verdict", id |-> q.id, cwd |-> codex[q.id]]
             b == [pc |-> "scanned", id |-> q.id, again |-> FALSE]
  <2>1. Sound(a, tombstones) /\ Sound(b, tombstones)
    BY DEF Sound
  <2>2. a.pc \in Checking /\ b.pc \in Checking /\ a.id = q.id /\ b.id = q.id
    BY DEF Checking
  <2>3. req' = [req EXCEPT ![r] = a] \/ req' = [req EXCEPT ![r] = b]
    BY DEF CheckThread
  <2> HIDE DEF a, b
  <2> QED
    BY <2>1, <2>2, <2>3
<1>3. checking' = checking /\ checking' \in [Thread -> Reader \cup {Nobody}]
  BY <1>1 DEF memory, ListInv, ListTypes
<1>4. ChecksEnd'
  BY <1>2, <1>3, ChecksGoOn
<1> QED
  BY <1>1, <1>2, <1>3, <1>4, VisitGoesOn

\* A check that looks again is still under way.
LEMMA RefreshAgainKeeps ==
  ASSUME ListInv, [CatNext]_catVars, NEW r \in Reader, RefreshAgain(r)
  PROVE  ListInv'
<1> DEFINE q == req[r]
           new == [pc |-> "scanned", id |-> q.id, again |-> TRUE]
<1>1. req' = [req EXCEPT ![r] = new] /\ UNCHANGED <<outside, memory>>
  BY DEF RefreshAgain
<1>2. Sound(new, tombstones) /\ new.pc \in Checking /\ new.id = q.id
  BY DEF Sound, Checking
<1> HIDE DEF new
<1>3. checking' = checking /\ checking' \in [Thread -> Reader \cup {Nobody}]
  BY <1>1 DEF memory, ListInv, ListTypes
<1>4. ChecksEnd'
  BY <1>1, <1>2, <1>3, ChecksGoOn
<1> QED
  BY <1>1, <1>2, <1>3, <1>4, VisitGoesOn

\* A check ends with a verdict, or when the session is not found, or with an error.
LEMMA CheckEndsKeeps ==
  ASSUME ListInv, [CatNext]_catVars, NEW r \in Reader, CheckRollout(r) \/ CheckVerdict(r)
  PROVE  ListInv'
<1> DEFINE q == req[r]
<1>1. q.pc \in Checking /\ UNCHANGED outside
  BY DEF CheckRollout, CheckVerdict, Checking
<1>2. CASE req' = [req EXCEPT ![r] = NoRequest] /\ checking' = [checking EXCEPT ![q.id] = Nobody]
  <2>1. ChecksEnd' /\ checking' \in [Thread -> Reader \cup {Nobody}]
    BY <1>1, <1>2, CheckGone
  <2>2. Sound(NoRequest, tombstones)
    BY NoRequestIsSound
  <2> QED
    BY <1>1, <1>2, <2>1, <2>2, VisitGoesOn
<1>3. CASE CheckRollout(r) /\ req' # [req EXCEPT ![r] = NoRequest]
  <2> DEFINE new == [pc |-> "verdict", id |-> q.id, cwd |-> sessions[q.id].cwd]
  <2>1. req' = [req EXCEPT ![r] = new] /\ checking' = checking
    BY <1>3 DEF CheckRollout, memory
  <2>2. Sound(new, tombstones) /\ new.pc \in Checking /\ new.id = q.id
    BY DEF Sound, Checking
  <2> HIDE DEF new
  <2>3. ChecksEnd'
    BY <2>1, <2>2, ChecksGoOn
  <2>4. checking' \in [Thread -> Reader \cup {Nobody}]
    BY <2>1 DEF ListInv, ListTypes
  <2> QED
    BY <1>1, <2>1, <2>2, <2>3, <2>4, VisitGoesOn
<1>4. CASE CheckRollout(r) /\ req' = [req EXCEPT ![r] = NoRequest]
  <2>1. checking' = [checking EXCEPT ![q.id] = Nobody]
    <3> DEFINE new == [pc |-> "verdict", id |-> q.id, cwd |-> sessions[q.id].cwd]
    <3>1. req' # [req EXCEPT ![r] = new]
      <4>1. req = [x \in Reader |-> req[x]]
        BY DEF ListInv, ListTypes
      <4>2. new.pc # NoRequest.pc
        BY DEF NoRequest
      <4> QED
        BY <1>4, <4>1, <4>2
    <3> QED
      BY <1>4, <3>1 DEF CheckRollout
  <2> QED
    BY <1>2, <1>4, <2>1
<1>5. CASE CheckVerdict(r)
  BY <1>2, <1>5 DEF CheckVerdict
<1> QED
  BY <1>3, <1>4, <1>5

LEMMA DetailKeeps ==
  ASSUME ListInv, [CatNext]_catVars, NEW r \in Reader,
         (\E t \in Subject : BeginDetail(r, t)) \/ DetailScanned(r) \/ ReadBoth(r) \/ AnswerDetail(r)
  PROVE  ListInv'
<1>1. req[r].pc \notin Checking /\ checking' = checking /\ UNCHANGED outside
  BY DEF BeginDetail, DetailScanned, ReadBoth, AnswerDetail, Checking, memory
<1>2. PICK new : req' = [req EXCEPT ![r] = new] /\ Sound(new, tombstones)
  <2>1. ASSUME NEW new, new.pc \in {"open", "opening", "judge"}
        PROVE  Sound(new, tombstones)
    BY <2>1 DEF Sound
  <2>2. ASSUME NEW t, req' \in {[req EXCEPT ![r] = [pc |-> "open", id |-> t]],
                                [req EXCEPT ![r] = [pc |-> "opening", id |-> t]]}
        PROVE  \E new : req' = [req EXCEPT ![r] = new] /\ Sound(new, tombstones)
    <3> DEFINE a == [pc |-> "open", id |-> t]
               b == [pc |-> "opening", id |-> t]
    <3>1. Sound(a, tombstones) /\ Sound(b, tombstones)
      BY <2>1
    <3>2. req' = [req EXCEPT ![r] = a] \/ req' = [req EXCEPT ![r] = b]
      BY <2>2
    <3> HIDE DEF a, b
    <3> QED
      BY <3>1, <3>2
  <2>3. CASE (\E t \in Subject : BeginDetail(r, t)) \/ DetailScanned(r)
    <3>1. \E t : req' \in {[req EXCEPT ![r] = [pc |-> "open", id |-> t]],
                          [req EXCEPT ![r] = [pc |-> "opening", id |-> t]]}
      <4>1. CASE \E t \in Subject : BeginDetail(r, t)
        BY <4>1 DEF BeginDetail
      <4>2. CASE DetailScanned(r)
        BY <4>2 DEF DetailScanned
      <4> QED
        BY <2>3, <4>1, <4>2
    <3> QED
      BY <2>2, <3>1
  <2>4. CASE ReadBoth(r)
    <3>1. PICK found, cwd : req' = [req EXCEPT ![r] = [pc |-> "judge", id |-> req[r].id,
                                                       found |-> found, cwd |-> cwd]]
      BY <2>4 DEF ReadBoth
    <3> DEFINE new == [pc |-> "judge", id |-> req[r].id, found |-> found, cwd |-> cwd]
    <3>2. Sound(new, tombstones) /\ req' = [req EXCEPT ![r] = new]
      BY <2>1, <3>1
    <3> HIDE DEF new
    <3> QED
      BY <3>2
  <2>5. CASE AnswerDetail(r)
    BY <2>5, NoRequestIsSound DEF AnswerDetail
  <2> QED
    BY <2>3, <2>4, <2>5
<1>3. ChecksEnd'
  BY <1>1, <1>2, ChecksGoOn
<1>4. checking' \in [Thread -> Reader \cup {Nobody}]
  BY <1>1 DEF ListInv, ListTypes
<1> QED
  BY <1>1, <1>2, <1>3, <1>4, VisitGoesOn

----------------------------------------------------------------------------
(* What changes outside, and what is proved of it all                      *)

LEMMA OutsideKeeps ==
  ASSUME ListInv, [CatNext]_catVars, Outside \/ Announcing \/ Catalog \/ UNCHANGED listVars
  PROVE  ListInv'
<1>1. UNCHANGED <<checking, req>> /\ tombstones \subseteq tombstones'
  BY DEF Outside, Catalog, RewriteRollout, LoseRollout, DeleteThread, ForgetThread, SetRow,
     AppServer, RewriteState, MissFile, MissBackups, Announcing, EventVerdict, listVars, memory,
     outside
<1>2. st' = st \/ st' \in States
  BY DEF Outside, Catalog, RewriteRollout, LoseRollout, DeleteThread, ForgetThread, SetRow,
     AppServer, RewriteState, StateChanges, MissFile, MissBackups, Announcing, EventVerdict,
     listVars, outside
<1>3. codex' \in [Thread -> Path \cup {NoPath}]
  <2>1. codex \in [Thread -> Path \cup {NoPath}]
    BY DEF ListInv, ListTypes
  <2>2. CASE \E f \in Rollout, dir \in Dir : RewriteRollout(f, dir)
    BY <2>1, <2>2, ListAssumption DEF RewriteRollout
  <2>3. CASE \E t \in Subject : ForgetThread(t)
    BY <2>1, <2>3 DEF ForgetThread
  <2>4. CASE codex' = codex
    BY <2>1, <2>4
  <2> QED
    BY <2>2, <2>3, <2>4 DEF Outside, Catalog, LoseRollout, DeleteThread, SetRow,
       AppServer, RewriteState, MissFile, MissBackups, Announcing, EventVerdict, listVars, outside
<1>4. ListTypes'
  BY <1>1, <1>2, <1>3, ListAssumption DEF ListInv, ListTypes
<1>5. ChecksEnd'
  BY <1>1 DEF ListInv, ChecksEnd
<1>6. \A r \in Reader : Sound(req'[r], tombstones')
  BY <1>1, SoundStill DEF ListInv
<1>7. CatInv'
  BY CatInvNext DEF ListInv
<1> QED
  BY <1>4, <1>5, <1>6, <1>7 DEF ListInv

LEMMA ListInvInit ==
  ASSUME ListInit
  PROVE  ListInv
<1>1. CatInv
  BY CatInvInit DEF ListInit
<1>2. ListTypes
  BY ListAssumption DEF ListInit, ListTypes
<1>3. ChecksEnd
  BY DEF ListInit, ChecksEnd
<1>4. \A r \in Reader : Sound(req[r], tombstones)
  <2>1. \A r \in Reader : req[r] = NoRequest
    BY DEF ListInit
  <2> QED
    BY <2>1, NoRequestIsSound
<1> QED
  BY <1>1, <1>2, <1>3, <1>4 DEF ListInv

LEMMA ListInvNext ==
  ASSUME ListInv, [ListNext]_listVars
  PROVE  ListInv'
<1>1. [CatNext]_catVars
  BY CatalogSteps DEF listVars
<1>2. ASSUME NEW r \in Reader, Lists(r)
      PROVE  ListInv'
  BY <1>1, <1>2, BeginListKeeps, TakeRolloutsKeeps, ListThreadsKeeps, ReadIndexKeeps, RepairKeeps,
     EnrichKeeps, AddProjectlessKeeps, AddSidebarKeeps, AnswerListKeeps DEF Lists
<1>3. ASSUME NEW r \in Reader, Visits(r)
      PROVE  ListInv'
  BY <1>1, <1>3, BeginCheckKeeps, CheckThreadKeeps, RefreshAgainKeeps, CheckEndsKeeps, DetailKeeps
     DEF Visits
<1>4. CASE Catalog \/ Outside \/ Announcing \/ UNCHANGED listVars
  BY <1>1, <1>4, OutsideKeeps
<1> QED
  BY <1>2, <1>3, <1>4 DEF ListNext

LEMMA ListInvariant == ListSpec => []ListInv
<1>1. ListInit => ListInv
  BY ListInvInit
<1>2. ListInv /\ [ListNext]_listVars => ListInv'
  BY ListInvNext
<1> QED
  BY <1>1, <1>2, PTL DEF ListSpec

\* The list, the checks and the details use the catalog as it is meant to be used:
\* what they do to it are steps of SessionCatalog, so that what holds of the catalog
\* (ForcedRefreshSees, CatalogGoesForward) holds of it in the service too.
THEOREM ListUsesCatalog == ListSpec => CatSpec
<1>1. ListInit => CatInit
  BY DEF ListInit
<1>2. ListInv /\ [ListNext]_listVars => [CatNext]_catVars
  BY CatalogSteps DEF listVars
<1> QED
  BY <1>1, <1>2, ListInvariant, PTL DEF ListSpec, CatSpec

\* A session that was deleted before the list was asked for is not in the answer
\* (SessionService.list), whichever source still has it and whatever is deleted,
\* moved or written, and whichever file cannot be read, while the list is put
\* together: unless the list's own look at the backups missed it, which is what
\* getDeletedThreadIds does when it fails or meets a backup that is half written.
THEOREM DeletedAreHidden == ListSpec => []DeletedHidden
<1>1. ListInv => DeletedHidden
  BY ListAssumption DEF ListInv, Sound, DeletedHidden
<1> QED
  BY <1>1, ListInvariant, PTL

\* A session has one row, however many sources have it (SessionService.list), unless
\* it was moved between the two reads of the sidebar.
THEOREM RowsAreSingle == ListSpec => []OneRow
<1>1. ListInv => OneRow
  BY ListAssumption DEF ListInv, Sound, OneRow, Single
<1> QED
  BY <1>1, ListInvariant, PTL

\* Whoever a request waits for has a check of that session under way
\* (sessionAccessChecks is cleared in a finally).
THEOREM ChecksAreUnderWay == ListSpec => []ChecksEnd
<1>1. ListInv => ChecksEnd
  BY DEF ListInv
<1> QED
  BY <1>1, ListInvariant, PTL
=============================================================================
