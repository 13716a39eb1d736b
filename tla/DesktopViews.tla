---------------------------- MODULE DesktopViews ----------------------------
(***************************************************************************)
(* The global state file of Codex Desktop as the bridge reads and rewrites *)
(* it: projects and their roots, the project a thread is assigned to, the  *)
(* order of the threads in the sidebar, threads without a project, and the *)
(* working directory of each.                                              *)
(*                                                                         *)
(* A path is the sequence of its directory names, which is what is left of *)
(* its spelling after normalizePath.                                       *)
(***************************************************************************)
EXTENDS Naturals, Sequences, FiniteSets

CONSTANTS
  Thread,      \* threads, as numbers
  Project,     \* projects, as numbers, in the order of the keys of the file
  RootsOf,     \* the root paths of each project
  Path,        \* working directories
  NoProject,   \* no project is assigned
  NoPath       \* no working directory is known

ASSUME ViewsAssumption ==
  /\ Thread \subseteq Nat /\ Project \subseteq Nat
  /\ NoProject \notin Project /\ NoPath \notin Path
  /\ Path \subseteq Seq(STRING) /\ RootsOf \in [Project -> SUBSET Path]

\* What the file says.  listed is project-order: a project may be missing there.
State ==
  [projects : SUBSET Project,
   listed : SUBSET Project,
   assigned : [Thread -> Project \cup {NoProject}],
   order : [Project -> Seq(Thread)],
   projectless : Seq(Thread),
   hint : [Thread -> Path \cup {NoPath}]]

EmptyState ==
  [projects |-> {}, listed |-> {}, assigned |-> [t \in Thread |-> NoProject],
   order |-> [p \in Project |-> <<>>], projectless |-> <<>>,
   hint |-> [t \in Thread |-> NoPath]]

Members(s) == {s[i] : i \in DOMAIN s}
Without(s, t) ==
  LET kept[n \in 0..Len(s)] == IF n = 0 THEN <<>>
                               ELSE IF s[n] = t THEN kept[n - 1] ELSE Append(kept[n - 1], s[n])
  IN  kept[Len(s)]
Heads(s, t) == s # <<>> /\ Head(s) = t

Contains(root, path) == Len(root) <= Len(path) /\ SubSeq(path, 1, Len(root)) = root

\* The project with the longest root above a path.
ProjectFor(st, path) ==
  LET above == {pr \in st.projects \X Path :
                  pr[2] \in RootsOf[pr[1]] /\ Contains(pr[2], path)}
      best == {pr \in above : \A other \in above : Len(other[2]) <= Len(pr[2])}
  IN  IF above = {} THEN NoProject
      ELSE CHOOSE p \in {pr[1] : pr \in best} : \A q \in {pr[1] : pr \in best} : p <= q

AlreadyPlaced(st, t, path) ==
  LET p == ProjectFor(st, path) IN
  /\ st.hint[t] \in {path, NoPath}
  /\ st.assigned[t] = p
  /\ Heads(IF p = NoProject THEN st.projectless ELSE st.order[p], t)

Placed(st, t, path) ==
  LET p == ProjectFor(st, path) IN
  [st EXCEPT
    !.assigned[t] = p,
    !.order = [q \in Project |->
      IF q = p THEN <<t>> \o Without(st.order[q], t) ELSE Without(st.order[q], t)],
    !.projectless = IF p = NoProject THEN <<t>> \o Without(@, t) ELSE Without(@, t),
    !.hint[t] = path]

\* The project a thread is shown under: its assignment, else an order that has it.
ProjectOf(st, t) ==
  LET ordered == {p \in st.projects : t \in Members(st.order[p])}
  IN  IF st.assigned[t] \in st.projects THEN st.assigned[t]
      ELSE IF ordered = {} THEN NoProject
      ELSE CHOOSE p \in ordered : \A q \in ordered : p <= q

ProjectRoots(st) == {pr \in st.projects \X Path : pr[2] \in RootsOf[pr[1]]}

Projects(st) == st.listed \cap st.projects

\* The index of the desktop app, from thread to its row; empty when it cannot be read.
NoRow == "none"
Gone(index, t) == \/ index[t] = "archived"
                  \/ /\ \E u \in Thread : index[u] # NoRow
                     /\ index[t] = NoRow

ProjectlessGhosts(st, index, deleted, known) ==
  {t \in Members(st.projectless) \ (known \cup deleted) : ~Gone(index, t)}

SidebarGhosts(st, index, deleted, known) ==
  {ghost \in Thread \X st.projects :
     /\ ghost[1] \in Members(st.order[ghost[2]]) \ (known \cup deleted)
     /\ ~Gone(index, ghost[1])}
----------------------------------------------------------------------------
(* What DesktopState shows of the file, and SessionList takes for granted  *)

Once(s) == \A i, j \in DOMAIN s : s[i] = s[j] => i = j

\* A thread is in one list at most, once, and that is where it is assigned to.
Tidy(s) ==
  /\ \A p \in Project : Once(s.order[p]) /\ \A t \in Members(s.order[p]) : s.assigned[t] = p
  /\ Once(s.projectless) /\ \A t \in Members(s.projectless) : s.assigned[t] = NoProject
=============================================================================
