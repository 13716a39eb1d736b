------------------------- MODULE DesktopStateProofs -------------------------
(***************************************************************************)
(* Theorems about DesktopState, for any number of callers, threads,        *)
(* projects, changes and failures.  IInv is inductive.  A step either      *)
(* changes one call and leaves the files alone (OneCall), or changes a     *)
(* file and ages what the calls know of it (FileChanges).  Placing is, on  *)
(* top of it: what is in the state file, or will be put there, is of its   *)
(* type and places no thread twice.                                        *)
(*                                                                         *)
(* First come the facts about the state file and registerThread, which     *)
(* the proofs about the list that is read from it (SessionListProofs) use  *)
(* as well.  Without is a recursive function; what it computes is proved   *)
(* with the least number for which the claim would fail.                   *)
(***************************************************************************)
EXTENDS DesktopState, FiniteSetTheorems, WellFoundedInduction, TLAPS

\* A nonempty set of numbers has a least one.
LEMMA LeastNumber ==
  ASSUME NEW S \in SUBSET Nat, S # {}
  PROVE  \E n \in S : \A m \in S : n <= m
<1>1. PICK n \in S : \A m \in S : ~(<<m, n>> \in OpToRel(<, Nat))
  BY NatLessThanWellFounded, WFMin
<1>2. \A m \in S : ~(m < n)
  BY <1>1 DEF OpToRel
<1> QED
  BY <1>2

\* A nonempty set of bounded numbers has a greatest one.
LEMMA GreatestNumber ==
  ASSUME NEW S \in SUBSET Nat, S # {}, NEW bound \in Nat, \A n \in S : n <= bound
  PROVE  \E n \in S : \A m \in S : m <= n
<1> DEFINE Gaps == {k \in Nat : \E n \in S : n + k = bound}
<1>1. PICK k \in Gaps : \A m \in Gaps : k <= m
  <2>1. Gaps \in SUBSET Nat
    OBVIOUS
  <2>2. PICK n \in S : TRUE
    OBVIOUS
  <2>3. bound - n \in Gaps
    BY <2>2
  <2> QED
    BY <2>1, <2>3, LeastNumber
<1>2. PICK n \in S : n + k = bound
  BY <1>1
<1>3. \A m \in S : m <= n
  <2> TAKE m \in S
  <2>1. bound - m \in Gaps
    OBVIOUS
  <2> QED
    BY <1>1, <1>2, <2>1
<1> QED
  BY <1>3

----------------------------------------------------------------------------
(* Without                                                                 *)

\* k[n] is what is kept of the first n elements.
KeptStep(k, s, t, n) ==
  IF n = 0 THEN <<>> ELSE IF s[n] = t THEN k[n - 1] ELSE Append(k[n - 1], s[n])
Keeps(k, s, t, m) == k = [n \in 0..m |-> KeptStep(k, s, t, n)]

LEMMA KeptExists ==
  ASSUME NEW s, NEW t, NEW m \in Nat
  PROVE  \E k : Keeps(k, s, t, m)
<1> DEFINE Bad == {n \in Nat : ~ \E k : Keeps(k, s, t, n)}
<1> SUFFICES ASSUME Bad # {} PROVE FALSE
  OBVIOUS
<1>1. PICK n \in Bad : \A j \in Bad : n <= j
  <2>1. Bad \in SUBSET Nat
    OBVIOUS
  <2> QED
    BY <2>1, LeastNumber
<1>2. CASE n = 0
  <2> DEFINE k == [i \in 0..0 |-> <<>>]
  <2>1. \A i \in 0..0 : KeptStep(k, s, t, i) = <<>>
    BY DEF KeptStep
  <2>2. Keeps(k, s, t, 0)
    BY <2>1 DEF Keeps
  <2> QED
    BY <1>1, <1>2, <2>2
<1>3. CASE n # 0
  <2>1. n - 1 \in Nat /\ n - 1 \notin Bad
    BY <1>1, <1>3
  <2>2. PICK k : Keeps(k, s, t, n - 1)
    BY <2>1
  <2> DEFINE g == [i \in 0..n |-> IF i = n THEN KeptStep(k, s, t, n) ELSE k[i]]
  <2>3. \A i \in 0..n : KeptStep(g, s, t, i) = g[i]
    <3> TAKE i \in 0..n
    <3>1. CASE i = 0
      BY <1>3, <2>1, <2>2, <3>1 DEF KeptStep, Keeps
    <3>2. CASE i # 0
      <4>1. i - 1 \in 0..(n - 1) /\ g[i - 1] = k[i - 1]
        BY <3>2
      <4>2. KeptStep(g, s, t, i) = KeptStep(k, s, t, i)
        BY <3>2, <4>1 DEF KeptStep
      <4>3. i # n => k[i] = KeptStep(k, s, t, i)
        BY <2>1, <2>2 DEF Keeps
      <4> QED
        BY <4>2, <4>3
    <3> QED
      BY <3>1, <3>2
  <2>4. Keeps(g, s, t, n)
    BY <2>3 DEF Keeps
  <2> QED
    BY <1>1, <2>4
<1> QED
  BY <1>2, <1>3

LEMMA WithoutKeeps ==
  ASSUME NEW S, NEW s \in Seq(S), NEW t
  PROVE  /\ Without(s, t) \in Seq(S)
         /\ Members(Without(s, t)) = Members(s) \ {t}
         /\ Once(s) => Once(Without(s, t))
<1>1. Len(s) \in Nat /\ DOMAIN s = 1..Len(s)
  OBVIOUS
<1>2. PICK k : Keeps(k, s, t, Len(s)) /\ Without(s, t) = k[Len(s)]
  <2> DEFINE K == CHOOSE k : Keeps(k, s, t, Len(s))
  <2>1. Keeps(K, s, t, Len(s))
    BY <1>1, KeptExists
  <2>2. Without(s, t) = K[Len(s)]
    BY DEF Without, Keeps, KeptStep
  <2> QED
    BY <2>1, <2>2
<1> DEFINE Good(n) == /\ k[n] \in Seq(S)
                      /\ Members(k[n]) = {s[i] : i \in 1..n} \ {t}
                      /\ Once(s) => Once(k[n])
           Bad == {n \in 0..Len(s) : ~Good(n)}
<1>3. Bad = {}
  <2> SUFFICES ASSUME Bad # {} PROVE FALSE
    OBVIOUS
  <2>1. PICK n \in Bad : \A j \in Bad : n <= j
    <3>1. Bad \in SUBSET Nat
      BY <1>1
    <3> QED
      BY <3>1, LeastNumber
  <2>2. n \in 0..Len(s) /\ n \in Nat /\ k[n] = KeptStep(k, s, t, n)
    BY <1>1, <1>2, <2>1 DEF Keeps
  <2>3. CASE n = 0
    <3>1. k[n] = <<>>
      BY <2>2, <2>3 DEF KeptStep
    <3>2. Good(n)
      BY <2>3, <3>1 DEF Members, Once
    <3> QED
      BY <2>1, <3>2
  <2>4. CASE n # 0
    <3>1. n - 1 \in 0..Len(s) /\ n - 1 \notin Bad
      <4>1. n - 1 \in 0..Len(s) /\ ~(n <= n - 1)
        BY <1>1, <2>2, <2>4
      <4> HIDE DEF Bad
      <4> QED
        BY <2>1, <4>1
    <3>2. Good(n - 1)
      BY <3>1
    <3>3. s[n] \in S /\ n \in DOMAIN s /\ \A i \in 1..(n - 1) : i \in DOMAIN s /\ i # n
      BY <1>1, <2>2, <2>4
    <3>4. {s[i] : i \in 1..n} = {s[i] : i \in 1..(n - 1)} \cup {s[n]}
      BY <2>2, <2>4
    <3>5. CASE s[n] = t
      <4>1. k[n] = k[n - 1]
        BY <2>2, <2>4, <3>5 DEF KeptStep
      <4>2. Good(n)
        BY <3>2, <3>4, <3>5, <4>1
      <4> QED
        BY <2>1, <4>2
    <3>6. CASE s[n] # t
      <4> DEFINE q == k[n - 1]
      <4>1. k[n] = Append(q, s[n]) /\ q \in Seq(S)
        BY <2>2, <2>4, <3>2, <3>6 DEF KeptStep
      <4> HIDE DEF q
      <4>2. /\ k[n] \in Seq(S) /\ Len(k[n]) = Len(q) + 1 /\ Len(q) \in Nat
            /\ \A i \in 1..Len(q) : k[n][i] = q[i]
            /\ k[n][Len(q) + 1] = s[n]
            /\ DOMAIN q = 1..Len(q) /\ DOMAIN k[n] = 1..(Len(q) + 1)
        BY <3>3, <4>1
      <4>3. Members(k[n]) = Members(q) \cup {s[n]}
        BY <4>2 DEF Members
      <4>4. Members(q) = {s[i] : i \in 1..(n - 1)} \ {t}
        BY <3>2 DEF q
      <4>5. Once(s) => Once(k[n])
        <5> SUFFICES ASSUME Once(s), NEW i \in DOMAIN k[n], NEW j \in DOMAIN k[n], k[n][i] = k[n][j]
                     PROVE  i = j
          BY DEF Once
        <5>1. s[n] \notin Members(q)
          BY <3>3, <4>4 DEF Once
        <5>2. \A x \in 1..Len(q) : k[n][x] # s[n]
          BY <4>2, <5>1 DEF Members
        <5>3. Once(q)
          BY <3>2 DEF q
        <5> QED
          BY <4>2, <5>2, <5>3 DEF Once
      <4>6. Good(n)
        BY <3>4, <3>6, <4>2, <4>3, <4>4, <4>5
      <4> QED
        BY <2>1, <4>6
    <3> QED
      BY <3>5, <3>6
  <2> QED
    BY <2>3, <2>4
<1>4. Good(Len(s))
  <2>1. Len(s) \in 0..Len(s)
    BY <1>1
  <2> HIDE DEF Good
  <2> QED
    BY <1>3, <2>1
<1>5. {s[i] : i \in 1..Len(s)} = Members(s)
  BY <1>1 DEF Members
<1> QED
  BY <1>2, <1>4, <1>5

----------------------------------------------------------------------------
(* The state file                                                          *)

LEMMA EmptyIsTidy == EmptyState \in State /\ Tidy(EmptyState)
<1>1. EmptyState \in State
  BY DEF EmptyState, State
<1>2. \A p \in Project : EmptyState.order[p] = <<>>
  BY DEF EmptyState
<1>3. EmptyState.projectless = <<>>
  BY DEF EmptyState
<1>4. Once(<<>>) /\ Members(<<>>) = {}
  BY DEF Once, Members
<1> QED
  BY <1>1, <1>2, <1>3, <1>4 DEF Tidy

LEMMA StateFields ==
  ASSUME NEW s \in State
  PROVE  /\ s.projects \in SUBSET Project /\ s.listed \in SUBSET Project
         /\ s.assigned \in [Thread -> Project \cup {NoProject}]
         /\ s.order \in [Project -> Seq(Thread)] /\ s.projectless \in Seq(Thread)
         /\ s.hint \in [Thread -> Path \cup {NoPath}]
BY DEF State

\* The project with the longest root above a path is one of those that exist.
LEMMA ProjectForKnown ==
  ASSUME NEW st \in State, NEW path \in Path
  PROVE  ProjectFor(st, path) \in st.projects \cup {NoProject}
<1> DEFINE above == {pr \in st.projects \X Path :
                       pr[2] \in RootsOf[pr[1]] /\ Contains(pr[2], path)}
           best == {pr \in above : \A other \in above : Len(other[2]) <= Len(pr[2])}
           first == {pr[1] : pr \in best}
<1>1. ProjectFor(st, path) = IF above = {} THEN NoProject
                             ELSE CHOOSE p \in first : \A q \in first : p <= q
  BY DEF ProjectFor
<1>2. CASE above = {}
  BY <1>1, <1>2
<1>3. CASE above # {}
  <2>1. \A p \in Path : Len(p) \in Nat
    BY ViewsAssumption
  <2>2. \A pr \in above : pr[1] \in st.projects /\ pr[2] \in Path /\ Len(pr[2]) <= Len(path)
    BY DEF Contains
  <2> HIDE DEF above
  <2> DEFINE lengths == {n \in Nat : \E pr \in above : n = Len(pr[2])}
  <2>3. PICK n \in lengths : \A m \in lengths : m <= n
    <3>1. lengths \in SUBSET Nat /\ \A m \in lengths : m <= Len(path)
      BY <2>2
    <3>2. lengths # {}
      BY <1>3, <2>1, <2>2
    <3>3. Len(path) \in Nat
      BY <2>1
    <3> HIDE DEF lengths
    <3> QED
      BY <3>1, <3>2, <3>3, GreatestNumber
  <2>4. PICK pr \in above : n = Len(pr[2])
    BY <2>3
  <2>5. pr \in best
    <3> SUFFICES ASSUME NEW other \in above
                 PROVE  Len(other[2]) <= Len(pr[2])
      BY <2>4
    <3>1. Len(other[2]) \in lengths
      BY <2>1, <2>2
    <3> QED
      BY <2>3, <2>4, <3>1
  <2>6. first \in SUBSET st.projects /\ pr[1] \in first
    BY <2>2, <2>5
  <2>7. first \in SUBSET Nat
    <3>1. st.projects \in SUBSET Nat
      BY StateFields, ViewsAssumption
    <3> QED
      BY <2>6, <3>1
  <2> HIDE DEF first
  <2>8. \E p \in first : \A q \in first : p <= q
    BY <2>6, <2>7, LeastNumber
  <2>9. ProjectFor(st, path) \in first
    BY <1>1, <1>3, <2>8
  <2> QED
    BY <2>6, <2>9
<1> QED
  BY <1>2, <1>3

LEMMA StateWith ==
  ASSUME NEW s \in State, NEW assigned, NEW order, NEW projectless, NEW hint
  PROVE  [s EXCEPT !.assigned = assigned, !.order = order, !.projectless = projectless, !.hint = hint]
         = [projects |-> s.projects, listed |-> s.listed, assigned |-> assigned,
            order |-> order, projectless |-> projectless, hint |-> hint]
<1> DEFINE a == [projects |-> s.projects, listed |-> s.listed, assigned |-> assigned,
                 order |-> s.order, projectless |-> s.projectless, hint |-> s.hint]
           b == [projects |-> s.projects, listed |-> s.listed, assigned |-> assigned,
                 order |-> order, projectless |-> s.projectless, hint |-> s.hint]
           c == [projects |-> s.projects, listed |-> s.listed, assigned |-> assigned,
                 order |-> order, projectless |-> projectless, hint |-> s.hint]
<1>1. [s EXCEPT !.assigned = assigned] = a
  BY DEF State
<1>2. [a EXCEPT !.order = order] = b
  OBVIOUS
<1>3. [b EXCEPT !.projectless = projectless] = c
  OBVIOUS
<1>4. [c EXCEPT !.hint = hint] = [projects |-> s.projects, listed |-> s.listed, assigned |-> assigned,
                                  order |-> order, projectless |-> projectless, hint |-> hint]
  OBVIOUS
<1> HIDE DEF a, b, c
<1> QED
  BY <1>1, <1>2, <1>3, <1>4

\* What becomes of the lists when a thread gets a place, at one end or the other.
LEMMA GetsAPlace ==
  ASSUME NEW st \in State, Tidy(st), NEW t \in Thread, NEW p \in Project \cup {NoProject},
         NEW s \in State,
         s.assigned = [st.assigned EXCEPT ![t] = p],
         \A q \in Project :
           LET rest == Without(st.order[q], t) IN
           s.order[q] \in IF q = p THEN {<<t>> \o rest, Append(rest, t)} ELSE {rest},
         LET rest == Without(st.projectless, t) IN
         s.projectless \in IF p = NoProject THEN {<<t>> \o rest, Append(rest, t)} ELSE {rest}
  PROVE  Tidy(s)
<1>1. ASSUME NEW q \in Seq(Thread), Once(q)
      PROVE  LET rest == Without(q, t) IN
             /\ Once(rest) /\ Members(rest) = Members(q) \ {t}
             /\ \A new \in {<<t>> \o rest, Append(rest, t)} :
                  Once(new) /\ Members(new) = Members(q) \cup {t}
  <2> DEFINE rest == Without(q, t)
  <2>1. rest \in Seq(Thread) /\ Once(rest) /\ Members(rest) = Members(q) \ {t}
    BY <1>1, WithoutKeeps
  <2> HIDE DEF rest
  <2>2. Len(rest) \in Nat /\ DOMAIN rest = 1..Len(rest) /\ \A i \in 1..Len(rest) : rest[i] # t
    <3>1. Len(rest) \in Nat /\ DOMAIN rest = 1..Len(rest)
      BY <2>1
    <3>2. \A i \in DOMAIN rest : rest[i] \in Members(rest)
      BY DEF Members
    <3> QED
      BY <2>1, <3>1, <3>2
  <2>3. Once(<<t>> \o rest) /\ Members(<<t>> \o rest) = Members(q) \cup {t}
    <3> DEFINE new == <<t>> \o rest
    <3>1. /\ DOMAIN new = 1..(Len(rest) + 1) /\ new[1] = t
          /\ \A i \in 2..(Len(rest) + 1) : i - 1 \in 1..Len(rest) /\ new[i] = rest[i - 1]
      BY <2>1, <2>2
    <3>2. \A i \in 1..Len(rest) : i + 1 \in 2..(Len(rest) + 1) /\ new[i + 1] = rest[i]
      BY <2>2, <3>1
    <3> HIDE DEF new
    <3>3. Members(new) = Members(rest) \cup {t}
      <4>1. \A x \in Members(new) : x \in Members(rest) \cup {t}
        <5> SUFFICES ASSUME NEW i \in 1..(Len(rest) + 1)
                     PROVE  new[i] \in Members(rest) \cup {t}
          BY <3>1 DEF Members
        <5>1. i = 1 \/ i \in 2..(Len(rest) + 1)
          BY <2>2
        <5> QED
          BY <2>2, <3>1, <5>1 DEF Members
      <4>2. \A x \in Members(rest) : x \in Members(new)
        <5> SUFFICES ASSUME NEW i \in 1..Len(rest)
                     PROVE  rest[i] \in Members(new)
          BY <2>2 DEF Members
        <5>1. i + 1 \in DOMAIN new /\ new[i + 1] = rest[i]
          BY <2>2, <3>1, <3>2
        <5> QED
          BY <5>1 DEF Members
      <4>3. t \in Members(new)
        <5>1. 1 \in DOMAIN new
          BY <2>2, <3>1
        <5> QED
          BY <3>1, <5>1 DEF Members
      <4> QED
        BY <4>1, <4>2, <4>3
    <3>4. Once(new)
      <4> SUFFICES ASSUME NEW i \in 1..(Len(rest) + 1), NEW j \in 1..(Len(rest) + 1), new[i] = new[j]
                   PROVE  i = j
        BY <3>1 DEF Once
      <4>1. \A x \in 2..(Len(rest) + 1) : new[x] # t
        BY <2>2, <3>1
      <4>2. CASE i = 1 \/ j = 1
        <5>1. (i = 1 \/ i \in 2..(Len(rest) + 1)) /\ (j = 1 \/ j \in 2..(Len(rest) + 1))
          BY <2>2
        <5> QED
          BY <3>1, <4>1, <4>2, <5>1
      <4>3. CASE i # 1 /\ j # 1
        <5>1. i \in 2..(Len(rest) + 1) /\ j \in 2..(Len(rest) + 1)
          BY <2>2, <4>3
        <5>2. /\ i - 1 \in DOMAIN rest /\ j - 1 \in DOMAIN rest
              /\ rest[i - 1] = rest[j - 1]
          BY <2>2, <3>1, <5>1
        <5>3. i - 1 = j - 1
          BY <2>1, <5>2 DEF Once
        <5> QED
          BY <2>2, <5>3
      <4> QED
        BY <4>2, <4>3
    <3> QED
      BY <2>1, <3>3, <3>4 DEF new
  <2>4. Once(Append(rest, t)) /\ Members(Append(rest, t)) = Members(q) \cup {t}
    <3> DEFINE new == Append(rest, t)
    <3>1. /\ DOMAIN new = 1..(Len(rest) + 1) /\ new[Len(rest) + 1] = t
          /\ \A i \in 1..Len(rest) : new[i] = rest[i]
      BY <2>1, <2>2
    <3> HIDE DEF new
    <3>2. Members(new) = Members(rest) \cup {t}
      BY <2>2, <3>1 DEF Members
    <3>3. Once(new)
      <4> SUFFICES ASSUME NEW i \in 1..(Len(rest) + 1), NEW j \in 1..(Len(rest) + 1), new[i] = new[j]
                   PROVE  i = j
        BY <3>1 DEF Once
      <4>1. \A x \in 1..(Len(rest) + 1) : x = Len(rest) + 1 \/ x \in 1..Len(rest)
        BY <2>2
      <4>2. CASE i \in 1..Len(rest) /\ j \in 1..Len(rest)
        BY <2>1, <2>2, <3>1, <4>2 DEF Once
      <4>3. CASE i = Len(rest) + 1 \/ j = Len(rest) + 1
        BY <2>2, <3>1, <4>1, <4>3
      <4> QED
        BY <4>1, <4>2, <4>3
    <3> QED
      BY <2>1, <3>2, <3>3 DEF new
  <2> QED
    BY <2>1, <2>3, <2>4 DEF rest
<1>2. /\ st.order \in [Project -> Seq(Thread)] /\ st.projectless \in Seq(Thread)
      /\ st.assigned \in [Thread -> Project \cup {NoProject}]
  BY StateFields
<1>3. \A u \in Thread : s.assigned[u] = IF u = t THEN p ELSE st.assigned[u]
  BY <1>2
<1>4. ASSUME NEW q \in Project
      PROVE  Once(s.order[q]) /\ \A u \in Members(s.order[q]) : s.assigned[u] = q
  <2>1. /\ st.order[q] \in Seq(Thread) /\ Once(st.order[q])
        /\ \A u \in Members(st.order[q]) : u \in Thread /\ st.assigned[u] = q
    BY <1>2 DEF Tidy, Members
  <2>2. CASE q = p
    <3>1. Once(s.order[q]) /\ Members(s.order[q]) = Members(st.order[q]) \cup {t}
      BY <1>1, <2>1, <2>2
    <3> QED
      BY <1>3, <2>1, <2>2, <3>1
  <2>3. CASE q # p
    <3>1. Once(s.order[q]) /\ Members(s.order[q]) = Members(st.order[q]) \ {t}
      BY <1>1, <2>1, <2>3
    <3> QED
      BY <1>3, <2>1, <3>1
  <2> QED
    BY <2>2, <2>3
<1>5. Once(s.projectless) /\ \A u \in Members(s.projectless) : s.assigned[u] = NoProject
  <2>1. /\ Once(st.projectless)
        /\ \A u \in Members(st.projectless) : u \in Thread /\ st.assigned[u] = NoProject
    BY <1>2 DEF Tidy, Members
  <2>2. CASE p = NoProject
    <3>1. Once(s.projectless) /\ Members(s.projectless) = Members(st.projectless) \cup {t}
      BY <1>1, <1>2, <2>1, <2>2
    <3> QED
      BY <1>3, <2>1, <2>2, <3>1
  <2>3. CASE p # NoProject
    <3>1. Once(s.projectless) /\ Members(s.projectless) = Members(st.projectless) \ {t}
      BY <1>1, <1>2, <2>1, <2>3
    <3> QED
      BY <1>3, <2>1, <3>1
  <2> QED
    BY <2>2, <2>3
<1> QED
  BY <1>4, <1>5 DEF Tidy

\* registerThread leaves the file well-formed, and the thread with one place.
LEMMA PlacedIsTidy ==
  ASSUME NEW st \in State, Tidy(st), NEW t \in Thread, NEW path \in Path
  PROVE  Placed(st, t, path) \in State /\ Tidy(Placed(st, t, path))
<1> DEFINE p == ProjectFor(st, path)
           order == [q \in Project |->
             IF q = p THEN <<t>> \o Without(st.order[q], t) ELSE Without(st.order[q], t)]
           loose == IF p = NoProject THEN <<t>> \o Without(st.projectless, t)
                    ELSE Without(st.projectless, t)
           assigned == [st.assigned EXCEPT ![t] = p]
           hint == [st.hint EXCEPT ![t] = path]
           s == [projects |-> st.projects, listed |-> st.listed, assigned |-> assigned,
                 order |-> order, projectless |-> loose, hint |-> hint]
<1>1. /\ st.projects \in SUBSET Project /\ st.listed \in SUBSET Project
      /\ st.assigned \in [Thread -> Project \cup {NoProject}]
      /\ st.order \in [Project -> Seq(Thread)] /\ st.projectless \in Seq(Thread)
      /\ st.hint \in [Thread -> Path \cup {NoPath}]
  BY StateFields
<1>2. p \in Project \cup {NoProject}
  BY <1>1, ProjectForKnown
<1>3. Placed(st, t, path) = s
  <2>1. Placed(st, t, path) = [st EXCEPT !.assigned = assigned, !.order = order,
                                         !.projectless = loose, !.hint = hint]
    BY DEF Placed
  <2> HIDE DEF assigned, order, loose, hint, p
  <2> QED
    BY <2>1, StateWith
<1>4. order \in [Project -> Seq(Thread)] /\ loose \in Seq(Thread)
  <2>1. ASSUME NEW q \in Seq(Thread)
        PROVE  Without(q, t) \in Seq(Thread) /\ <<t>> \o Without(q, t) \in Seq(Thread)
    <3>1. Without(q, t) \in Seq(Thread)
      BY WithoutKeeps
    <3> QED
      BY <3>1
  <2> QED
    BY <1>1, <2>1
<1>5. assigned \in [Thread -> Project \cup {NoProject}] /\ hint \in [Thread -> Path \cup {NoPath}]
  BY <1>1, <1>2
<1>6. \A q \in Project :
        LET rest == Without(st.order[q], t) IN
        order[q] \in IF q = p THEN {<<t>> \o rest, Append(rest, t)} ELSE {rest}
  OBVIOUS
<1>7. LET rest == Without(st.projectless, t) IN
      loose \in IF p = NoProject THEN {<<t>> \o rest, Append(rest, t)} ELSE {rest}
  OBVIOUS
<1> HIDE DEF order, loose, hint, p
<1>8. s \in State
  BY <1>1, <1>4, <1>5 DEF State
<1>9. s.assigned = [st.assigned EXCEPT ![t] = p] /\ s.order = order /\ s.projectless = loose
  OBVIOUS
<1> HIDE DEF s
<1>10. Tidy(s)
  BY <1>2, <1>6, <1>7, <1>8, <1>9, GetsAPlace
<1> QED
  BY <1>3, <1>8, <1>10

----------------------------------------------------------------------------
(* The caches and the calls                                                *)

Registering == {"register", "check", "rename"}
Pc == {"idle", "register", "check", "rename", "get", "load", "fill", "done"}

IsCall(r) ==
  /\ r = [pc |-> r.pc, todo |-> r.todo, attempt |-> r.attempt, data |-> r.data,
          read |-> r.read, raced |-> r.raced, source |-> r.source]
  /\ r.pc \in Pc /\ r.read \in Known /\ r.raced \in BOOLEAN /\ r.source \in Reads

Shape ==
  /\ call = [c \in Caller |-> call[c]]
  /\ \A c \in Caller : IsCall(call[c])
  /\ cache \in [Source -> Known]

\* A registration reads no source; what it takes for present is the state file,
\* and unless it was raced, its content is present as long as its mtime may be.
Registers(r) ==
  r.pc \in Registering =>
    /\ r.source = "nothing"
    /\ r.pc # "register" => r.read.content # "none"
    /\ r.read.content = "now" => r.data = state
    /\ (/\ ~r.raced /\ r.read.content # "none"
        /\ \/ r.pc = "rename"
           \/ r.read.mtime = "now"
           \/ r.pc = "register" /\ r.read.mtime = "none")
       => r.read.content = "now"

\* What may be remembered under the present mtime.
Usable(s, content) ==
  \/ content = "now"
  \/ s = "state" /\ content = "empty" /\ fails > 0
  \/ s = "tombstones" /\ content = "partial"

\* A reader that still has the present mtime has the present content, or what a
\* failed read or a backup being written left of it.
Fills(r) ==
  /\ r.pc \in {"load", "fill"} => r.source \in Source
  /\ r.pc = "fill" /\ r.read.mtime = "now" => Usable(r.source, r.read.content)

\* One more operation has failed, or none.
Counts == fails' \in {fails, fails + 1}

IInv ==
  /\ Shape /\ CacheFresh /\ fails \in Nat
  /\ \A c \in Caller : Registers(call[c]) /\ Fills(call[c])

(* A call that begins to register, or to read, knows nothing yet.          *)
LEMMA BeginsFresh ==
  ASSUME NEW todo
  PROVE  /\ IsCall(Begin(todo)) /\ Registers(Begin(todo)) /\ Fills(Begin(todo))
         /\ IsCall(Resting) /\ Registers(Resting) /\ Fills(Resting)
<1>1. Resting = [pc |-> "idle", todo |-> <<>>, attempt |-> 0, data |-> EmptyState,
                 read |-> NoCache, raced |-> FALSE, source |-> "nothing"]
  BY DEF Resting
<1>2. Begin(todo) = [pc |-> IF todo = <<>> THEN "get" ELSE "register", todo |-> todo,
                     attempt |-> 0, data |-> EmptyState, read |-> NoCache, raced |-> FALSE,
                     source |-> "nothing"]
  <2> DEFINE next == IF todo = <<>> THEN "get" ELSE "register"
  <2>1. Begin(todo) = [Resting EXCEPT !.todo = todo, !.pc = next]
    BY DEF Begin
  <2> HIDE DEF next
  <2>2. Begin(todo) = [pc |-> next, todo |-> todo, attempt |-> 0, data |-> EmptyState,
                       read |-> NoCache, raced |-> FALSE, source |-> "nothing"]
    BY <1>1, <2>1
  <2> QED
    BY <2>2 DEF next
<1>3. NoCache \in Known /\ NoCache.content = "none" /\ "nothing" \in Reads
  BY DEF NoCache, Known, Age, Reads
<1>4. IsCall(Begin(todo)) /\ IsCall(Resting)
  BY <1>1, <1>2, <1>3 DEF IsCall, Pc
<1>5. Registers(Begin(todo)) /\ Fills(Begin(todo)) /\ Registers(Resting) /\ Fills(Resting)
  BY <1>1, <1>2, <1>3 DEF Registers, Registering, Fills
<1> QED
  BY <1>4, <1>5

(* The same holds after NextThread, Retry and Finish.                      *)
LEMMA GoesOnFresh ==
  ASSUME NEW c \in Caller, NEW r
  PROVE  /\ IsCall(NextThread(r)) /\ Registers(NextThread(r)) /\ Fills(NextThread(r))
         /\ IsCall(Retry(r)) /\ Registers(Retry(r)) /\ Fills(Retry(r))
         /\ IsCall(Finish(c)) /\ Registers(Finish(c)) /\ Fills(Finish(c))
<1>1. IsCall(NextThread(r)) /\ Registers(NextThread(r)) /\ Fills(NextThread(r))
  BY BeginsFresh DEF NextThread
<1>2. IsCall(Retry(r)) /\ Registers(Retry(r)) /\ Fills(Retry(r))
  <2>1. CASE r.attempt = 2
    BY <1>1, <2>1 DEF Retry
  <2>2. CASE r.attempt # 2
    <3> DEFINE b == Begin(r.todo)
    <3>1. Retry(r) = [b EXCEPT !.attempt = r.attempt + 1]
      BY <2>2 DEF Retry
    <3>2. IsCall(b) /\ Registers(b) /\ Fills(b)
      BY BeginsFresh
    <3> QED
      BY <3>1, <3>2 DEF IsCall, Registers, Fills
  <2> QED
    BY <2>1, <2>2
<1>3. IsCall(Finish(c)) /\ Registers(Finish(c)) /\ Fills(Finish(c))
  BY BeginsFresh DEF Finish, Resting, NoCache, IsCall, Pc, Known, Age, Reads, Source,
     Registers, Registering, Fills
<1> QED
  BY <1>1, <1>2, <1>3

(* What was usable stays so when something else fails.                     *)
LEMMA StaysUsable ==
  ASSUME IInv, Counts
  PROVE  /\ fails' \in Nat
         /\ \A s, content : Usable(s, content) => Usable(s, content)'
         /\ \A r : Fills(r) => Fills(r)'
         /\ cache' = cache => CacheFresh'
<1>1. fails \in Nat /\ fails' \in Nat /\ (fails > 0 => fails' > 0)
  BY DEF IInv, Counts
<1>2. ASSUME NEW s, NEW content, Usable(s, content) PROVE Usable(s, content)'
  BY <1>1, <1>2 DEF Usable
<1>3. ASSUME NEW r, Fills(r) PROVE Fills(r)'
  BY <1>2, <1>3 DEF Fills
<1>4. cache' = cache => CacheFresh'
  BY <1>1 DEF IInv, CacheFresh, Fresh
<1> QED
  BY <1>1, <1>2, <1>3, <1>4

(* One call changes, the state file does not.                              *)
LEMMA OneCall ==
  ASSUME IInv, Counts, NEW c \in Caller, NEW r, call' = [call EXCEPT ![c] = r],
         IsCall(r), Registers(r), Fills(r), state' = state,
         cache' \in [Source -> Known], CacheFresh'
  PROVE  IInv'
<1>1. call' = [d \in Caller |-> IF d = c THEN r ELSE call[d]]
  BY DEF IInv, Shape
<1>2. Shape'
  BY <1>1 DEF IInv, Shape, IsCall
<1>3. ASSUME NEW d \in Caller PROVE Registers(call[d])' /\ Fills(call[d])'
  <2>1. call'[d] \in {r, call[d]}
    BY <1>1
  <2>2. Registers(call'[d]) /\ Fills(call'[d])
    BY <2>1 DEF IInv
  <2> QED
    BY <2>2, StaysUsable DEF Registers, Fills
<1> QED
  BY <1>2, <1>3, StaysUsable DEF IInv

(* What a call knows of a source that has changed is not present any more. *)
LEMMA AgesCall ==
  ASSUME IInv, NEW s \in Source, s # "state" => state' = state, NEW c \in Caller
  PROVE  LET r == CallsAfter(s)[c] IN
         /\ IsCall(r) /\ Fills(r)
         /\ r.pc = call[c].pc /\ r.source = call[c].source
         /\ r.pc \in Registering =>
              /\ r.source = "nothing"
              /\ r.pc # "register" => r.read.content # "none"
              /\ r.read.content = "now" => r.data = state'
              /\ (/\ ~r.raced /\ r.read.content # "none"
                  /\ \/ r.pc = "rename"
                     \/ r.read.mtime = "now"
                     \/ r.pc = "register" /\ r.read.mtime = "none")
                 => r.read.content = "now"
<1> DEFINE q == call[c]
           concerned == q.source = s \/ (s = "state" /\ q.pc \in {"register", "check", "rename"})
           r == CallsAfter(s)[c]
<1>1. IsCall(q) /\ Registers(q) /\ Fills(q)
  BY DEF IInv, Shape
<1>2. CASE ~concerned
  <2>1. r = q
    BY <1>2 DEF CallsAfter
  <2>2. q.pc \in Registering => s # "state"
    BY <1>2 DEF Registering
  <2> QED
    BY <1>1, <2>1, <2>2 DEF Registers
<1>3. CASE concerned
  <2>1. r = [q EXCEPT !.read = Outdated(q.read), !.raced = q.raced \/ Unnoticed(q)]
    BY <1>3 DEF CallsAfter
  <2>2. /\ r = [pc |-> q.pc, todo |-> q.todo, attempt |-> q.attempt, data |-> q.data,
                read |-> Outdated(q.read), raced |-> q.raced \/ Unnoticed(q), source |-> q.source]
    BY <1>1, <2>1 DEF IsCall
  <2>3. /\ Outdated(q.read) \in Known
        /\ Outdated(q.read).mtime \in {"none", "old"}
        /\ Outdated(q.read).content \in {"none", "old"}
        /\ Outdated(q.read).mtime = "none" <=> q.read.mtime = "none"
        /\ Outdated(q.read).content = "none" <=> q.read.content = "none"
    BY <1>1 DEF IsCall, Outdated, Older, Known, Age
  <2>4. IsCall(r) /\ Fills(r) /\ r.pc = q.pc /\ r.source = q.source
    BY <1>1, <2>2, <2>3 DEF IsCall, Fills, Unnoticed
  <2>5. ASSUME r.pc \in Registering, ~r.raced, r.read.content # "none",
               r.pc = "rename" \/ r.read.mtime = "now" \/ (r.pc = "register" /\ r.read.mtime = "none")
        PROVE  FALSE
    <3>1. /\ r.raced <=> (q.raced \/ Unnoticed(q))
          /\ r.pc = q.pc /\ r.read = Outdated(q.read)
      <4> HIDE DEF r, q
      <4> QED
        BY <2>2
    <3> QED
      BY <2>3, <2>5, <3>1 DEF Unnoticed
  <2> QED
    BY <1>1, <2>2, <2>3, <2>4, <2>5 DEF Registers
<1> QED
  BY <1>2, <1>3

(* A file or directory has changed.                                        *)
LEMMA FileChanges ==
  ASSUME IInv, fails' = fails, NEW s \in Source, s # "state" => state' = state,
         call' = CallsAfter(s), cache' = CacheAfter(s)
  PROVE  IInv'
<1>0. Counts
  BY DEF Counts
<1>1. call' = [c \in Caller |-> CallsAfter(s)[c]]
  BY DEF CallsAfter
<1>2. cache' \in [Source -> Known] /\ CacheFresh'
  BY DEF IInv, Shape, CacheAfter, NoCache, Known, Age, CacheFresh, Fresh
<1>3. \A c \in Caller : call'[c] = CallsAfter(s)[c]
  BY <1>1
<1>4. Shape'
  BY <1>1, <1>2, <1>3, AgesCall DEF Shape
<1>5. \A c \in Caller : Registers(call[c])' /\ Fills(call[c])'
  BY <1>3, AgesCall DEF Registers, Fills, Usable
<1> QED
  BY <1>0, <1>2, <1>4, <1>5, StaysUsable DEF IInv

----------------------------------------------------------------------------
(* registerThread                                                          *)

(* Beginning, giving up and beginning again leave nothing known.           *)
LEMMA BeginningKeeps ==
  ASSUME IInv, NEW c \in Caller,
         Start(c) \/ ReadFails(c) \/ NothingToDo(c) \/ RenameFails(c)
  PROVE  IInv'
<1>1. state' = state /\ cache' = cache /\ Counts
  BY DEF Start, ReadFails, NothingToDo, RenameFails, Counts
<1>2. cache' \in [Source -> Known] /\ CacheFresh'
  BY <1>1, StaysUsable DEF IInv, Shape
<1>3. PICK r : /\ call' = [call EXCEPT ![c] = r]
               /\ IsCall(r) /\ Registers(r) /\ Fills(r)
  <2>1. CASE Start(c)
    BY <2>1, BeginsFresh DEF Start
  <2>2. CASE ReadFails(c)
    BY <2>2, GoesOnFresh DEF ReadFails
  <2>3. CASE NothingToDo(c)
    BY <2>3, GoesOnFresh DEF NothingToDo
  <2>4. CASE RenameFails(c)
    BY <2>4, GoesOnFresh DEF RenameFails
  <2> QED
    BY <2>1, <2>2, <2>3, <2>4
<1> QED
  BY <1>1, <1>2, <1>3, OneCall

(* The two reads, in any order.                                            *)
LEMMA ReadingKeeps ==
  ASSUME IInv, NEW c \in Caller, ReadContent(c) \/ ReadStat(c)
  PROVE  IInv'
<1> DEFINE q == call[c]
<1>1. state' = state /\ cache' = cache /\ Counts /\ q.pc = "register"
  BY DEF ReadContent, ReadStat, Counts
<1>2. cache' \in [Source -> Known] /\ CacheFresh'
  BY <1>1, StaysUsable DEF IInv, Shape
<1>3. IsCall(q) /\ Registers(q)
  BY DEF IInv, Shape
<1>4. CASE ReadContent(c)
  <2> DEFINE r == [pc |-> q.pc, todo |-> q.todo, attempt |-> q.attempt, data |-> state,
                   read |-> [content |-> "now", mtime |-> q.read.mtime],
                   raced |-> q.raced, source |-> q.source]
  <2>1. call' = [call EXCEPT ![c] = r]
    <3>1. call' = [call EXCEPT ![c] = [q EXCEPT !.read.content = "now", !.data = state]]
      BY <1>4 DEF ReadContent, IInv, Shape
    <3>2. [q.read EXCEPT !.content = "now"] = [content |-> "now", mtime |-> q.read.mtime]
      BY <1>3 DEF IsCall, Known
    <3>3. [q EXCEPT !.read.content = "now", !.data = state]
            = [q EXCEPT !.read = [q.read EXCEPT !.content = "now"], !.data = state]
      OBVIOUS
    <3>4. [q EXCEPT !.read.content = "now", !.data = state] = r
      <4> DEFINE p == [q EXCEPT !.read = [content |-> "now", mtime |-> q.read.mtime]]
      <4>1. p = [pc |-> q.pc, todo |-> q.todo, attempt |-> q.attempt, data |-> q.data,
                 read |-> [content |-> "now", mtime |-> q.read.mtime],
                 raced |-> q.raced, source |-> q.source]
        BY <1>3 DEF IsCall
      <4> HIDE DEF p
      <4>2. [p EXCEPT !.data = state] = r
        BY <4>1
      <4> QED
        BY <3>2, <3>3, <4>2 DEF p
    <3> QED
      BY <3>1, <3>4
  <2>2. IsCall(r) /\ Registers(r) /\ Fills(r)
    BY <1>1, <1>3 DEF IsCall, Registers, Registering, Fills, Known, Age
  <2> QED
    BY <1>1, <1>2, <2>1, <2>2, OneCall
<1>5. CASE ReadStat(c)
  <2> DEFINE r == [pc |-> q.pc, todo |-> q.todo, attempt |-> q.attempt, data |-> q.data,
                   read |-> [content |-> q.read.content, mtime |-> "now"],
                   raced |-> q.raced, source |-> q.source]
  <2>1. call' = [call EXCEPT ![c] = r] /\ q.read.mtime = "none"
    <3>1. call' = [call EXCEPT ![c] = [q EXCEPT !.read.mtime = "now"]] /\ q.read.mtime = "none"
      BY <1>5 DEF ReadStat
    <3>2. [q.read EXCEPT !.mtime = "now"] = [content |-> q.read.content, mtime |-> "now"]
      BY <1>3 DEF IsCall, Known
    <3>3. [q EXCEPT !.read.mtime = "now"] = r
      BY <1>3, <3>2 DEF IsCall
    <3> QED
      BY <3>1, <3>3
  <2>2. IsCall(r) /\ Registers(r) /\ Fills(r)
    BY <1>1, <1>3, <2>1 DEF IsCall, Registers, Registering, Fills, Known, Age
  <2> QED
    BY <1>1, <1>2, <2>1, <2>2, OneCall
<1> QED
  BY <1>4, <1>5

(* The temporary file is written, and the state file looked at again.      *)
LEMMA CheckingKeeps ==
  ASSUME IInv, NEW c \in Caller, WriteTemp(c) \/ Check(c)
  PROVE  IInv'
<1> DEFINE q == call[c]
           Onto(pc) == [pc |-> pc, todo |-> q.todo, attempt |-> q.attempt, data |-> q.data,
                        read |-> q.read, raced |-> q.raced, source |-> q.source]
<1>1. state' = state /\ cache' = cache /\ Counts
  BY DEF WriteTemp, Check, Counts
<1>2. cache' \in [Source -> Known] /\ CacheFresh'
  BY <1>1, StaysUsable DEF IInv, Shape
<1>3. IsCall(q) /\ Registers(q)
  BY DEF IInv, Shape
<1>4. CASE WriteTemp(c)
  <2>1. call' = [call EXCEPT ![c] = Onto("check")]
    <3>1. call' = [call EXCEPT ![c] = [q EXCEPT !.pc = "check"]]
      BY <1>4 DEF WriteTemp
    <3>2. [q EXCEPT !.pc = "check"] = Onto("check")
      BY <1>3 DEF IsCall
    <3> QED
      BY <3>1, <3>2
  <2>2. IsCall(Onto("check")) /\ Registers(Onto("check")) /\ Fills(Onto("check"))
    BY <1>3, <1>4 DEF WriteTemp, BothRead, IsCall, Pc, Registers, Registering, Fills
  <2> QED
    BY <1>1, <1>2, <2>1, <2>2, OneCall
<1>5. CASE Check(c) /\ q.read.mtime = "now"
  <2>1. call' = [call EXCEPT ![c] = Onto("rename")]
    <3>1. call' = [call EXCEPT ![c] = [q EXCEPT !.pc = "rename"]]
      BY <1>5 DEF Check
    <3>2. [q EXCEPT !.pc = "rename"] = Onto("rename")
      BY <1>3 DEF IsCall
    <3> QED
      BY <3>1, <3>2
  <2>2. q.pc = "check"
    BY <1>5 DEF Check
  <2>3. IsCall(Onto("rename")) /\ Registers(Onto("rename")) /\ Fills(Onto("rename"))
    BY <1>3, <1>5, <2>2 DEF IsCall, Pc, Registers, Registering, Fills
  <2> QED
    BY <1>1, <1>2, <2>1, <2>3, OneCall
<1>6. CASE Check(c) /\ q.read.mtime # "now"
  <2>1. call' = [call EXCEPT ![c] = Retry(q)]
    BY <1>6 DEF Check
  <2> QED
    BY <1>1, <1>2, <2>1, OneCall, GoesOnFresh
<1> QED
  BY <1>4, <1>5, <1>6

(* The state file is replaced: what the other calls know of it is old.     *)
LEMMA RenamingKeeps ==
  ASSUME IInv, NEW c \in Caller, Rename(c)
  PROVE  IInv'
<1>1. "state" \in Source
  BY DEF Source
<1>2. call' = [d \in Caller |-> IF d = c THEN NextThread(call[c]) ELSE CallsAfter("state")[d]]
  BY DEF Rename, CallsAfter
<1>3. cache' \in [Source -> Known] /\ CacheFresh'
  BY DEF IInv, Shape, Rename, NoCache, Known, Age, CacheFresh, Fresh
<1>4. /\ IsCall(NextThread(call[c])) /\ Fills(NextThread(call[c]))
      /\ NextThread(call[c]).read.content = "none"
      /\ NextThread(call[c]).source = "nothing"
      /\ NextThread(call[c]).pc \in {"get", "register"}
  <2>1. /\ NextThread(call[c]).read.content = "none"
        /\ NextThread(call[c]).source = "nothing"
        /\ NextThread(call[c]).pc \in {"get", "register"}
    BY DEF NextThread, Begin, Resting, NoCache
  <2> QED
    BY <2>1, GoesOnFresh
<1>5. Shape'
  BY <1>1, <1>2, <1>3, <1>4, AgesCall DEF Shape
<1>6. fails' = fails
  BY DEF Rename
<1>7. \A d \in Caller : Registers(call[d])' /\ Fills(call[d])'
  BY <1>1, <1>2, <1>4, <1>6, AgesCall DEF Registers, Registering, Fills, Usable
<1> QED
  BY <1>3, <1>5, <1>6, <1>7 DEF IInv

----------------------------------------------------------------------------
(* The readers, and Codex Desktop                                          *)

(* A source about which nothing is remembered.                             *)
LEMMA Forgets ==
  ASSUME IInv, Counts, NEW s \in Source, cache' = [cache EXCEPT ![s] = NoCache]
  PROVE  cache' \in [Source -> Known] /\ CacheFresh'
<1>1. NoCache \in Known /\ NoCache.mtime = "none"
  BY DEF NoCache, Known, Age
<1>2. cache' \in [Source -> Known]
  BY <1>1 DEF IInv, Shape
<1>3. ASSUME NEW o \in Source, cache'[o].mtime = "now" PROVE cache'[o] = cache[o]
  BY <1>1, <1>3 DEF IInv, Shape
<1>4. fails > 0 => fails' > 0
  BY DEF IInv, Counts
<1> QED
  BY <1>2, <1>3, <1>4 DEF IInv, CacheFresh, Fresh

LEMMA GettingKeeps ==
  ASSUME IInv, NEW c \in Caller, NEW s \in Source, Stat(c, s) \/ StatFails(c, s)
  PROVE  IInv'
<1> DEFINE q == call[c]
           load == [pc |-> "load", todo |-> q.todo, attempt |-> q.attempt, data |-> q.data,
                    read |-> [content |-> q.read.content, mtime |-> "now"],
                    raced |-> q.raced, source |-> s]
<1>1. state' = state /\ cache' \in [Source -> Known] /\ CacheFresh' /\ Counts
  <2>1. state' = state /\ Counts /\ cache' \in {cache, [cache EXCEPT ![s] = NoCache]}
    BY DEF Stat, StatFails, Counts
  <2>2. CASE cache' = cache
    BY <2>1, <2>2, StaysUsable DEF IInv, Shape
  <2>3. CASE cache' = [cache EXCEPT ![s] = NoCache]
    BY <2>1, <2>3, Forgets DEF IInv, Shape
  <2> QED
    BY <2>1, <2>2, <2>3
<1>2. IsCall(q)
  BY DEF IInv, Shape
<1>3. CASE call' = [call EXCEPT ![c] = Finish(c)]
  BY <1>1, <1>3, OneCall, GoesOnFresh
<1>4. CASE Stat(c, s) /\ ~Fresh(s)
  <2>1. call' = [call EXCEPT ![c] = load]
    <3>1. call' = [call EXCEPT ![c] =
                     [q EXCEPT !.pc = "load", !.source = s, !.read.mtime = "now"]]
      BY <1>4 DEF Stat
    <3>2. [q.read EXCEPT !.mtime = "now"] = [content |-> q.read.content, mtime |-> "now"]
      BY <1>2 DEF IsCall, Known
    <3>3. [q EXCEPT !.pc = "load", !.source = s, !.read.mtime = "now"]
            = [q EXCEPT !.pc = "load", !.source = s, !.read = [q.read EXCEPT !.mtime = "now"]]
      BY <1>2 DEF IsCall
    <3>4. [q EXCEPT !.pc = "load", !.source = s, !.read.mtime = "now"] = load
      <4> DEFINE p == [q EXCEPT !.pc = "load"]
                 o == [p EXCEPT !.source = s]
      <4>1. p = [pc |-> "load", todo |-> q.todo, attempt |-> q.attempt, data |-> q.data,
                 read |-> q.read, raced |-> q.raced, source |-> q.source]
        BY <1>2 DEF IsCall
      <4> HIDE DEF p
      <4>2. o = [pc |-> "load", todo |-> q.todo, attempt |-> q.attempt, data |-> q.data,
                 read |-> q.read, raced |-> q.raced, source |-> s]
        BY <4>1
      <4> HIDE DEF o
      <4>3. [o EXCEPT !.read = [content |-> q.read.content, mtime |-> "now"]] = load
        BY <4>2
      <4> QED
        BY <3>2, <3>3, <4>3 DEF o, p
    <3> QED
      BY <3>1, <3>4
  <2>2. IsCall(load) /\ Registers(load) /\ Fills(load)
    BY <1>2 DEF IsCall, Pc, Reads, Registers, Registering, Fills, Known, Age
  <2> QED
    BY <1>1, <2>1, <2>2, OneCall
<1> QED
  BY <1>3, <1>4 DEF Stat, StatFails

LEMMA LoadingKeeps ==
  ASSUME IInv, NEW c \in Caller, Load(c) \/ LoadFails(c) \/ Fill(c)
  PROVE  IInv'
<1> DEFINE q == call[c]
           fill(content) ==
             [pc |-> "fill", todo |-> q.todo, attempt |-> q.attempt, data |-> q.data,
              read |-> [content |-> content, mtime |-> q.read.mtime],
              raced |-> q.raced, source |-> q.source]
<1>1. IsCall(q) /\ Fills(q) /\ state' = state /\ Counts /\ fails \in Nat
  BY DEF IInv, Shape, Load, LoadFails, Fill, Counts
<1>2. ASSUME NEW content \in Age, NEW s \in Source, s = q.source, cache' = cache,
             call' = [call EXCEPT ![c].pc = "fill", ![c].read.content = content],
             Usable(s, content)'
      PROVE  IInv'
  <2>1. call' = [call EXCEPT ![c] = fill(content)]
    <3>1. call' = [call EXCEPT ![c] = [q EXCEPT !.pc = "fill", !.read.content = content]]
      BY <1>2 DEF IInv, Shape
    <3>2. [q.read EXCEPT !.content = content] = [content |-> content, mtime |-> q.read.mtime]
      BY <1>1 DEF IsCall, Known
    <3>3. [q EXCEPT !.pc = "fill", !.read.content = content]
            = [q EXCEPT !.pc = "fill", !.read = [q.read EXCEPT !.content = content]]
      BY <1>1 DEF IsCall
    <3>4. [q EXCEPT !.pc = "fill", !.read.content = content] = fill(content)
      <4> DEFINE p == [q EXCEPT !.pc = "fill"]
      <4>1. p = [pc |-> "fill", todo |-> q.todo, attempt |-> q.attempt, data |-> q.data,
                 read |-> q.read, raced |-> q.raced, source |-> q.source]
        BY <1>1 DEF IsCall
      <4> HIDE DEF p
      <4>2. [p EXCEPT !.read = [content |-> content, mtime |-> q.read.mtime]] = fill(content)
        BY <4>1
      <4> QED
        BY <3>2, <3>3, <4>2 DEF p
    <3> QED
      BY <3>1, <3>4
  <2>2. IsCall(fill(content)) /\ Registers(fill(content))
    BY <1>1, <1>2 DEF IsCall, Pc, Registers, Registering, Known
  <2>3. fill(content).pc = "fill" /\ fill(content).source = s
        /\ fill(content).read.content = content
    BY <1>2
  <2> HIDE DEF fill
  <2>4. call' = [d \in Caller |-> IF d = c THEN fill(content) ELSE call[d]]
    BY <2>1 DEF IInv, Shape
  <2>5. Shape'
    BY <1>2, <2>2, <2>4 DEF IInv, Shape, IsCall
  <2>6. ASSUME NEW d \in Caller PROVE Registers(call[d])' /\ Fills(call[d])'
    <3>1. CASE d = c
      BY <1>1, <1>2, <2>2, <2>3, <2>4, <3>1 DEF Registers, Fills
    <3>2. CASE d # c
      BY <1>1, <2>4, <3>2, StaysUsable DEF IInv, Registers, Fills
    <3> QED
      BY <3>1, <3>2
  <2> QED
    BY <1>1, <1>2, <2>5, <2>6, StaysUsable DEF IInv
<1>3. CASE Load(c)
  <2>1. /\ cache' = cache /\ "now" \in Age
        /\ call' = [call EXCEPT ![c].pc = "fill", ![c].read.content = "now"]
    BY <1>3 DEF Load, Age
  <2>2. (\A s : Usable(s, "now")') /\ q.source \in Source
    BY <1>1, <1>3 DEF Usable, Load, Fills
  <2> HIDE DEF fill
  <2> QED
    BY <1>2, <2>1, <2>2
<1>4. CASE LoadFails(c)
  <2>1. fails' > 0 /\ "empty" \in Age /\ "partial" \in Age
    BY <1>1, <1>4 DEF LoadFails, Age
  <2>2. \/ /\ q.source = "state" /\ cache' = cache
           /\ call' = [call EXCEPT ![c].pc = "fill", ![c].read.content = "empty"]
        \/ /\ q.source # "state" /\ q.source # "locks" /\ cache' = cache
           /\ call' = [call EXCEPT ![c].pc = "fill", ![c].read.content = "partial"]
        \/ /\ q.source # "state" /\ call' = [call EXCEPT ![c] = Finish(c)]
           /\ cache' = [cache EXCEPT ![q.source] = NoCache]
    <3>1. CASE q.source = "state"
      BY <1>4, <3>1 DEF LoadFails
    <3>2. CASE q.source # "state"
      BY <1>4, <3>2 DEF LoadFails
    <3> QED
      BY <3>1, <3>2
  <2>3. Usable("state", "empty")' /\ Usable("tombstones", "partial")'
    BY <1>1, <2>1 DEF Usable
  <2> HIDE DEF fill
  <2>4. q.source \in Source
    BY <1>1, <1>4 DEF LoadFails, Fills
  <2> QED
    BY <1>1, <1>2, <2>1, <2>2, <2>3, <2>4, Forgets, OneCall, GoesOnFresh DEF Source
<1>5. CASE Fill(c)
  <2>1. /\ Remember(q.read) \in Known
        /\ Remember(q.read).mtime = "now" =>
             q.read.mtime = "now" /\ Usable(q.source, Remember(q.read).content)
    BY <1>1, <1>5 DEF Fill, Fills, IsCall, Remember, NoCache, Known, Age
  <2>2. cache' \in [Source -> Known] /\ CacheFresh'
    <3>1. fails' = fails /\ cache' = [cache EXCEPT ![q.source] = Remember(q.read)]
      BY <1>5 DEF Fill
    <3>2. cache' \in [Source -> Known]
      BY <2>1, <3>1 DEF IInv, Shape
    <3>3. ASSUME NEW s \in Source, cache'[s].mtime = "now"
          PROVE  Usable(s, cache'[s].content)
      <4>1. CASE s = q.source
        BY <2>1, <3>1, <3>3, <4>1 DEF IInv, Shape
      <4>2. CASE s # q.source
        BY <3>1, <3>3, <4>2 DEF IInv, Shape, CacheFresh, Fresh, Usable
      <4> QED
        BY <4>1, <4>2
    <3> QED
      BY <3>1, <3>2, <3>3 DEF CacheFresh, Fresh, Usable
  <2> QED
    BY <1>1, <1>5, <2>2, OneCall, GoesOnFresh DEF Fill
<1> QED
  BY <1>3, <1>4, <1>5

(* A backup is written: a read of its directory may have missed it.        *)
LEMMA BackupKeeps ==
  ASSUME IInv, WriteBackup
  PROVE  IInv'
<1>1. ASSUME NEW k \in Known
      PROVE  /\ Partial(k) \in Known /\ Partial(k).mtime = k.mtime
             /\ Partial(k).content \in {k.content, "partial"}
             /\ Partial(k).content # "now"
  BY DEF Partial, Known, Age
<1>2. cache' \in [Source -> Known] /\ CacheFresh'
  BY <1>1 DEF IInv, Shape, WriteBackup, CacheFresh, Fresh, Source
<1>5. fails' = fails
  BY DEF WriteBackup
<1>3. ASSUME NEW c \in Caller
      PROVE  IsCall(call'[c]) /\ Registers(call[c])' /\ Fills(call[c])'
  <2> DEFINE q == call[c]
  <2>1. IsCall(q) /\ Registers(q) /\ Fills(q) /\ state' = state
    BY DEF IInv, Shape, WriteBackup
  <2>2. CASE q.source # "tombstones"
    BY <1>5, <2>1, <2>2 DEF WriteBackup, Registers, Fills, Usable
  <2>3. CASE q.source = "tombstones"
    <3>1. call'[c] = [pc |-> q.pc, todo |-> q.todo, attempt |-> q.attempt, data |-> q.data,
                      read |-> Partial(q.read), raced |-> q.raced, source |-> q.source]
      BY <2>1, <2>3 DEF WriteBackup, IsCall
    <3>2. q.pc \notin Registering
      BY <2>1, <2>3 DEF Registers
    <3> QED
      BY <1>1, <2>1, <2>3, <3>1, <3>2 DEF IsCall, Registers, Fills, Usable
  <2> QED
    BY <2>2, <2>3
<1>4. Shape'
  BY <1>2, <1>3 DEF Shape, WriteBackup
<1> QED
  BY <1>2, <1>3, <1>4, <1>5 DEF IInv

LEMMA DesktopKeeps ==
  ASSUME IInv, Desktop
  PROVE  IInv'
<1>1. "state" \in Source
  BY DEF Source
<1>2. ASSUME NEW content, Edit(content) PROVE IInv'
  BY <1>1, <1>2, FileChanges DEF Edit
<1>3. ASSUME NEW p \in Project, AddProject(p) \/ RemoveProject(p) PROVE IInv'
  BY <1>2, <1>3 DEF AddProject, RemoveProject
<1>4. ASSUME NEW t \in Thread, NEW p \in Project \cup {NoProject}, MoveThread(t, p) PROVE IInv'
  BY <1>2, <1>4 DEF MoveThread
<1>5. ASSUME NEW s \in Source, ChangeDirectory(s) PROVE IInv'
  BY <1>5, FileChanges DEF ChangeDirectory
<1> QED
  BY <1>3, <1>4, <1>5, BackupKeeps DEF Desktop

----------------------------------------------------------------------------
(* Theorems                                                                *)

LEMMA Starts == Init => IInv
<1> SUFFICES ASSUME Init PROVE IInv
  OBVIOUS
<1>1. Shape
  BY BeginsFresh DEF Init, Shape, NoCache, Known, Age
<1>2. CacheFresh /\ \A c \in Caller : Registers(call[c]) /\ Fills(call[c])
  BY BeginsFresh DEF Init, CacheFresh, Fresh, NoCache
<1>3. fails \in Nat
  BY DEF Init
<1> QED
  BY <1>1, <1>2, <1>3 DEF IInv

LEMMA Steps == IInv /\ [Next]_vars => IInv'
<1> SUFFICES ASSUME IInv, [Next]_vars PROVE IInv'
  OBVIOUS
<1>1. ASSUME NEW c \in Caller, Register(c) PROVE IInv'
  BY <1>1, BeginningKeeps, ReadingKeeps, CheckingKeeps, RenamingKeeps DEF Register
<1>2. ASSUME NEW c \in Caller, Read(c) PROVE IInv'
  <2>1. "state" \in Source /\ "tombstones" \in Source /\ "locks" \in Source
    BY DEF Source
  <2> QED
    BY <1>2, <2>1, GettingKeeps, LoadingKeeps
       DEF Read, GetState, GetDeletedThreadIds, GetLockedThreadIds
<1>3. CASE UNCHANGED vars
  BY <1>3 DEF vars, IInv, Shape, CacheFresh, Fresh, Registers, Fills, Usable
<1> QED
  BY <1>1, <1>2, <1>3, DesktopKeeps DEF Next

LEMMA Invariant == Spec => []IInv
BY Starts, Steps, PTL DEF Spec

(* A registration that is about to replace the state file has computed its *)
(* new content from the one it replaces, unless a write went unnoticed     *)
(* between its two reads or after its last check (registerThread).         *)
THEOREM RegistrationsKeepUpdates == Spec => []UpdatesKept
<1>1. IInv => UpdatesKept
  <2> SUFFICES ASSUME IInv, NEW c \in Caller, call[c].pc = "rename", ~call[c].raced
               PROVE  call[c].data = state
    BY DEF UpdatesKept
  <2>1. Registers(call[c]) /\ "rename" \in Registering
    BY DEF IInv, Registering
  <2>2. call[c].read.content = "now"
    BY <2>1 DEF Registers
  <2> QED
    BY <2>1, <2>2 DEF Registers
<1> QED
  BY <1>1, Invariant, PTL

(* However readers and writers overlap, a cache entry that the next reader *)
(* would use is what its source holds; but a failed read of the state file *)
(* is remembered as an empty file, and a backup that was being written or  *)
(* could not be read is missing (getState, getDeletedThreadIds,            *)
(* getLockedThreadIds).                                                    *)
THEOREM CachesAreFresh == Spec => []CacheFresh
<1>1. IInv => CacheFresh
  BY DEF IInv
<1> QED
  BY <1>1, Invariant, PTL

----------------------------------------------------------------------------
(* The places of the threads                                               *)

\* A call that registers has a thread to register, and the content it has read of
\* the state file, like the file itself, gives every thread one place.
WellFormed(r) ==
  /\ r \in Call /\ Tidy(r.data)
  /\ r.pc \in Registering => r.todo # <<>>

Placing ==
  /\ TypeOK /\ Tidy(state)
  /\ \A c \in Caller : WellFormed(call[c])

LEMMA BeginsWellFormed ==
  ASSUME NEW todo \in Seq(Thread)
  PROVE  /\ WellFormed(Begin(todo)) /\ WellFormed(Resting)
         /\ \A c \in Caller : WellFormed(Finish(c))
<1> DEFINE no == FALSE
<1>1. Resting = [pc |-> "idle", todo |-> <<>>, attempt |-> 0, data |-> EmptyState,
                 read |-> NoCache, raced |-> no, source |-> "nothing"]
  BY DEF Resting
<1>2. NoCache \in Known /\ "nothing" \in Reads /\ EmptyState \in State /\ Tidy(EmptyState)
      /\ no \in BOOLEAN
  BY EmptyIsTidy DEF NoCache, Known, Age, Reads
<1> HIDE DEF NoCache, EmptyState, no
<1>3. WellFormed(Resting)
  BY <1>1, <1>2 DEF WellFormed, Call, Registering
<1>4. WellFormed(Begin(todo))
  <2> DEFINE pc == IF todo = <<>> THEN "get" ELSE "register"
             b == [pc |-> pc, todo |-> todo, attempt |-> 0, data |-> EmptyState,
                   read |-> NoCache, raced |-> no, source |-> "nothing"]
  <2>1. Begin(todo) = b
    <3> DEFINE a == [pc |-> "idle", todo |-> todo, attempt |-> 0, data |-> EmptyState,
                     read |-> NoCache, raced |-> no, source |-> "nothing"]
    <3>1. Begin(todo) = [[Resting EXCEPT !.todo = todo] EXCEPT !.pc = pc]
      BY DEF Begin
    <3> HIDE DEF pc
    <3>2. [Resting EXCEPT !.todo = todo] = a
      BY <1>1
    <3>3. [a EXCEPT !.pc = pc] = b
      OBVIOUS
    <3> HIDE DEF a, b
    <3> QED
      BY <3>1, <3>2, <3>3
  <2>2. pc \in {"get", "register"} /\ (pc \in Registering => todo # <<>>)
    BY DEF Registering
  <2> HIDE DEF pc
  <2> QED
    BY <1>2, <2>1, <2>2 DEF WellFormed, Call
<1>5. \A c \in Caller : WellFormed(Finish(c))
  <2> TAKE c \in Caller
  <2>1. [Resting EXCEPT !.pc = "done"]
          = [pc |-> "done", todo |-> <<>>, attempt |-> 0, data |-> EmptyState,
             read |-> NoCache, raced |-> no, source |-> "nothing"]
    BY <1>1
  <2> DEFINE d == [pc |-> "done", todo |-> <<>>, attempt |-> 0, data |-> EmptyState,
                   read |-> NoCache, raced |-> no, source |-> "nothing"]
  <2>2. WellFormed(d)
    BY <1>2 DEF WellFormed, Call, Registering
  <2> HIDE DEF d
  <2>3. WellFormed([Resting EXCEPT !.pc = "done"])
    BY <2>1, <2>2 DEF d
  <2> QED
    BY <1>3, <2>3 DEF Finish
<1> QED
  BY <1>3, <1>4, <1>5

\* A registration that goes on with the next thread, or tries again.
LEMMA GoesOnWellFormed ==
  ASSUME NEW r, WellFormed(r), r.pc \in Registering
  PROVE  WellFormed(NextThread(r)) /\ WellFormed(Retry(r))
<1>1. r \in Call /\ r.todo \in Seq(Thread) /\ r.todo # <<>> /\ r.attempt \in 0..2
  BY DEF WellFormed, Call
<1>2. WellFormed(NextThread(r))
  <2>1. Tail(r.todo) \in Seq(Thread)
    BY <1>1
  <2> QED
    BY <2>1, BeginsWellFormed DEF NextThread
<1>3. CASE r.attempt = 2
  BY <1>2, <1>3 DEF Retry
<1>4. CASE r.attempt # 2
  <2> DEFINE b == Begin(r.todo)
  <2>1. Retry(r) = [b EXCEPT !.attempt = r.attempt + 1]
    BY <1>4 DEF Retry
  <2>2. WellFormed(b)
    BY <1>1, BeginsWellFormed
  <2>3. r.attempt + 1 \in 0..2
    BY <1>1, <1>4
  <2> HIDE DEF b
  <2> DEFINE n == r.attempt + 1
  <2>4. n \in 0..2 /\ Retry(r) = [b EXCEPT !.attempt = n]
    BY <2>1, <2>3
  <2> HIDE DEF n
  <2> DEFINE a == [b EXCEPT !.attempt = n]
  <2>5. a \in Call /\ a.data = b.data /\ a.pc = b.pc /\ a.todo = b.todo
    BY <2>2, <2>4 DEF WellFormed, Call
  <2>6. Retry(r) = a
    BY <2>4
  <2> HIDE DEF a
  <2> QED
    BY <1>2, <2>2, <2>5, <2>6 DEF WellFormed
<1> QED
  BY <1>2, <1>3, <1>4

\* One call changes, the files do not.
LEMMA PlacingOneCall ==
  ASSUME Placing, NEW c \in Caller, NEW r, call' = [call EXCEPT ![c] = r], WellFormed(r),
         state' = state, half' = half, edits' = edits, fails' \in 0..MaxFail,
         cache' \in [Source -> Known]
  PROVE  Placing'
<1>1. call \in [Caller -> Call] /\ r \in Call
  BY DEF Placing, TypeOK, WellFormed
<1>2. \A d \in Caller : call'[d] = IF d = c THEN r ELSE call[d]
  BY <1>1
<1>3. call' \in [Caller -> Call]
  BY <1>1
<1>4. TypeOK'
  BY <1>3 DEF Placing, TypeOK
<1>5. \A d \in Caller : WellFormed(call'[d])
  BY <1>2 DEF Placing
<1> QED
  BY <1>4, <1>5 DEF Placing

\* A source has changed: the calls age, and keep their contents.
LEMMA PlacingFileChanges ==
  ASSUME Placing, NEW s \in Source, NEW calls,
         \A c \in Caller : calls[c] = CallsAfter(s)[c] \/ WellFormed(calls[c]),
         call' = [c \in Caller |-> calls[c]],
         state' \in State, Tidy(state'), half' \in BOOLEAN, cache' \in [Source -> Known],
         edits' \in 0..MaxEdit, fails' \in 0..MaxFail
  PROVE  Placing'
<1>1. ASSUME NEW c \in Caller
      PROVE  WellFormed(CallsAfter(s)[c])
  <2> DEFINE q == call[c]
             r == CallsAfter(s)[c]
  <2>1. WellFormed(q)
    BY DEF Placing
  <2>2. r = q \/ r = [q EXCEPT !.read = Outdated(q.read), !.raced = q.raced \/ Unnoticed(q)]
    BY DEF CallsAfter
  <2>3. Outdated(q.read) \in Known
    BY <2>1 DEF WellFormed, Call, Outdated, Older, Known, Age
  <2>4. (q.raced \/ Unnoticed(q)) \in BOOLEAN
    OBVIOUS
  <2>5. ASSUME NEW k \in Known, NEW b \in BOOLEAN
        PROVE  WellFormed([q EXCEPT !.read = k, !.raced = b])
    <3> DEFINE p == [q EXCEPT !.read = k]
               o == [p EXCEPT !.raced = b]
    <3>1. p \in Call /\ p.data = q.data /\ p.pc = q.pc /\ p.todo = q.todo
      BY <2>1 DEF WellFormed, Call
    <3> HIDE DEF p
    <3>2. o \in Call /\ o.data = q.data /\ o.pc = q.pc /\ o.todo = q.todo
      BY <3>1 DEF Call
    <3> HIDE DEF o
    <3>3. WellFormed(o)
      BY <2>1, <3>2 DEF WellFormed
    <3> QED
      BY <3>3 DEF o, p
  <2> HIDE DEF q, r
  <2> QED
    BY <2>1, <2>2, <2>3, <2>4, <2>5 DEF r
<1>2. \A c \in Caller : WellFormed(call'[c])
  BY <1>1
<1>3. call' \in [Caller -> Call]
  BY <1>2 DEF WellFormed
<1> QED
  BY <1>2, <1>3 DEF Placing, TypeOK

\* A call with one field changed.
LEMMA CallWith ==
  ASSUME NEW q, WellFormed(q)
  PROVE  /\ \A pc \in Pc : (pc \in Registering => q.todo # <<>>) => WellFormed([q EXCEPT !.pc = pc])
         /\ \A data \in State : Tidy(data) => WellFormed([q EXCEPT !.data = data])
         /\ \A read \in Known : WellFormed([q EXCEPT !.read = read])
         /\ \A source \in Reads : WellFormed([q EXCEPT !.source = source])
<1>0. q \in Call /\ Tidy(q.data) /\ (q.pc \in Registering => q.todo # <<>>)
  BY DEF WellFormed
<1>1. ASSUME NEW pc \in Pc, pc \in Registering => q.todo # <<>>
      PROVE  WellFormed([q EXCEPT !.pc = pc])
  <2> DEFINE p == [q EXCEPT !.pc = pc]
  <2>1. p \in Call /\ p.data = q.data /\ p.pc = pc /\ p.todo = q.todo
    BY <1>0, <1>1 DEF Call, Pc
  <2> HIDE DEF p
  <2>2. WellFormed(p)
    BY <1>0, <1>1, <2>1 DEF WellFormed
  <2> QED
    BY <2>2 DEF p
<1>2. ASSUME NEW data \in State, Tidy(data)
      PROVE  WellFormed([q EXCEPT !.data = data])
  <2> DEFINE p == [q EXCEPT !.data = data]
  <2>1. p \in Call /\ p.data = data /\ p.pc = q.pc /\ p.todo = q.todo
    BY <1>0, <1>2 DEF Call
  <2> HIDE DEF p
  <2>2. WellFormed(p)
    BY <1>0, <1>2, <2>1 DEF WellFormed
  <2> QED
    BY <2>2 DEF p
<1>3. ASSUME NEW read \in Known
      PROVE  WellFormed([q EXCEPT !.read = read])
  <2> DEFINE p == [q EXCEPT !.read = read]
  <2>1. p \in Call /\ p.data = q.data /\ p.pc = q.pc /\ p.todo = q.todo
    BY <1>0, <1>3 DEF Call
  <2> HIDE DEF p
  <2>2. WellFormed(p)
    BY <1>0, <2>1 DEF WellFormed
  <2> QED
    BY <2>2 DEF p
<1>4. ASSUME NEW source \in Reads
      PROVE  WellFormed([q EXCEPT !.source = source])
  <2> DEFINE p == [q EXCEPT !.source = source]
  <2>1. p \in Call /\ p.data = q.data /\ p.pc = q.pc /\ p.todo = q.todo
    BY <1>0, <1>4 DEF Call
  <2> HIDE DEF p
  <2>2. WellFormed(p)
    BY <1>0, <2>1 DEF WellFormed
  <2> QED
    BY <2>2 DEF p
<1> QED
  BY <1>1, <1>2, <1>3, <1>4

LEMMA PlacingRegister ==
  ASSUME Placing, NEW c \in Caller,
         \/ Start(c) \/ ReadContent(c) \/ ReadStat(c) \/ ReadFails(c)
         \/ NothingToDo(c) \/ WriteTemp(c) \/ Check(c) \/ RenameFails(c)
  PROVE  Placing'
<1> DEFINE q == call[c]
<1>1. WellFormed(q) /\ q \in Call /\ call \in [Caller -> Call] /\ q.read \in Known
  BY DEF Placing, TypeOK, Call
<1>2. /\ state \in State /\ Tidy(state) /\ fails \in 0..MaxFail
      /\ cache \in [Source -> Known] /\ MaxFail \in Nat
  BY DesktopAssumption DEF Placing, TypeOK
<1>3. UNCHANGED <<state, half, cache, edits>>
  BY DEF Start, ReadContent, ReadStat, ReadFails, NothingToDo, WriteTemp, Check, RenameFails
<1>4. fails' \in 0..MaxFail
  <2>1. fails' = fails \/ (fails < MaxFail /\ fails' = fails + 1)
    BY DEF Start, ReadContent, ReadStat, ReadFails, NothingToDo, WriteTemp, Check, RenameFails
  <2> QED
    BY <1>2, <2>1
<1>5. "now" \in Age /\ {"register", "check", "rename"} \subseteq Pc
  BY DEF Age, Pc
<1>6. PICK r : call' = [call EXCEPT ![c] = r] /\ WellFormed(r)
  <2>1. CASE Start(c)
    BY <2>1, BeginsWellFormed, DesktopAssumption DEF Start
  <2>2. CASE ReadContent(c)
    <3> DEFINE k == [q.read EXCEPT !.content = "now"]
               p == [q EXCEPT !.read = k]
               o == [p EXCEPT !.data = state]
    <3>1. k \in Known
      BY <1>1, <1>5 DEF Known
    <3>2. WellFormed(p)
      BY <1>1, <3>1, CallWith
    <3>3. call' = [call EXCEPT ![c] = o]
      BY <1>1, <2>2 DEF ReadContent
    <3> HIDE DEF p
    <3>4. WellFormed(o)
      BY <1>2, <3>2, CallWith
    <3> QED
      BY <3>3, <3>4
  <2>3. CASE ReadStat(c)
    <3> DEFINE k == [q.read EXCEPT !.mtime = "now"]
               p == [q EXCEPT !.read = k]
    <3>1. k \in Known
      BY <1>1, <1>5 DEF Known
    <3>2. WellFormed(p)
      BY <1>1, <3>1, CallWith
    <3>3. call' = [call EXCEPT ![c] = p]
      BY <1>1, <2>3 DEF ReadStat
    <3> QED
      BY <3>2, <3>3
  <2>4. CASE ReadFails(c)
    BY <1>1, <2>4, GoesOnWellFormed DEF ReadFails, Registering
  <2>5. CASE NothingToDo(c)
    BY <1>1, <2>5, GoesOnWellFormed DEF NothingToDo, BothRead, Registering
  <2>6. CASE WriteTemp(c)
    <3>1. q.todo # <<>> /\ call' = [call EXCEPT ![c] = [q EXCEPT !.pc = "check"]]
      BY <1>1, <2>6 DEF WriteTemp, BothRead, WellFormed, Registering
    <3> QED
      BY <1>1, <1>5, <3>1, CallWith
  <2>7. CASE Check(c) /\ q.read.mtime = "now"
    <3>1. q.todo # <<>> /\ call' = [call EXCEPT ![c] = [q EXCEPT !.pc = "rename"]]
      BY <1>1, <2>7 DEF Check, WellFormed, Registering
    <3> QED
      BY <1>1, <1>5, <3>1, CallWith
  <2>8. CASE Check(c) /\ q.read.mtime # "now"
    BY <1>1, <2>8, GoesOnWellFormed DEF Check, Registering
  <2>9. CASE RenameFails(c)
    BY <1>1, <2>9, GoesOnWellFormed DEF RenameFails, Registering
  <2> QED
    BY <2>1, <2>2, <2>3, <2>4, <2>5, <2>6, <2>7, <2>8, <2>9
<1> QED
  BY <1>2, <1>3, <1>4, <1>6, PlacingOneCall

LEMMA PlacingRename ==
  ASSUME Placing, NEW c \in Caller, Rename(c)
  PROVE  Placing'
<1> DEFINE q == call[c]
           t == Wanted(q)
           calls == [CallsAfter("state") EXCEPT ![c] = NextThread(q)]
<1>1. WellFormed(q) /\ q.pc = "rename" /\ q.pc \in Registering
  BY DEF Placing, Rename, Registering
<1>2. q.data \in State /\ Tidy(q.data) /\ t \in Thread /\ CwdOf[t] \in Path
  <2>1. q.data \in State /\ Tidy(q.data) /\ q.todo \in Seq(Thread) /\ q.todo # <<>>
    BY <1>1 DEF WellFormed, Call
  <2>2. Head(q.todo) \in Thread
    BY <2>1
  <2> QED
    BY <2>1, <2>2, DesktopAssumption DEF Wanted
<1>3. state' \in State /\ Tidy(state')
  BY <1>2, PlacedIsTidy DEF Rename
<1>4. WellFormed(NextThread(q))
  BY <1>1, GoesOnWellFormed
<1>5. /\ \A d \in Caller : calls[d] = CallsAfter("state")[d] \/ WellFormed(calls[d])
      /\ call' = [d \in Caller |-> calls[d]]
  BY <1>4 DEF Rename, CallsAfter
<1>6. "state" \in Source /\ NoCache \in Known
  BY DEF Source, NoCache, Known, Age
<1>7. /\ half' \in BOOLEAN /\ cache' \in [Source -> Known]
      /\ edits' \in 0..MaxEdit /\ fails' \in 0..MaxFail
  BY <1>6 DEF Placing, TypeOK, Rename
<1> HIDE DEF calls
<1> QED
  BY <1>3, <1>5, <1>6, <1>7, PlacingFileChanges

LEMMA PlacingRead ==
  ASSUME Placing, NEW c \in Caller,
         (\E s \in Source : Stat(c, s) \/ StatFails(c, s)) \/ Load(c) \/ LoadFails(c) \/ Fill(c)
  PROVE  Placing'
<1> DEFINE q == call[c]
<1>1. WellFormed(q) /\ q \in Call /\ call \in [Caller -> Call] /\ q.read \in Known /\ q.source \in Reads
  BY DEF Placing, TypeOK, Call
<1>2. /\ fails \in 0..MaxFail /\ cache \in [Source -> Known] /\ MaxFail \in Nat
  BY DesktopAssumption DEF Placing, TypeOK
<1>3. UNCHANGED <<state, half, edits>>
  BY DEF Stat, StatFails, Load, LoadFails, Fill
<1>4. fails' \in 0..MaxFail
  <2>1. fails' = fails \/ (fails < MaxFail /\ fails' = fails + 1)
    BY DEF Stat, StatFails, Load, LoadFails, Fill
  <2> QED
    BY <1>2, <2>1
<1>5. "now" \in Age /\ {"load", "fill"} \subseteq Pc /\ "load" \notin Registering /\ "fill" \notin Registering
  BY DEF Age, Pc, Registering
<1>6. cache' \in [Source -> Known]
  <2>1. NoCache \in Known /\ Remember(q.read) \in Known
    BY <1>1 DEF NoCache, Known, Age, Remember
  <2> QED
    BY <1>2, <2>1 DEF Stat, StatFails, Load, LoadFails, Fill
<1>7. PICK r : call' = [call EXCEPT ![c] = r] /\ WellFormed(r)
  <2>1. CASE call' = [call EXCEPT ![c] = Finish(c)]
    <3>1. <<>> \in Seq(Thread)
      OBVIOUS
    <3> QED
      BY <2>1, <3>1, BeginsWellFormed
  <2>2. ASSUME NEW s \in Source, Stat(c, s), ~Fresh(s)
        PROVE  \E r : call' = [call EXCEPT ![c] = r] /\ WellFormed(r)
    <3> DEFINE k == [q.read EXCEPT !.mtime = "now"]
               p == [q EXCEPT !.pc = "load"]
               o == [p EXCEPT !.source = s]
               n == [o EXCEPT !.read = k]
    <3>1. k \in Known
      BY <1>1, <1>5 DEF Known
    <3>2. WellFormed(p) /\ p.read = q.read
      <4>1. WellFormed(p)
        BY <1>1, <1>5, CallWith
      <4>2. p.read = q.read
        BY <1>1 DEF Call
      <4> QED
        BY <4>1, <4>2
    <3>3. call' = [call EXCEPT ![c] = [q EXCEPT !.pc = "load", !.source = s, !.read.mtime = "now"]]
      BY <2>2 DEF Stat
    <3>4. [q EXCEPT !.pc = "load", !.source = s, !.read.mtime = "now"]
            = [[p EXCEPT !.source = s] EXCEPT !.read.mtime = "now"]
      OBVIOUS
    <3> HIDE DEF p
    <3>5. WellFormed(o) /\ o.read = q.read
      <4>1. WellFormed(o)
        BY <3>2, CallWith DEF Reads
      <4>2. o.read = q.read
        BY <3>2 DEF WellFormed, Call
      <4> QED
        BY <4>1, <4>2
    <3>6. [o EXCEPT !.read.mtime = "now"] = n
      BY <3>5 DEF WellFormed, Call
    <3>7. call' = [call EXCEPT ![c] = n]
      BY <3>3, <3>4, <3>6
    <3> HIDE DEF o, k
    <3>8. WellFormed(n)
      BY <3>1, <3>5, CallWith
    <3> QED
      BY <3>7, <3>8
  <2>3. ASSUME NEW content \in Age,
               call' = [call EXCEPT ![c].pc = "fill", ![c].read.content = content]
        PROVE  \E r : call' = [call EXCEPT ![c] = r] /\ WellFormed(r)
    <3> DEFINE k == [q.read EXCEPT !.content = content]
               p == [q EXCEPT !.pc = "fill"]
               o == [p EXCEPT !.read = k]
    <3>1. k \in Known
      BY <1>1, <1>5 DEF Known
    <3>2. WellFormed(p)
      BY <1>1, <1>5, CallWith
    <3>3. call' = [call EXCEPT ![c] = o]
      BY <1>1, <2>3
    <3> HIDE DEF p, k
    <3>4. WellFormed(o)
      BY <3>1, <3>2, CallWith
    <3> QED
      BY <3>3, <3>4
  <2>4. CASE Load(c)
    BY <1>5, <2>3, <2>4 DEF Load
  <2>5. CASE LoadFails(c)
    <3>1. \/ \E content \in Age :
               call' = [call EXCEPT ![c].pc = "fill", ![c].read.content = content]
          \/ call' = [call EXCEPT ![c] = Finish(c)]
      BY <2>5 DEF LoadFails, Age
    <3> QED
      BY <2>1, <2>3, <3>1
  <2> QED
    BY <2>1, <2>2, <2>4, <2>5 DEF Stat, StatFails, Fill
<1> QED
  BY <1>3, <1>4, <1>6, <1>7, PlacingOneCall

\* A content with one field changed.
LEMMA ContentWith ==
  ASSUME NEW s \in State
  PROVE  /\ \A v \in SUBSET Project :
              LET n == [s EXCEPT !.projects = v] IN
              /\ n \in State /\ n.listed = s.listed /\ n.assigned = s.assigned
              /\ n.order = s.order /\ n.projectless = s.projectless
         /\ \A v \in SUBSET Project :
              LET n == [s EXCEPT !.listed = v] IN
              /\ n \in State /\ n.assigned = s.assigned
              /\ n.order = s.order /\ n.projectless = s.projectless
         /\ \A v \in [Project -> Seq(Thread)] :
              LET n == [s EXCEPT !.order = v] IN
              /\ n \in State /\ n.assigned = s.assigned
              /\ n.order = v /\ n.projectless = s.projectless
         /\ \A v \in [Thread -> Project \cup {NoProject}] :
              LET n == [s EXCEPT !.assigned = v] IN
              /\ n \in State /\ n.assigned = v
              /\ n.order = s.order /\ n.projectless = s.projectless
         /\ \A v \in Seq(Thread) :
              LET n == [s EXCEPT !.projectless = v] IN
              /\ n \in State /\ n.assigned = s.assigned
              /\ n.order = s.order /\ n.projectless = v
<1>1. ASSUME NEW v \in SUBSET Project
      PROVE  LET n == [s EXCEPT !.projects = v] IN
             /\ n \in State /\ n.listed = s.listed /\ n.assigned = s.assigned
             /\ n.order = s.order /\ n.projectless = s.projectless
  BY DEF State
<1>2. ASSUME NEW v \in SUBSET Project
      PROVE  LET n == [s EXCEPT !.listed = v] IN
             /\ n \in State /\ n.assigned = s.assigned
             /\ n.order = s.order /\ n.projectless = s.projectless
  BY DEF State
<1>3. ASSUME NEW v \in [Project -> Seq(Thread)]
      PROVE  LET n == [s EXCEPT !.order = v] IN
             /\ n \in State /\ n.assigned = s.assigned
             /\ n.order = v /\ n.projectless = s.projectless
  BY DEF State
<1>4. ASSUME NEW v \in [Thread -> Project \cup {NoProject}]
      PROVE  LET n == [s EXCEPT !.assigned = v] IN
             /\ n \in State /\ n.assigned = v
             /\ n.order = s.order /\ n.projectless = s.projectless
  BY DEF State
<1>5. ASSUME NEW v \in Seq(Thread)
      PROVE  LET n == [s EXCEPT !.projectless = v] IN
             /\ n \in State /\ n.assigned = s.assigned
             /\ n.order = s.order /\ n.projectless = v
  BY DEF State
<1> QED
  BY <1>1, <1>2, <1>3, <1>4, <1>5

\* A project more, in the file and in its order.
LEMMA MoreProjects ==
  ASSUME NEW s \in State, NEW v \in SUBSET Project, NEW w \in SUBSET Project
  PROVE  LET n == [s EXCEPT !.projects = v, !.listed = w] IN
         /\ n \in State /\ n.assigned = s.assigned
         /\ n.order = s.order /\ n.projectless = s.projectless
<1> DEFINE a == [s EXCEPT !.projects = v]
           n == [a EXCEPT !.listed = w]
<1>1. a \in State /\ a.assigned = s.assigned /\ a.order = s.order /\ a.projectless = s.projectless
  BY ContentWith
<1> HIDE DEF a
<1>2. n \in State /\ n.assigned = s.assigned /\ n.order = s.order /\ n.projectless = s.projectless
  BY <1>1, ContentWith
<1> QED
  BY <1>2 DEF a

\* An edit of Codex Desktop that leaves every thread one place.
LEMMA PlacingEdit ==
  ASSUME Placing, NEW content \in State, Tidy(content), Edit(content)
  PROVE  Placing'
<1> DEFINE calls == CallsAfter("state")
<1>1. "state" \in Source /\ NoCache \in Known
  BY DEF Source, NoCache, Known, Age
<1>2. call' = [c \in Caller |-> calls[c]]
  BY DEF Edit, CallsAfter
<1>3. /\ half' \in BOOLEAN /\ cache' \in [Source -> Known] /\ fails' \in 0..MaxFail
      /\ state' \in State /\ Tidy(state')
  BY <1>1 DEF Placing, TypeOK, Edit, CacheAfter
<1>4. edits' \in 0..MaxEdit
  BY DesktopAssumption DEF Placing, TypeOK, Edit
<1>5. \A c \in Caller : calls[c] = CallsAfter("state")[c]
  OBVIOUS
<1> HIDE DEF calls
<1> QED
  BY <1>1, <1>2, <1>3, <1>4, <1>5, PlacingFileChanges

LEMMA PlacingProjects ==
  ASSUME Placing, NEW p \in Project, AddProject(p) \/ RemoveProject(p)
  PROVE  Placing'
<1>1. state \in State /\ Tidy(state)
  BY DEF Placing, TypeOK
<1>2. /\ state.projects \in SUBSET Project /\ state.listed \in SUBSET Project
      /\ state.assigned \in [Thread -> Project \cup {NoProject}]
      /\ state.order \in [Project -> Seq(Thread)] /\ state.projectless \in Seq(Thread)
  BY <1>1, StateFields
<1>3. CASE AddProject(p)
  <2> DEFINE n == [state EXCEPT !.projects = @ \cup {p}, !.listed = @ \cup {p}]
  <2>1. /\ n \in State /\ n.assigned = state.assigned
        /\ n.order = state.order /\ n.projectless = state.projectless
    <3>1. state.projects \cup {p} \in SUBSET Project /\ state.listed \cup {p} \in SUBSET Project
      BY <1>2
    <3> QED
      BY <1>1, <3>1, MoreProjects
  <2>2. Edit(n)
    BY <1>3 DEF AddProject
  <2> HIDE DEF n
  <2>3. Tidy(n)
    BY <1>1, <2>1 DEF Tidy
  <2> QED
    BY <2>1, <2>2, <2>3, PlacingEdit
<1>4. CASE RemoveProject(p)
  <2> DEFINE projects == state.projects \ {p}
             listed == state.listed \ {p}
             order == [state.order EXCEPT ![p] = <<>>]
             assigned == [t \in Thread |-> IF state.assigned[t] = p THEN NoProject ELSE state.assigned[t]]
             a == [state EXCEPT !.projects = projects, !.listed = listed]
             b == [a EXCEPT !.order = order]
             n == [b EXCEPT !.assigned = assigned]
  <2>1. /\ projects \in SUBSET Project /\ listed \in SUBSET Project
        /\ order \in [Project -> Seq(Thread)]
        /\ assigned \in [Thread -> Project \cup {NoProject}]
    <3>1. <<>> \in Seq(Thread)
      OBVIOUS
    <3> QED
      BY <1>2, <3>1
  <2>2. /\ \A q \in Project : order[q] = IF q = p THEN <<>> ELSE state.order[q]
        /\ \A t \in Thread : assigned[t] = IF state.assigned[t] = p THEN NoProject ELSE state.assigned[t]
    BY <1>2
  <2>3. Edit([state EXCEPT !.projects = projects, !.listed = listed, !.order[p] = <<>>, !.assigned = assigned])
    BY <1>4 DEF RemoveProject
  <2>4. [state EXCEPT !.projects = projects, !.listed = listed, !.order[p] = <<>>, !.assigned = assigned]
          = [[a EXCEPT !.order[p] = <<>>] EXCEPT !.assigned = assigned]
    OBVIOUS
  <2> HIDE DEF projects, listed, assigned
  <2>5. a \in State /\ a.order = state.order /\ a.projectless = state.projectless
    <3> HIDE DEF b, n, order
    <3>1. projects \in SUBSET Project /\ listed \in SUBSET Project
      BY <2>1
    <3> QED
      BY <1>1, <3>1, MoreProjects
  <2> HIDE DEF a
  <2>6. [a EXCEPT !.order[p] = <<>>] = b
    BY <2>5
  <2>7. Edit(n)
    BY <2>3, <2>4, <2>6
  <2> HIDE DEF order
  <2>8. b \in State /\ b.order = order /\ b.projectless = state.projectless
    BY <2>1, <2>5, ContentWith
  <2> HIDE DEF b
  <2>9. n \in State /\ n.order = order /\ n.projectless = state.projectless /\ n.assigned = assigned
    BY <2>1, <2>8, ContentWith
  <2> HIDE DEF n
  <2>10. Tidy(n)
    <3>1. ASSUME NEW q \in Project
          PROVE  Once(n.order[q]) /\ \A t \in Members(n.order[q]) : n.assigned[t] = q
      <4>1. CASE q = p
        <5>1. n.order[q] = <<>>
          BY <2>2, <2>9, <4>1
        <5> QED
          BY <5>1 DEF Once, Members
      <4>2. CASE q # p
        <5>1. n.order[q] = state.order[q] /\ Members(state.order[q]) \subseteq Thread
          BY <1>2, <2>2, <2>9, <4>2 DEF Members
        <5>2. \A t \in Members(state.order[q]) : state.assigned[t] = q
          BY <1>1 DEF Tidy
        <5> QED
          BY <1>1, <2>2, <2>9, <4>2, <5>1, <5>2 DEF Tidy
      <4> QED
        BY <4>1, <4>2
    <3>2. Once(n.projectless) /\ \A t \in Members(n.projectless) : n.assigned[t] = NoProject
      <4>1. Members(state.projectless) \subseteq Thread
        BY <1>2 DEF Members
      <4> QED
        BY <1>1, <2>2, <2>9, <4>1 DEF Tidy
    <3> QED
      BY <3>1, <3>2 DEF Tidy
  <2> QED
    BY <2>7, <2>9, <2>10, PlacingEdit
<1> QED
  BY <1>3, <1>4

LEMMA PlacingMoveThread ==
  ASSUME Placing, NEW t \in Thread, NEW p \in Project \cup {NoProject}, MoveThread(t, p)
  PROVE  Placing'
<1> DEFINE assigned == [state.assigned EXCEPT ![t] = p]
           order == [q \in Project |-> IF q = p THEN Append(Without(state.order[q], t), t)
                                       ELSE Without(state.order[q], t)]
           loose == IF p = NoProject THEN Append(Without(state.projectless, t), t)
                    ELSE Without(state.projectless, t)
           a == [state EXCEPT !.assigned = assigned]
           b == [a EXCEPT !.order = order]
           n == [b EXCEPT !.projectless = loose]
<1>1. state \in State /\ Tidy(state)
  BY DEF Placing, TypeOK
<1>2. /\ state.assigned \in [Thread -> Project \cup {NoProject}]
      /\ state.order \in [Project -> Seq(Thread)] /\ state.projectless \in Seq(Thread)
  BY <1>1, StateFields
<1>3. /\ assigned \in [Thread -> Project \cup {NoProject}]
      /\ order \in [Project -> Seq(Thread)] /\ loose \in Seq(Thread)
  <2>1. ASSUME NEW q \in Seq(Thread)
        PROVE  Without(q, t) \in Seq(Thread) /\ Append(Without(q, t), t) \in Seq(Thread)
    <3>1. Without(q, t) \in Seq(Thread)
      BY WithoutKeeps
    <3> QED
      BY <3>1
  <2> QED
    BY <1>2, <2>1
<1>4. /\ \A q \in Project :
           LET rest == Without(state.order[q], t) IN
           order[q] \in IF q = p THEN {<<t>> \o rest, Append(rest, t)} ELSE {rest}
      /\ LET rest == Without(state.projectless, t) IN
         loose \in IF p = NoProject THEN {<<t>> \o rest, Append(rest, t)} ELSE {rest}
  OBVIOUS
<1>5. Edit([state EXCEPT !.assigned[t] = p, !.order = order, !.projectless = loose])
  BY DEF MoveThread
<1>6. [state EXCEPT !.assigned[t] = p, !.order = order, !.projectless = loose]
        = [[[state EXCEPT !.assigned[t] = p] EXCEPT !.order = order] EXCEPT !.projectless = loose]
  OBVIOUS
<1>7. [state EXCEPT !.assigned[t] = p] = a
  BY <1>1
<1>8. Edit(n)
  <2> HIDE DEF order, loose, assigned
  <2> QED
    BY <1>5, <1>6, <1>7
<1> HIDE DEF order, loose
<1>9. a \in State /\ a.assigned = assigned /\ a.projectless = state.projectless
  BY <1>1, <1>3, ContentWith
<1> HIDE DEF a
<1>10. b \in State /\ b.assigned = assigned /\ b.order = order
  BY <1>3, <1>9, ContentWith
<1> HIDE DEF b
<1>11. n \in State /\ n.assigned = assigned /\ n.order = order /\ n.projectless = loose
  BY <1>3, <1>10, ContentWith
<1> HIDE DEF n
<1>12. Tidy(n)
  BY <1>1, <1>4, <1>11, GetsAPlace
<1> QED
  BY <1>8, <1>11, <1>12, PlacingEdit

LEMMA PlacingDirectory ==
  ASSUME Placing, (\E s \in Source : ChangeDirectory(s)) \/ WriteBackup
  PROVE  Placing'
<1>1. NoCache \in Known /\ \A k \in Known : Partial(k) \in Known
  <2>1. ASSUME NEW k \in Known
        PROVE  Partial(k) \in Known
    <3> DEFINE n == [k EXCEPT !.content = "partial"]
    <3>1. n \in Known
      BY DEF Known, Age
    <3> HIDE DEF n
    <3> QED
      BY <3>1 DEF Partial, n
  <2> QED
    BY <2>1 DEF NoCache, Known, Age
<1>2. state' = state /\ state' \in State /\ Tidy(state') /\ fails' \in 0..MaxFail
  BY DEF Placing, TypeOK, ChangeDirectory, WriteBackup
<1>3. ASSUME NEW s \in Source, ChangeDirectory(s)
      PROVE  Placing'
  <2> DEFINE calls == CallsAfter(s)
  <2>1. call' = [c \in Caller |-> calls[c]] /\ \A c \in Caller : calls[c] = CallsAfter(s)[c]
    BY <1>3 DEF ChangeDirectory, CallsAfter
  <2>2. half' \in BOOLEAN /\ cache' \in [Source -> Known]
    BY <1>1, <1>3 DEF Placing, TypeOK, ChangeDirectory, CacheAfter
  <2>3. edits' \in 0..MaxEdit
    BY <1>3, DesktopAssumption DEF Placing, TypeOK, ChangeDirectory
  <2> HIDE DEF calls
  <2> QED
    BY <1>2, <2>1, <2>2, <2>3, PlacingFileChanges
<1>4. CASE WriteBackup
  <2> DEFINE calls == [c \in Caller |-> IF call[c].source = "tombstones"
                                        THEN [call[c] EXCEPT !.read = Partial(@)] ELSE call[c]]
  <2>1. "tombstones" \in Source
    BY DEF Source
  <2>2. half' \in BOOLEAN /\ cache' \in [Source -> Known] /\ edits' \in 0..MaxEdit
    BY <1>1, <1>4, <2>1 DEF Placing, TypeOK, WriteBackup
  <2>3. ASSUME NEW c \in Caller
        PROVE  WellFormed(calls[c])
    <3> DEFINE q == call[c]
    <3>1. WellFormed(q) /\ q.read \in Known
      BY DEF Placing, WellFormed, Call
    <3>2. calls[c] = q \/ calls[c] = [q EXCEPT !.read = Partial(q.read)]
      OBVIOUS
    <3> HIDE DEF calls, q
    <3>3. Partial(q.read) \in Known
      BY <1>1, <3>1
    <3> QED
      BY <3>1, <3>2, <3>3, CallWith
  <2>4. call' = [c \in Caller |-> calls[c]]
    BY <1>4 DEF WriteBackup
  <2> HIDE DEF calls
  <2> QED
    BY <1>2, <2>1, <2>2, <2>3, <2>4, PlacingFileChanges
<1> QED
  BY <1>3, <1>4

LEMMA PlacingInit == Init => Placing
<1> SUFFICES ASSUME Init
             PROVE  Placing
  OBVIOUS
<1>1. EmptyState \in State /\ Tidy(EmptyState)
  BY EmptyIsTidy
<1>2. state \in State /\ Tidy(state)
  <2> DEFINE n == [EmptyState EXCEPT !.projects = Existing, !.listed = Existing]
  <2>1. Existing \in SUBSET Project /\ state = n
    BY DesktopAssumption DEF Init
  <2> HIDE DEF EmptyState
  <2>2. /\ n \in State /\ n.assigned = EmptyState.assigned /\ n.order = EmptyState.order
        /\ n.projectless = EmptyState.projectless
    BY <1>1, <2>1, MoreProjects
  <2> HIDE DEF n
  <2> QED
    BY <1>1, <2>1, <2>2 DEF Tidy
<1>3. WellFormed(Resting)
  <2>1. <<>> \in Seq(Thread)
    OBVIOUS
  <2> QED
    BY <2>1, BeginsWellFormed
<1>4. NoCache \in Known
  BY DEF NoCache, Known, Age
<1> HIDE DEF Resting, NoCache
<1>5. call \in [Caller -> Call] /\ \A c \in Caller : WellFormed(call[c])
  BY <1>3 DEF Init, WellFormed
<1>6. 0 \in 0..MaxEdit /\ 0 \in 0..MaxFail
  BY DesktopAssumption
<1>7. TypeOK
  BY <1>2, <1>4, <1>5, <1>6 DEF Init, TypeOK
<1> QED
  BY <1>2, <1>5, <1>7 DEF Placing

LEMMA PlacingNext == Placing /\ [Next]_vars => Placing'
<1> SUFFICES ASSUME Placing, [Next]_vars
             PROVE  Placing'
  OBVIOUS
<1>1. ASSUME NEW c \in Caller, Register(c)
      PROVE  Placing'
  BY <1>1, PlacingRegister, PlacingRename DEF Register
<1>2. ASSUME NEW c \in Caller, Read(c)
      PROVE  Placing'
  <2>1. (\E s \in Source : Stat(c, s) \/ StatFails(c, s)) \/ Load(c) \/ LoadFails(c) \/ Fill(c)
    BY <1>2 DEF Read, GetState, GetDeletedThreadIds, GetLockedThreadIds, Source
  <2> QED
    BY <2>1, PlacingRead
<1>3. CASE Desktop
  BY <1>3, PlacingProjects, PlacingMoveThread, PlacingDirectory DEF Desktop
<1>4. CASE UNCHANGED vars
  BY <1>4 DEF vars, Placing, TypeOK
<1> QED
  BY <1>1, <1>2, <1>3, <1>4 DEF Next

LEMMA PlacingInvariant == Spec => []Placing
BY PlacingInit, PlacingNext, PTL DEF Spec

(* The state file, the caches and the calls have the shapes they are read  *)
(* with, whatever is registered, moved, removed or fails.                  *)
THEOREM StateIsTyped == Spec => []TypeOK
<1>1. Placing => TypeOK
  BY DEF Placing
<1> QED
  BY <1>1, PlacingInvariant, PTL

(* A thread has one place in the sidebar at most: registerThread and moves *)
(* take it out of every other list, and a registration that replaces the   *)
(* file with what it computed from an older content brings back a content  *)
(* that was in order itself.                                               *)
THEOREM ThreadsArePlacedOnce == Spec => []PlacedOnce
<1>1. ASSUME Placing, NEW t \in Thread
      PROVE  LET places == {pl \in Project \X (1..Cardinality(Thread) + 2) :
                              pl[2] \in DOMAIN state.order[pl[1]] /\ state.order[pl[1]][pl[2]] = t}
                 loose == {i \in DOMAIN state.projectless : state.projectless[i] = t}
             IN  /\ Cardinality(places) + Cardinality(loose) <= 1
                 /\ loose # {} => state.assigned[t] = NoProject
                 /\ \A pl \in places : state.assigned[t] = pl[1]
  <2> DEFINE places == {pl \in Project \X (1..Cardinality(Thread) + 2) :
                          pl[2] \in DOMAIN state.order[pl[1]] /\ state.order[pl[1]][pl[2]] = t}
             loose == {i \in DOMAIN state.projectless : state.projectless[i] = t}
  <2>1. Tidy(state) /\ NoProject \notin Project
    BY <1>1, ViewsAssumption DEF Placing
  <2>2. \A pl \in places : /\ pl[1] \in Project /\ t \in Members(state.order[pl[1]])
                           /\ pl = <<pl[1], pl[2]>>
    BY DEF Members
  <2>3. \A pl \in places : state.assigned[t] = pl[1]
    BY <2>1, <2>2 DEF Tidy
  <2>4. \A i \in loose : state.assigned[t] = NoProject
    BY <2>1 DEF Tidy, Members
  <2>5. \A pl, other \in places : pl = other
    <3> SUFFICES ASSUME NEW pl \in places, NEW other \in places
                 PROVE  pl = other
      OBVIOUS
    <3>1. pl[1] = other[1]
      BY <2>3
    <3>2. Once(state.order[pl[1]])
      BY <2>1, <2>2 DEF Tidy
    <3>3. pl[2] = other[2]
      BY <3>1, <3>2 DEF Once
    <3> QED
      BY <2>2, <3>1, <3>3
  <2>6. \A i, j \in loose : i = j
    BY <2>1 DEF Tidy, Once
  <2>7. places = {} \/ loose = {}
    BY <2>1, <2>2, <2>3, <2>4
  <2> HIDE DEF places, loose
  <2>8. ASSUME NEW S, \A x, y \in S : x = y
        PROVE  Cardinality(S) \in {0, 1}
    <3>1. CASE S = {}
      BY <3>1, FS_EmptySet
    <3>2. CASE S # {}
      <4>1. PICK x : x \in S
        BY <3>2
      <4>2. S = {x}
        BY <2>8, <4>1
      <4> QED
        BY <4>2, FS_Singleton
    <3> QED
      BY <3>1, <3>2
  <2>9. Cardinality(places) \in {0, 1} /\ Cardinality(loose) \in {0, 1} /\ Cardinality({}) = 0
    BY <2>5, <2>6, <2>8, FS_EmptySet
  <2>10. Cardinality(places) + Cardinality(loose) <= 1
    BY <2>7, <2>9
  <2> QED
    BY <2>3, <2>4, <2>10 DEF places, loose
<1>2. Placing => PlacedOnce
  BY <1>1 DEF PlacedOnce
<1> QED
  BY <1>2, PlacingInvariant, PTL
=============================================================================
