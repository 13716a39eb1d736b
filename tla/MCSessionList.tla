--------------------------- MODULE MCSessionList ---------------------------
EXTENDS SessionList

OneId == [f \in Rollout |-> 1]
Nowhere == <<>>
Paths == {<<"a">>, <<"b">>}
Roots1 == [p \in Project |-> {<<"a">>}]
NoneOrAll == {[t \in Thread |-> row] : row \in {NoRow, "live"}}
InB == [t \in Thread |-> <<"b">>]
FirstMoves == [t \in Thread |-> IF t = 1 THEN Paths ELSE {}]
In(p, hint) ==
  [EmptyState EXCEPT !.projects = {1}, !.listed = {1}, !.assigned[1] = p, !.hint[1] = hint,
     !.order = [q \in Project |-> IF q = p THEN <<1>> ELSE <<>>],
     !.projectless = IF p = NoProject THEN <<1>> ELSE <<>>]
SomeStates == {In(1, <<"a">>), In(NoProject, <<"b">>)}
=============================================================================
