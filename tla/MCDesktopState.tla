--------------------------- MODULE MCDesktopState ---------------------------
(* DesktopState with a list that repairs two threads and a creation.        *)
EXTENDS DesktopState

Roots == [p \in Project |-> IF p = 1 THEN {<<"a">>} ELSE {<<"a", "b">>}]
Nowhere == <<>>
Paths == {<<"a">>, <<"a", "b">>}
Repairs == [c \in {"list", "create"} |-> IF c = "list" THEN <<1, 2>> ELSE <<2>>]
Sources == [c \in {"list", "create"} |-> IF c = "list" THEN Source ELSE {"state"}]
Cwds == [t \in {1, 2} |-> IF t = 1 THEN <<"a", "b">> ELSE <<"a">>]
=============================================================================
