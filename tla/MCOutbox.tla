------------------------------ MODULE MCOutbox ------------------------------
(* Outbox with one conversation.                                           *)
EXTENDS Outbox

OneSession == [r \in Row |-> 1]
=============================================================================
