---------------------------- MODULE MCEventSync -----------------------------
(* EventSync with an event in the middle of the log that the client may    *)
(* not see.                                                                *)
EXTENDS EventSync

SecondHidden == {2}
=============================================================================
