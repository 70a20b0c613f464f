--------------------------- MODULE MCTaskDispatch ---------------------------
(* Small instances of TaskDispatch for TLC.                                *)
EXTENDS TaskDispatch

CONSTANTS c1, c2, c3

MCClients == {c1, c2, c3}
=============================================================================
