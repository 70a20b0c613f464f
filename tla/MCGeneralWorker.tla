--------------------------- MODULE MCGeneralWorker ---------------------------
(* Small instances of GeneralWorker for TLC.                               *)
EXTENDS GeneralWorker

CONSTANTS c1, c2

MCClients == {c1, c2}
=============================================================================
