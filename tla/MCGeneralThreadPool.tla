------------------------ MODULE MCGeneralThreadPool ------------------------
(* Small instances of GeneralThreadPool for TLC.                           *)
EXTENDS GeneralThreadPool

CONSTANTS c1, c2

MCClients == {c1, c2}
=============================================================================
