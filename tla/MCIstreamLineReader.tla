------------------------ MODULE MCIstreamLineReader ------------------------
(* A small instance of IstreamLineReader for TLC.                          *)
EXTENDS IstreamLineReader

CONSTANTS i1, i2, i3

MCIterators == {i1, i2, i3}
=============================================================================
