------------------------------ MODULE MCStatus ------------------------------
(* A small instance of Status for TLC.                                     *)
EXTENDS Status

CONSTANTS s1, s2, s3

MCObjects == {s1, s2, s3}
=============================================================================
