------------------------------- MODULE MCNetifTx -------------------------------
(***************************************************************************)
(* Three senders, the retry bounds of the code, three events in flight.    *)
(***************************************************************************)
EXTENDS NetifTx

CONSTANTS s1, s2, s3
MCSenders == {s1, s2, s3}
=============================================================================
