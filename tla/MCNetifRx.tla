------------------------------ MODULE MCNetifRx ------------------------------
(* NetifRx with lengths at and on both sides of the buffer and the slot.    *)
EXTENDS NetifRx, TLC

\* Frames that fit the caller, the last just; that fit the slot only, the last
\* just; that fit neither.
MCLengths == 1..5
=============================================================================
