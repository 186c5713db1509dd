------------------------------- MODULE MCVhci -------------------------------
(* A small instance of Vhci: a ring that holds two bytes, two writers.      *)
EXTENDS Vhci
=============================================================================
