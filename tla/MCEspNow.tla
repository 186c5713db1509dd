------------------------------- MODULE MCEspNow -------------------------------
(* Two goroutines, one named peer address besides the broadcast address.    *)
EXTENDS EspNow

CONSTANTS g1, g2, mac
MCCallers == {g1, g2}
MCNamed == {mac}
=============================================================================
