------------------------------ MODULE MCTimers ------------------------------
(* A small instance of Timers: three ets timers for a table of two slots,  *)
(* or two esp_timers, or one of each.  A pass can fire exactly as many     *)
(* timers of a kind as the table has slots, as in the code (32 = 4 * 8).   *)
EXTENDS Timers, TLC

CONSTANTS e1, e2, e3, h1, h2

MCEtsTimers == {e1, e2, e3}
MCEspTimers == {h1, h2}
MCClients == {{e1, e2, e3}, {h1, h2}, {e1, h1}}
MCSelfArmed == {e3}
=============================================================================
