---------------------------- MODULE MCSchedPass ----------------------------
(* A small instance of SchedPass: one goroutine besides the ticker pumps.  *)
EXTENDS SchedPass, TLC

CONSTANT pump
MCPumpers == {pump}
=============================================================================
