--------------------------------- MODULE MCLink ---------------------------------
(***************************************************************************)
(* Link with both callers, two retries, and queues short enough to fill.   *)
(***************************************************************************)
EXTENDS Link
=============================================================================
