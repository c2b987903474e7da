------------------------------ MODULE MCInflight ------------------------------
(* Two background and two interactive requests, with two turns: as many      *)
(* background requests as turns is where an interactive one can be outrun.   *)
EXTENDS Inflight
=============================================================================
