-------------------------- MODULE MCPlatformLimiter --------------------------
(* Small instances of PlatformLimiter.  Pools of 1 to 3 connections and      *)
(* tasks are where the reserve formulas change: half of the pool, never      *)
(* less than one.                                                            *)
EXTENDS PlatformLimiter

CONSTANTS i1, p1, p2, d1, d2, d3
=============================================================================
