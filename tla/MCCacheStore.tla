----------------------------- MODULE MCCacheStore -----------------------------
(* A package of size 3 and two index files of size 2 written to one key:     *)
(* together they exceed either quota.                                        *)
EXTENDS CacheStore

CONSTANTS d1, b1, b2, k1, k2

MCKeyOf == [w \in Writers |-> IF w = d1 THEN k1 ELSE k2]
MCSizeOf == [w \in Writers |-> IF w = d1 THEN 3 ELSE 2]
=============================================================================
