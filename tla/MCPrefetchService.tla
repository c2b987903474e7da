-------------------------- MODULE MCPrefetchService --------------------------
(* Three items, two of one URL, on a host with one slot at first and at most *)
(* two; two attempts each.                                                   *)
EXTENDS Naturals, FiniteSets

CONSTANTS Items, Urls, UrlOf, Nobody, Loop, MaxAttempts, FileInitial, FileCeiling,
          MaxTroubles, i1, i2, i3, u1, u2

VARIABLES item, drainer, run, registered, cancelled, slots, fileEffective, purge, spent

P == INSTANCE PrefetchService WITH None <- Nobody, MaxDisturbances <- MaxTroubles,
                                   used <- spent

ASSUME PrefetchConstants == P!PrefetchConstants

MCUrlOf == [i \in Items |-> IF i = i3 THEN u2 ELSE u1]

PrefetchSpec == P!Spec

(* The slots taken are those of the runs that have one; one URL is put off *)
(* once and, unless somebody cancels, downloaded by one run at a time.     *)
PrefetchAccounting == P!PrefetchAccounting

(* Every submitted item ends, is merged, is purged, or is stuck behind a   *)
(* silent upstream.                                                        *)
EveryItemEnds == P!EveryItemEnds
=============================================================================
