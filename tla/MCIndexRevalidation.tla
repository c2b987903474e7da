------------------------- MODULE MCIndexRevalidation -------------------------
(* A client, a HEAD request, and either another client or a prefetch, of an  *)
(* index that is published twice.                                            *)
EXTENDS IndexRevalidation

CONSTANTS g1, h1, o1

MCSetup(other, etags) ==
  [kind |-> [r \in Requests |->
               IF r = g1 THEN "GET" ELSE IF r = h1 THEN "HEAD" ELSE other],
   etags |-> etags]

MCSetups == {MCSetup("GET", TRUE), MCSetup("prefetch", TRUE), MCSetup("GET", FALSE)}
=============================================================================
