------------------------------ MODULE MCTransfers ------------------------------
(* Who downloads a file, and what a client that waits for it gets: the        *)
(* sharing of transfers (MCInflight) and one streaming download               *)
(* (MCStreamDownload), checked in one run.  The initial state chooses the     *)
(* one that runs; the other stays where it begins.                            *)
EXTENDS MCInflight, MCStreamDownload

VARIABLE part

stream == <<request, published, phase, tries, body, identity, header, sent, hash, client,
            copy, stop, digest, stored>>
all == <<part, vars, stream>>

PlainRequest == [digest |-> "none", docker |-> FALSE, etags |-> FALSE, sized |-> FALSE]

TransfersInit ==
  /\ part \in {"sharing", "stream"}
  /\ Init /\ S!Init
  /\ part # "stream" => request = PlainRequest

Sharing(A) == part = "sharing" /\ A /\ UNCHANGED <<part, stream>>
Streaming(A) == part = "stream" /\ A /\ UNCHANGED <<part, vars>>

TransfersNext == Sharing(Next) \/ Streaming(S!Next)

(* The fairness of the two modules: `part` never changes.                     *)
TransfersSpec ==
  /\ TransfersInit /\ [][TransfersNext]_all
  /\ \A r \in Requests : WF_all(Sharing(Step(r)))
  /\ WF_all(Streaming(S!Step))

(* A streaming download ends.                                                 *)
EveryStreamEnds == part = "stream" => StreamEnds
=============================================================================
