--------------------------- MODULE MCStreamDownload ---------------------------
(* Files of three blocks, three versions, and up to four requests for the    *)
(* parts of a file: one resumption after each block.                         *)
EXTENDS Naturals, Sequences

CONSTANTS Length, Publications, MaxResume

VARIABLES request, published, phase, tries, body, identity, header, sent, hash, client,
          copy, stop, digest, stored

S == INSTANCE StreamDownload WITH Versions <- Publications, opt <- request,
       upstream <- published, pc <- phase, attempt <- tries, written <- sent, file <- copy,
       cached <- stored

ASSUME StreamConstants == S!StreamConstants

StreamSpec == S!Spec

(* The state of an interactive download keeps its types.                     *)
StreamTypeOK == S!TypeOK

(* A client never gets blocks out of place, and none of two versions if the  *)
(* upstream tells them apart by ETags.                                       *)
ClientGetsOneFile == S!ClientGetsOneFile

(* What is cached under a known digest has this digest; without it, it is    *)
(* cached only where Docker's rule does not hold and the file is read again. *)
CachedIsGenuine == S!CachedIsGenuine

(* What is cached is what the first client got, all of it if the upstream    *)
(* tells the length.                                                         *)
CachedIsWhatWasSent == S!CachedIsWhatWasSent

(* The request ends.                                                         *)
StreamEnds == S!StreamEnds
=============================================================================
