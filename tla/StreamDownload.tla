---------------------------- MODULE StreamDownload ----------------------------
(***************************************************************************)
(* The interactive download: streamToClientAndCache and                    *)
(* copyStreamToClientAndFile (internal/downloader/stream.go).  One         *)
(* connection is read and every block goes to a running hash, to the       *)
(* client and to a temporary file, in this order.  A broken or stalled     *)
(* connection is replaced by a request for the rest, up to MaxResume       *)
(* requests; then the file is verified and put into the cache.             *)
(*                                                                         *)
(* A block is a pair of the version that the upstream published and its    *)
(* place in the file.  All versions have the same length, for a changed    *)
(* length is easy to notice.  Slots and the write lease are held from      *)
(* Start to the end (modules PlatformLimiter and CacheStore); that one     *)
(* request at a time downloads a file is shown in module Inflight.         *)
(***************************************************************************)
EXTENDS Naturals, Sequences

CONSTANTS
  Length,        \* blocks of the file
  Versions,      \* 1..n, what the upstream publishes one after the other
  MaxResume      \* streamMaxResume, 12 in the code

StreamConstants ==
  {Length, Versions, MaxResume} \subseteq Nat \ {0}

(* What varies from one request to another: the kind of digest that is     *)
(* known (of the first version; a hexadecimal one that becomes known after *)
(* the start is compared like an integrity), Docker's stricter rule, and   *)
(* whether the upstream sends ETags and lengths.                           *)
Requests ==
  [digest : {"none", "hex", "integrity"}, docker : BOOLEAN,
   etags : BOOLEAN, sized : BOOLEAN]

VARIABLES
  opt,       \* the request
  upstream,  \* the version published now
  pc,
  attempt,
  body,      \* the response being read: its version and the next block
  identity,  \* opt.IdentityETag: a version, 0 when empty
  header,    \* headerWritten
  written,
  hash, client, file,  \* the blocks each has got
  stop,      \* ctx is done: the client left, an administrator cancelled it,
             \* or the time limit is over
  digest,    \* Put is to record the digest
  cached     \* what Put has put into the cache

vars == <<opt, upstream, pc, attempt, body, identity, header, written, hash, client,
          file, stop, digest, cached>>
copies == <<written, hash, client, file>>

Whole(v) == [i \in 1..Length |-> <<v, i>>]
Wrong == << <<0, 0>> >>  \* no file; a hash that nothing can mend
Expected == Whole(1)

Init ==
  /\ opt \in Requests
  /\ upstream = 1
  /\ pc = "start"
  /\ attempt = 0
  /\ body = [version |-> 1, next |-> 1]
  /\ identity = 0
  /\ header = FALSE
  /\ written = 0 /\ hash = <<>> /\ client = <<>> /\ file = <<>>
  /\ stop = FALSE
  /\ digest = (opt.digest # "none")
  /\ cached = <<>>

Goto(from, to) == pc = from /\ pc' = to

(* HoldWrite, AcquireTask and AcquireConn may refuse *)
Start ==
  /\ Goto("start", "connect") \/ Goto("start", "failed")
  /\ UNCHANGED <<opt, upstream, attempt, body, identity, header, copies, stop, digest, cached>>

(* Mutant: the last request is not counted *)
RetryForEver(from) ==
  /\ Goto(from, "connect")
  /\ attempt' = IF attempt + 1 < MaxResume THEN attempt + 1 ELSE attempt

Retry(from) ==
  /\ Goto(from, "connect")
  /\ attempt' = attempt + 1

(* No request is left, ctx is done, the request fails, or its answer is of  *)
(* no use (an error page, another ETag or length); or, once something has   *)
(* been written, the request or the skipping breaks off and is repeated.    *)
Refused ==
  /\ \/ Goto("connect", "failed") /\ UNCHANGED attempt
     \/ ~stop /\ attempt < MaxResume /\ written > 0 /\ Retry("connect")
  /\ UNCHANGED <<opt, upstream, body, identity, header, copies, stop, digest, cached>>

(* Mutant: the ETag of the answer to a resumption is not looked at *)
SameContentUnchecked == TRUE

SameContent == identity = 0 \/ ~opt.etags \/ identity = upstream

(* Mutant: a whole answer to a resumption is appended from its beginning *)
FirstBlockUnskipped(ranged) == IF ranged THEN written + 1 ELSE 1

(* A resumption is answered by the rest, or by the whole file, of which    *)
(* what has been written is skipped.                                       *)
FirstBlock(ranged) == written + 1

(* The first answer decides on the identity and the header *)
Connected ==
  /\ ~stop /\ attempt < MaxResume
  /\ header => SameContent
  /\ \E ranged \in IF written > 0 THEN BOOLEAN ELSE {FALSE} :
       body' = [version |-> upstream, next |-> FirstBlock(ranged)]
  /\ Goto("connect", "copy")
  /\ identity' = IF ~header /\ opt.etags THEN upstream ELSE identity
  /\ header' = TRUE
  /\ UNCHANGED <<opt, upstream, attempt, copies, stop, digest, cached>>

Block == <<body.version, body.next>>
Hash(b) == hash' = IF hash = Wrong THEN Wrong ELSE Append(hash, b)

(* The client's connection breaks: the hash has the block, the file has    *)
(* not; the kind of error decides whether the upstream is asked again.     *)
ClientWriteFails ==
  /\ pc = "copy" /\ body.next <= Length
  /\ hash' = Wrong
  /\ \/ Retry("copy")
     \/ Goto("copy", "failed") /\ UNCHANGED attempt
  /\ UNCHANGED <<opt, upstream, body, identity, header, written, client, file, stop,
                 digest, cached>>

FileWriteFails ==
  /\ pc = "copy" /\ body.next <= Length
  /\ Hash(Block) /\ client' = Append(client, Block)
  /\ Goto("copy", "failed")
  /\ UNCHANGED <<opt, upstream, attempt, body, identity, header, written, file, stop,
                 digest, cached>>

CopyBlock ==
  /\ pc = "copy" /\ body.next <= Length
  /\ Hash(Block)
  /\ client' = Append(client, Block)
  /\ file' = Append(file, Block)
  /\ written' = written + 1
  /\ body' = [body EXCEPT !.next = @ + 1]
  /\ UNCHANGED <<opt, upstream, pc, attempt, identity, header, stop, digest, cached>>

(* Broken off, or stalled and closed by the watchdog *)
CopyBreaks ==
  /\ \/ stop /\ Goto("copy", "failed") /\ UNCHANGED attempt
     \/ ~stop /\ Retry("copy")
     \/ ~stop /\ Goto("copy", "failed") /\ UNCHANGED attempt
  /\ UNCHANGED <<opt, upstream, body, identity, header, copies, stop, digest, cached>>

(* The end, or so it seems: an answer without a length that breaks off  *)
(* looks like a whole one, even if an earlier answer told the length.      *)
CopyEnds ==
  /\ Goto("copy", "finish")
  /\ UNCHANGED <<opt, upstream, attempt, body, identity, header, copies, stop, digest, cached>>

(* Mutant: the digest that was computed on the way is not compared *)
GenuineUnchecked == opt.digest = "integrity" => file = Expected

(* The running hash for a hexadecimal digest, the file for an integrity    *)
Genuine ==
  CASE opt.digest = "hex" -> hash = Expected
    [] opt.digest = "integrity" -> file = Expected
    [] OTHER -> TRUE

(* Mutant: the length is not compared *)
FullUnchecked == TRUE

Full == opt.sized => written = Length

(* Without Docker, a file that turns out wrong after the client has got it *)
(* is removed, and one that cannot be read again is kept without its       *)
(* digest.  A running hash is not read again.                              *)
Finish ==
  /\ pc = "finish"
  /\ \/ /\ Full /\ Genuine
        /\ pc' = "put" /\ UNCHANGED <<file, digest>>
     \/ /\ Full /\ opt.digest = "integrity" /\ ~opt.docker
        /\ pc' = "put" /\ digest' = FALSE
        /\ file' \in {file} \cup (IF Genuine THEN {} ELSE {Wrong})
     \/ pc' = "failed" /\ UNCHANGED <<file, digest>>
  /\ UNCHANGED <<opt, upstream, attempt, body, identity, header, written, hash, client,
                 stop, cached>>

(* Put fails without a file, and while the cache is being cleared *)
Put ==
  /\ \/ file # Wrong /\ Goto("put", "done") /\ cached' = file
     \/ file = Wrong /\ Goto("put", "failed") /\ UNCHANGED cached
     \/ Goto("put", "failed") /\ UNCHANGED cached
  /\ UNCHANGED <<opt, upstream, attempt, body, identity, header, copies, stop, digest>>

Stop ==
  /\ ~stop /\ pc \notin {"done", "failed"}
  /\ stop' = TRUE
  /\ UNCHANGED <<opt, upstream, pc, attempt, body, identity, header, copies, digest,
                 cached>>

Publish ==
  /\ upstream < Versions
  /\ upstream' = upstream + 1
  /\ UNCHANGED <<opt, pc, attempt, body, identity, header, copies, stop, digest, cached>>

Step ==
  \/ Start \/ Refused \/ Connected
  \/ CopyBlock \/ ClientWriteFails \/ FileWriteFails \/ CopyBreaks \/ CopyEnds
  \/ Finish \/ Put

Next == Step \/ Stop \/ Publish

Spec == Init /\ [][Next]_vars

(* The goroutine goes on: a silent upstream is cut off by the watchdog and *)
(* the time limits of the transport.                                       *)
FairSpec == Spec /\ WF_vars(Step)

-----------------------------------------------------------------------------
(* Properties *)

Blocks == (0..Versions) \X (0..Length)

TypeOK ==
  /\ opt \in Requests
  /\ upstream \in 1..Versions
  /\ pc \in {"start", "connect", "copy", "finish", "put", "done", "failed"}
  /\ attempt \in 0..MaxResume
  /\ body \in [version : 1..Versions, next : 1..(Length + 1)]
  /\ identity \in 0..Versions
  /\ {header, stop, digest} \subseteq BOOLEAN
  /\ written \in 0..Length
  /\ {hash, client, file, cached} \subseteq Seq(Blocks)

(* The rest that is asked for begins where both the client and the file    *)
(* are, whatever broke the last connection off.                            *)
ResumesWhereItStopped ==
  pc \in {"connect", "copy", "finish"} => Len(client) = written /\ Len(file) = written

(* A client never gets blocks out of place, and none of two versions if    *)
(* the upstream tells them apart by ETags.                                 *)
ClientGetsOneFile ==
  /\ \A i \in DOMAIN client : client[i][2] = i
  /\ opt.etags => \A i, j \in DOMAIN client : client[i][1] = client[j][1]

(* What is cached under a known digest has this digest, even when blocks   *)
(* were hashed twice and versions changed under way.  It is cached without *)
(* the digest only where the code says so: not for Docker, and not when    *)
(* the digest was computed on the way.                                     *)
CachedIsGenuine ==
  cached # <<>> =>
    /\ digest => cached = Expected
    /\ opt.digest = "hex" \/ (opt.digest = "integrity" /\ opt.docker) => digest

(* What is cached is what the first client got, all of it if the upstream  *)
(* tells the length.                                                       *)
CachedIsWhatWasSent ==
  cached # <<>> => cached = client /\ (opt.sized => Len(cached) = Length)

(* The request ends *)
StreamEnds == pc = "start" ~> pc \in {"done", "failed"}
=============================================================================
