----------------------------- MODULE SingleFlight -----------------------------
(***************************************************************************)
(* What the download engine promises to those who ask for one file at the  *)
(* same time (the comments of GetOrDownload and ServePackage in            *)
(* internal/downloader): one transfer from the upstream at a time, and an  *)
(* answer for everybody, refused only for a reason.  Module Inflight is    *)
(* shown to implement it.                                                  *)
(***************************************************************************)
EXTENDS Naturals, FiniteSets

CONSTANTS
  Fetchers,   \* background requests (GetOrDownload)
  Streamers,  \* interactive requests (ServePackage)
  MaxTries    \* turns an interactive request takes before it gives up

VARIABLES
  phase,   \* of each request
  stored,  \* the file has been put into the cache
  broken   \* a transfer failed, a caller went away, or the file was evicted

vars == <<phase, stored, broken>>

Requests == Fetchers \cup Streamers
Leading == {r \in Requests : phase[r] = "leading"}
Came(group) == {r \in group : phase[r] # "new"}

Move(r, from, to) ==
  /\ phase[r] \in from
  /\ phase' = [phase EXCEPT ![r] = to]

Init ==
  /\ phase = [r \in Requests |-> "new"]
  /\ stored = FALSE
  /\ broken = FALSE

Arrive(r) == Move(r, {"new"}, "open") /\ UNCHANGED <<stored, broken>>

Lead(r) ==
  /\ Leading = {}
  /\ Move(r, {"open"}, "leading")
  /\ UNCHANGED <<stored, broken>>

(* The transfer ends; the background one may have been taken over *)
Transfer(r) ==
  /\ Move(r, {"leading"}, "led")
  /\ stored' \in {stored, TRUE}
  /\ broken' \in {broken, TRUE}

Answer(r) ==
  /\ stored
  /\ Move(r, {"open", "led"}, "answered")
  /\ UNCHANGED <<stored, broken>>

(* A background request gives way to an interactive one, and so do those   *)
(* that follow it, who get its error; an interactive one may be outrun by  *)
(* as many background requests as it takes turns.                          *)
Refuse(r) ==
  /\ \/ broken
     \/ r \in Fetchers /\ Came(Streamers) # {}
     \/ Cardinality(Came(Fetchers)) >= MaxTries
  /\ Move(r, {"open", "led"}, "refused")
  /\ UNCHANGED <<stored, broken>>

Break == broken' = TRUE /\ UNCHANGED <<phase, stored>>

Next ==
  \/ \E r \in Requests :
       Arrive(r) \/ Lead(r) \/ Transfer(r) \/ Answer(r) \/ Refuse(r)
  \/ Break

Spec == Init /\ [][Next]_vars
=============================================================================
