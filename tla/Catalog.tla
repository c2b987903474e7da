------------------------------- MODULE Catalog -------------------------------
(* api/catalog.go: the list of package names that searches are answered    *)
(* from, its file, and the refreshes that renew both in the background.    *)
(*                                                                         *)
(* A list is [url, state]: the upstream it is of, and whether it is all of *)
(* it ("whole"), its beginning ("part"), a mixture of two ("mixed"), empty *)
(* ("none"), or no file at all ("absent").  Refreshes write one temporary  *)
(* file, and a file that is truncated or renamed stays the file of those   *)
(* who have it open: `open` says where that is now.                        *)
EXTENDS Naturals

CONSTANTS Callers,      \* searches, the ticker, configuration requests
          Refreshes,    \* bound on the refreshes that run at a time
          Roots,        \* upstreams, 1..n
          MaxChanges,   \* bound on changes of the upstream and on ageing
          MaxFaults     \* bound on failures and restarts

VARIABLES
  names,        \* catalogNames with catalogURL
  at,           \* catalogAt: "never", "old" or "fresh"
  refreshing,   \* catalogRefreshing
  refresh,      \* per refresh: [pc, root, open]
  caller,       \* per caller: [pc, list], list what it has read from the file
  tmp, file,    \* contents of pypi-names.txt.tmp and pypi-names.txt
  root,         \* catalogRootURL
  changes, faults,
  overlapped    \* history: two refreshes wrote their files at one time

vars == <<names, at, refreshing, refresh, caller, tmp, file, root,
          changes, faults, overlapped>>
mem == <<names, at, refreshing>>
disk == <<tmp, file>>

Nothing == [url |-> 0, state |-> "none"]
Absent == [url |-> 0, state |-> "absent"]
Off == [pc |-> "off", root |-> 0, open |-> "none"]
Idle == [pc |-> "idle", list |-> Nothing]
Saving == {"write", "rest", "rename"}

Init ==
  /\ names = Nothing /\ at = "never" /\ refreshing = FALSE
  /\ refresh = [r \in Refreshes |-> Off] /\ caller = [c \in Callers |-> Idle]
  /\ tmp = Absent /\ file = Absent
  /\ root = 1 /\ changes = 0 /\ faults = 0 /\ overlapped = FALSE

(* loadCatalogFile, and the upstream it must be of *)
Loadable == file.state \notin {"absent", "none"} /\ file.url = root

-----------------------------------------------------------------------------
(* Those who ask.  ensureCatalogLoaded: without names the file is read and *)
(* set, then a refresh is kicked if one is needed.  The ticker only kicks. *)
Search(c) ==
  /\ caller[c].pc = "idle"
  /\ caller' = [caller EXCEPT ![c].pc = IF names.state = "none" THEN "load" ELSE "need"]
  /\ UNCHANGED <<mem, disk, refresh, root, changes, faults, overlapped>>

Load(c) ==
  /\ caller[c].pc = "load"
  /\ caller' = [caller EXCEPT ![c] = IF Loadable THEN [pc |-> "loaded", list |-> file]
                                     ELSE [pc |-> "need", list |-> Nothing]]
  /\ UNCHANGED <<mem, disk, refresh, root, changes, faults, overlapped>>

(* setCatalog with refreshing = false, whoever is refreshing *)
SetLoaded(c) ==
  /\ caller[c].pc = "loaded"
  /\ names' = caller[c].list /\ at' \in {"old", "fresh"} /\ refreshing' = FALSE
  /\ caller' = [caller EXCEPT ![c] = [pc |-> "need", list |-> Nothing]]
  /\ UNCHANGED <<disk, refresh, root, changes, faults, overlapped>>

Tick(c) ==
  /\ caller[c].pc = "idle" /\ caller' = [caller EXCEPT ![c].pc = "need"]
  /\ UNCHANGED <<mem, disk, refresh, root, changes, faults, overlapped>>

catalogNeedsRefreshByAge ==   \* mutant: the upstream is not looked at
  ~refreshing /\ (names.state = "none" \/ at # "fresh")

catalogNeedsRefresh ==
  ~refreshing /\ (names.state = "none" \/ names.url # root \/ at # "fresh")

NeedsRefresh(c) ==
  /\ caller[c].pc = "need"
  /\ caller' = [caller EXCEPT ![c].pc = IF catalogNeedsRefresh THEN "kick" ELSE "idle"]
  /\ UNCHANGED <<mem, disk, refresh, root, changes, faults, overlapped>>

(* A search without results: triggerCatalogRefreshIfStale *)
TriggerIfStale(c) ==
  /\ caller[c].pc = "idle" /\ ~refreshing /\ at # "fresh"
  /\ caller' = [caller EXCEPT ![c].pc = "kick"]
  /\ UNCHANGED <<mem, disk, refresh, root, changes, faults, overlapped>>

(* putConfig with another upstream: a forced kick *)
PutUpstream(c) ==
  /\ caller[c].pc = "idle" /\ changes < MaxChanges /\ changes' = changes + 1
  /\ root' \in Roots \ {root}
  /\ caller' = [caller EXCEPT ![c].pc = "kick"]
  /\ UNCHANGED <<mem, disk, refresh, faults, overlapped>>

(* kickCatalogRefresh, its locked part *)
Kick(c) ==
  /\ caller[c].pc = "kick"
  /\ caller' = [caller EXCEPT ![c].pc = "idle"]
  /\ \/ refreshing /\ UNCHANGED <<refreshing, refresh>>
     \/ /\ ~refreshing /\ refreshing' = TRUE
        /\ \E r \in Refreshes : refresh[r].pc = "off"
        /\ refresh' = [refresh EXCEPT ![CHOOSE r \in Refreshes : refresh[r].pc = "off"] =
                         [Off EXCEPT !.pc = "fetch", !.root = root]]
  /\ UNCHANGED <<names, at, disk, root, changes, faults, overlapped>>

-----------------------------------------------------------------------------
(* refreshCatalog *)
Go(r, p) == refresh' = [refresh EXCEPT ![r].pc = p]
Whole(r) == [url |-> refresh[r].root, state |-> "whole"]

(* The list is fetched, or not; the first one is published in chunks *)
Fetch(r) ==
  /\ refresh[r].pc = "fetch"
  /\ \/ Go(r, IF names.state = "none" THEN "publish" ELSE "create") /\ UNCHANGED faults
     \/ faults < MaxFaults /\ faults' = faults + 1 /\ Go(r, "clear")
  /\ UNCHANGED <<mem, disk, caller, root, changes, overlapped>>

PublishChunk(r) ==
  /\ refresh[r].pc = "publish"
  /\ \E last \in BOOLEAN :
       /\ names' = IF last THEN Whole(r) ELSE [Whole(r) EXCEPT !.state = "part"]
       /\ Go(r, IF last THEN "create" ELSE "last")
  /\ refreshing' = TRUE
  /\ UNCHANGED <<at, disk, caller, root, changes, faults, overlapped>>

PublishLast(r) ==
  /\ refresh[r].pc = "last"
  /\ names' = Whole(r) /\ refreshing' = TRUE /\ Go(r, "create")
  /\ UNCHANGED <<at, disk, caller, root, changes, faults, overlapped>>

(* saveCatalogFile: os.Create truncates the file that is there; a failure  *)
(* of any step is only noted.                                              *)
(* Mutant: no temporary file *)
CreateInPlace(r) ==
  /\ refresh[r].pc = "create"
  /\ file' = [url |-> refresh[r].root, state |-> "none"]
  /\ refresh' = [refresh EXCEPT ![r].pc = "write", ![r].open = "file"]
  /\ overlapped' = (overlapped \/ \E s \in Refreshes : refresh[s].pc \in Saving)
  /\ UNCHANGED <<mem, caller, tmp, root, changes, faults>>

Create(r) ==
  /\ refresh[r].pc = "create"
  /\ \/ /\ tmp' = [url |-> refresh[r].root, state |-> "none"]
        /\ refresh' = [refresh EXCEPT ![r].pc = "write", ![r].open = "tmp"]
        /\ overlapped' = (overlapped \/ \E s \in Refreshes : refresh[s].pc \in Saving)
        /\ UNCHANGED faults
     \/ /\ faults < MaxFaults /\ faults' = faults + 1 /\ Go(r, "set")
        /\ UNCHANGED <<tmp, overlapped>>
  /\ UNCHANGED <<mem, caller, file, root, changes>>

(* Some buffers, or the last: where somebody else writes, or has written,  *)
(* they may come to lie among his names                                    *)
Alone(r) == \A s \in Refreshes \ {r} : refresh[s].open # refresh[r].open
Written(list, r, state) ==
  IF Alone(r) /\ list.state \in {"none", "part"} /\ list.url = refresh[r].root
  THEN {[list EXCEPT !.state = state]}
  ELSE {[list EXCEPT !.state = "mixed"], [url |-> refresh[r].root, state |-> state]}

Write(r) ==
  /\ refresh[r].pc \in {"write", "rest"}
  /\ \E state \in IF refresh[r].pc = "write" THEN {"part", "whole"} ELSE {"whole"} :
       /\ tmp' \in IF refresh[r].open = "tmp" THEN Written(tmp, r, state) ELSE {tmp}
       /\ file' \in IF refresh[r].open = "file" THEN Written(file, r, state) ELSE {file}
       /\ Go(r, IF state = "part" THEN "rest" ELSE "rename")
  /\ UNCHANGED <<mem, caller, root, changes, faults, overlapped>>

(* os.Rename: what was the file lives on for those who write to it *)
Renamed(open) == CASE open = "tmp" -> "file" [] open = "file" -> "gone" [] OTHER -> open

Rename(r) ==
  /\ refresh[r].pc = "rename"
  /\ IF tmp # Absent
     THEN /\ file' = tmp /\ tmp' = Absent
          /\ refresh' = [s \in Refreshes |->
               IF s = r THEN [refresh[s] EXCEPT !.pc = "set", !.open = "none"]
               ELSE [refresh[s] EXCEPT !.open = Renamed(@)]]
     ELSE refresh' = [refresh EXCEPT ![r].pc = "set", ![r].open = "none"] /\ UNCHANGED disk
  /\ UNCHANGED <<mem, caller, root, changes, faults, overlapped>>

(* setCatalog with refreshing = false, then the deferred function clears   *)
(* the flag again: another refresh may have started in between             *)
SetCatalog(r) ==
  /\ refresh[r].pc = "set"
  /\ names' = Whole(r) /\ at' = "fresh" /\ refreshing' = FALSE /\ Go(r, "clear")
  /\ UNCHANGED <<disk, caller, root, changes, faults, overlapped>>

ClearFlag(r) ==
  /\ refresh[r].pc = "clear"
  /\ refreshing' = FALSE /\ refresh' = [refresh EXCEPT ![r] = Off]
  /\ UNCHANGED <<names, at, disk, caller, root, changes, faults, overlapped>>

-----------------------------------------------------------------------------
(* Six hours pass *)
Age ==
  /\ at = "fresh" /\ changes < MaxChanges /\ changes' = changes + 1 /\ at' = "old"
  /\ UNCHANGED <<names, refreshing, disk, refresh, caller, root, faults, overlapped>>

(* StartCatalog after a stop at any moment: the file, if it is of the      *)
(* upstream of today, and then the ticker                                  *)
Restart ==
  /\ faults < MaxFaults /\ faults' = faults + 1
  /\ names' = IF Loadable THEN file ELSE Nothing
  /\ at' \in IF Loadable THEN {"old", "fresh"} ELSE {"never"}
  /\ refreshing' = FALSE
  /\ refresh' = [r \in Refreshes |-> Off] /\ caller' = [c \in Callers |-> Idle]
  /\ UNCHANGED <<disk, root, changes, overlapped>>

CallerStep(c) == Load(c) \/ SetLoaded(c) \/ NeedsRefresh(c) \/ Kick(c)
RefreshStep(r) ==
  \/ Fetch(r) \/ PublishChunk(r) \/ PublishLast(r) \/ Create(r) \/ Write(r)
  \/ Rename(r) \/ SetCatalog(r) \/ ClearFlag(r)

Next ==
  \/ \E c \in Callers : Search(c) \/ Tick(c) \/ TriggerIfStale(c) \/ PutUpstream(c) \/ CallerStep(c)
  \/ \E r \in Refreshes : RefreshStep(r)
  \/ Age \/ Restart

Spec == Init /\ [][Next]_vars

(* The ticker ticks, what was begun goes on *)
Fairness ==
  /\ \A c \in Callers : WF_vars(CallerStep(c)) /\ WF_vars(Tick(c))
  /\ \A r \in Refreshes : WF_vars(RefreshStep(r))

-----------------------------------------------------------------------------
(* Properties *)

Lists == [url : {0} \cup Roots, state : {"none", "part", "whole", "mixed", "absent"}]

TypeOK ==
  /\ names \in Lists /\ at \in {"never", "old", "fresh"} /\ refreshing \in BOOLEAN
  /\ tmp \in Lists /\ file \in Lists /\ root \in Roots

(* What searches are answered from is all of one upstream's list, or the   *)
(* beginning of the first one while its refresh publishes it; and so is    *)
(* what a restart at any moment finds in the file: unless two refreshes    *)
(* wrote at one time, which the flag does not prevent.                     *)
CatalogIsWhole ==
  ~overlapped =>
    /\ names.state = "part" => \E r \in Refreshes : refresh[r].pc = "last"
    /\ names.state # "mixed"
    /\ file.state \in {"absent", "whole"}

(* A changed upstream reaches the searches even if the change came while a *)
(* refresh of the old one was under way, or another one failed.            *)
CatalogFollows == <>[](names.url = root /\ names.state # "none")
=============================================================================
