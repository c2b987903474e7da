------------------------------ MODULE CacheStore ------------------------------
(***************************************************************************)
(* The cache on disk (internal/cache/cache.go): writers that put files     *)
(* into it, the quota, and clearing it while writers are on their way.     *)
(*                                                                         *)
(* Metadata is in a database, changed under m.mu together with the file of *)
(* the entry; everything a writer does before (its temporary file, moving  *)
(* it next to its destination) happens outside m.mu.  HoldWrite and        *)
(* ReleaseWrite count leases, for which Clear waits after it has barred    *)
(* new ones.  A download holds one from its start and Put another; PutBytes*)
(* writes its temporary file before it has any.                            *)
(*                                                                         *)
(* A file is named by the writer that created it; its names (temporary,    *)
(* staged, object) are kept apart from its content, because PutBytes opens *)
(* the one temporary name of its key and so may write into a file another  *)
(* writer is about to move.  Sizes are small numbers.  Module Inflight     *)
(* shows that one key is downloaded by one writer at a time.  Expiry and   *)
(* the hit counters are left out: they delete nothing.                     *)
(***************************************************************************)
EXTENDS Naturals, FiniteSets

CONSTANTS
  Keys,
  Downloads,   \* writers that download (and then call Put)
  Bytes,       \* writers that call PutBytes
  KeyOf, SizeOf,  \* of each writer: what it writes
  None,
  Admins,      \* concurrent calls of Clear
  Quotas,      \* values of cache.max_size_gb
  MaxDisturbances      \* bound on Clears, quota changes, touches, crashes, failures

Writers == Downloads \cup Bytes

ASSUME CacheConstants ==
  /\ IsFiniteSet(Keys) /\ IsFiniteSet(Writers)
  /\ Downloads \cap Bytes = {} /\ None \notin Writers
  /\ KeyOf \in [Writers -> Keys]
  /\ SizeOf \in [Writers -> Nat \ {0}]
  /\ Quotas \subseteq Nat \ {0}
  /\ MaxDisturbances \in Nat
  \* downloads of one key do not overlap
  /\ \A v, w \in Downloads : KeyOf[v] = KeyOf[w] => v = w

VARIABLES
  size,      \* entry in the database: its size, 0 when there is none
  order,     \* LastAccess: <<j, k>> when entry j was last used before k
  object,    \* the file at the place of each key
  tmp,       \* the file at PutBytes' temporary name of each key
  part,      \* downloads whose temporary file is there
  staged,    \* the file each writer has moved next to its destination
  fd,        \* the file each PutBytes has open
  whole,     \* files whose content is complete
  writer,    \* where each writer is
  leases,    \* m.writeWG
  clearing,  \* m.clearing
  clear,     \* where each Clear is
  quota,     \* m.maxSize
  met,       \* history: two Clears overlapped; keys whose PutBytes overlapped
  used       \* disturbances so far (bound)

fileVars == <<object, tmp, part, staged, fd, whole>>
metaVars == <<size, order>>
clearVars == <<clearing, clear>>
vars == <<metaVars, fileVars, writer, leases, clearVars, quota, met, used>>

Init ==
  /\ size = [k \in Keys |-> 0] /\ order = {}
  /\ object = [k \in Keys |-> None]
  /\ tmp = [k \in Keys |-> None]
  /\ part = {}
  /\ staged = [w \in Writers |-> None]
  /\ fd = [w \in Bytes |-> None]
  /\ whole = {}
  /\ writer = [w \in Writers |-> "new"]
  /\ leases = 0
  /\ clearing = FALSE
  /\ clear = [a \in Admins |-> "idle"]
  /\ quota \in Quotas
  /\ met = [clears |-> FALSE, keys |-> {}]
  /\ used = 0

Goto(w, from, to) ==
  /\ writer[w] = from
  /\ writer' = [writer EXCEPT ![w] = to]
Disturb == used < MaxDisturbances /\ used' = used + 1

Entries(s) == {k \in Keys : s[k] # 0}
\* The sum of the sizes: the number of units of space that are taken
Units(s) == UNION {{k} \X (1..s[k]) : k \in Keys}
Total(s) == Cardinality(Units(s))
Without(s, gone) == [k \in Keys |-> IF k \in gone THEN 0 ELSE s[k]]
Among(o, ks) == o \cap (ks \X ks)
\* k is used now, after all the others
Touched(o, s, k) == Among(o, Keys \ {k}) \cup ((Entries(s) \ {k}) \X {k})

-----------------------------------------------------------------------------
(* Eviction *)

(* Mutant: the protected keys are evicted like the others *)
EvictedUnprotected(s, o, max, protected) ==
  LET older(k) == {j \in Entries(s) : <<j, k>> \in o}
      enough(gone) == Total(Without(s, gone)) <= (max * 3) \div 4
  IN IF Total(s) <= max THEN {} ELSE {k \in Entries(s) : ~enough(older(k))}

(* evictLocked: when the quota is exceeded the least recently used entries *)
(* go, but for the protected ones, until three quarters are left: each one *)
(* goes unless those before it were enough.                                *)
Evicted(s, o, max, protected) ==
  LET candidates == Entries(s) \ protected
      older(k) == {j \in candidates : <<j, k>> \in o}
      enough(gone) == Total(Without(s, gone)) <= (max * 3) \div 4
  IN IF Total(s) <= max THEN {} ELSE {k \in candidates : ~enough(older(k))}

(* deleteLocked of every key in `gone`, given the metadata and the objects *)
Delete(s, o, obj, gone) ==
  /\ size' = Without(s, gone)
  /\ order' = Among(o, Entries(Without(s, gone)))
  /\ object' = [k \in Keys |-> IF k \in gone THEN None ELSE obj[k]]

-----------------------------------------------------------------------------
(* A writer *)

(* Mutant: clearing is not looked at *)
HoldWriteAlways == leases' = leases + 1

HoldWrite == ~clearing /\ leases' = leases + 1

(* A download starts; when the cache is being cleared it fails at once *)
Start(w) ==
  /\ w \in Downloads
  /\ \/ HoldWrite /\ Goto(w, "new", "part") /\ part' = part \cup {w}
     \/ clearing /\ Goto(w, "new", "gone") /\ UNCHANGED <<leases, part>>
  /\ UNCHANGED <<metaVars, object, tmp, staged, fd, whole, clearVars, quota, met, used>>

(* Mutant: a download that fails forgets its lease *)
AbortKeepingLease(w) ==
  /\ Goto(w, "part", "gone")
  /\ part' \in {part, part \ {w}}
  /\ UNCHANGED <<metaVars, object, tmp, staged, fd, whole, leases, clearVars, quota, met,
                 used>>

(* The download fails or is cancelled: its temporary file may be kept *)
Abort(w) ==
  /\ Goto(w, "part", "gone")
  /\ leases' = leases - 1
  /\ part' \in {part, part \ {w}}
  /\ UNCHANGED <<metaVars, object, tmp, staged, fd, whole, clearVars, quota, met, used>>

Writing(k) == {w \in Bytes : KeyOf[w] = k /\ writer[w] \notin {"new", "gone"}}

(* PutBytes opens its temporary file, which empties it, then writes it *)
OpenBytes(w) ==
  /\ w \in Bytes
  /\ Goto(w, "new", "open")
  /\ LET k == KeyOf[w]
         f == IF tmp[k] = None THEN w ELSE tmp[k]
     IN /\ tmp' = [tmp EXCEPT ![k] = f]
        /\ fd' = [fd EXCEPT ![w] = f]
        /\ whole' = whole \ {f}
        /\ met' = [met EXCEPT !.keys = IF Writing(k) = {} THEN @ ELSE @ \cup {k}]
  /\ UNCHANGED <<metaVars, object, part, staged, leases, clearVars, quota, used>>

WriteBytes(w) ==
  /\ w \in Bytes
  /\ Goto(w, "open", "written")
  /\ whole' = whole \cup {fd[w]}
  /\ fd' = [fd EXCEPT ![w] = None]
  /\ UNCHANGED <<metaVars, object, tmp, part, staged, leases, clearVars, quota,
                 met, used>>

(* Mutant: Put is called before the bytes are written *)
ReadyEarly(w) == IF w \in Downloads THEN "part" ELSE "open"

Ready(w) == IF w \in Downloads THEN "part" ELSE "written"

(* Put takes a lease of its own; refused, it removes the file *)
PutHold(w) ==
  /\ \/ /\ HoldWrite /\ Goto(w, Ready(w), "put")
        /\ UNCHANGED <<tmp, part>>
     \/ /\ clearing
        /\ Goto(w, Ready(w), IF w \in Downloads THEN "leaving" ELSE "cleanup")
        /\ UNCHANGED leases
        /\ part' = part \ {w}
        /\ tmp' = IF w \in Bytes THEN [tmp EXCEPT ![KeyOf[w]] = None] ELSE tmp
  /\ UNCHANGED <<metaVars, object, staged, fd, whole, clearVars, quota, met, used>>

(* Outside m.mu the file is moved next to its destination, if it is there *)
Stage(w) ==
  LET k == KeyOf[w]
      file == IF w \in Bytes THEN tmp[k] ELSE IF w \in part THEN w ELSE None
  IN /\ IF file = None
        THEN /\ Goto(w, "put", "returning")
             /\ UNCHANGED <<tmp, part, staged, whole>>
        ELSE /\ Goto(w, "put", "staged")
             /\ staged' = [staged EXCEPT ![w] = file]
             /\ part' = part \ {w}
             /\ tmp' = IF w \in Bytes THEN [tmp EXCEPT ![k] = None] ELSE tmp
             /\ whole' = IF w \in Downloads THEN whole \cup {w} ELSE whole
     /\ UNCHANGED <<metaVars, object, fd, leases, clearVars, quota, met, used>>

(* Mutant: evict first, then write the entry *)
CommitEvictingFirst(w) ==
  /\ Goto(w, "staged", "returning")
  /\ staged' = [staged EXCEPT ![w] = None]
  /\ LET k == KeyOf[w]
         gone == Evicted(size, order, quota, {k})
         s == [Without(size, gone) EXCEPT ![k] = SizeOf[w]]
     IN /\ size' = s
        /\ order' = Touched(Among(order, Entries(s)), s, k)
        /\ object' = [[j \in Keys |-> IF j \in gone THEN None ELSE object[j]]
                        EXCEPT ![k] = staged[w]]
  /\ UNCHANGED <<used, tmp, part, fd, whole, leases, clearVars, quota, met>>

(* The digest is wrong, and the file goes, or the disk refuses the move *)
StageFails(w) ==
  /\ Goto(w, "put", "returning")
  /\ Disturb
  /\ \/ UNCHANGED <<tmp, part>>
     \/ /\ part' = part \ {w}
        /\ tmp' = IF w \in Bytes THEN [tmp EXCEPT ![KeyOf[w]] = None] ELSE tmp
  /\ UNCHANGED <<metaVars, object, staged, fd, whole, leases, clearVars, quota, met>>

(* Under m.mu: the file takes its place, the entry is written and the      *)
(* others are evicted.  If the file cannot be renamed the old one is lost, *)
(* if the entry cannot be written the old entry describes the new file.    *)
Commit(w) ==
  LET k == KeyOf[w]
      s == [size EXCEPT ![k] = SizeOf[w]]
      o == Touched(order, s, k)
  IN /\ Goto(w, "staged", "returning")
     /\ staged' = [staged EXCEPT ![w] = None]
     /\ \/ clearing /\ UNCHANGED <<metaVars, object, used>>
        \/ /\ ~clearing
           /\ Delete(s, o, [object EXCEPT ![k] = staged[w]], Evicted(s, o, quota, {k}))
           /\ UNCHANGED used
        \/ /\ ~clearing /\ Disturb
           /\ \E f \in {None, staged[w]} : object' = [object EXCEPT ![k] = f]
           /\ UNCHANGED metaVars
     /\ UNCHANGED <<tmp, part, fd, whole, leases, clearVars, quota, met>>

\* The leases of a writer: Put's own, and that of the download around it
Held(w) ==
  CASE writer[w] \in {"put", "staged", "returning"} -> IF w \in Downloads THEN 2 ELSE 1
    [] writer[w] \in {"part", "leaving"} -> 1
    [] OTHER -> 0

(* Put's deferred ReleaseWrite, and the download's *)
Return(w) ==
  /\ \/ Goto(w, "returning", IF w \in Downloads THEN "leaving" ELSE "cleanup")
     \/ Goto(w, "leaving", "gone")
  /\ leases' = leases - 1
  /\ UNCHANGED <<metaVars, fileVars, clearVars, quota, met, used>>

(* PutBytes removes its temporary name, whosever file it is by now *)
CleanUp(w) ==
  /\ Goto(w, "cleanup", "gone")
  /\ tmp' = [tmp EXCEPT ![KeyOf[w]] = None]
  /\ UNCHANGED <<metaVars, object, part, staged, fd, whole, leases, clearVars, quota,
                 met, used>>

-----------------------------------------------------------------------------
(* Clear: five steps, each in a critical section of its own *)

ClearStep(a, from, to) ==
  /\ clear[a] = from
  /\ clear' = [clear EXCEPT ![a] = to]

BeginClear(a) ==
  /\ ClearStep(a, "idle", "wait")
  /\ Disturb
  /\ clearing' = TRUE
  /\ met' = [met EXCEPT !.clears = @ \/ clearing]
  /\ UNCHANGED <<metaVars, fileVars, writer, leases, quota>>

AwaitWriters(a) ==
  /\ leases = 0
  /\ ClearStep(a, "wait", "delete")
  /\ UNCHANGED <<metaVars, fileVars, writer, leases, clearing, quota, met, used>>

DeleteAll(a) ==
  /\ ClearStep(a, "delete", "purge")
  /\ Delete(size, order, object, Entries(size))
  /\ UNCHANGED <<tmp, part, staged, fd, whole, writer, leases, clearing, quota, met,
                 used>>

PurgeTempFiles(a) ==
  /\ ClearStep(a, "purge", "reset")
  /\ tmp' = [k \in Keys |-> None] /\ part' = {}
  /\ UNCHANGED <<metaVars, object, staged, fd, whole, writer, leases, clearing, quota,
                 met, used>>

EndClear(a) ==
  /\ ClearStep(a, "reset", "idle")
  /\ clearing' = FALSE
  /\ UNCHANGED <<metaVars, fileVars, writer, leases, quota, met, used>>

-----------------------------------------------------------------------------
(* Everything else *)

SetMaxSizeGB(q) ==
  /\ Disturb
  /\ quota' = q
  /\ Delete(size, order, object, Evicted(size, order, q, {}))
  /\ UNCHANGED <<tmp, part, staged, fd, whole, writer, leases, clearVars, met>>

(* Get and Open: an entry without a file goes, and so does a package whose *)
(* file has another size; a hit is touched, if 30 s have passed.           *)
Get(k) ==
  /\ size[k] # 0
  /\ Disturb
  /\ IF object[k] = None
        \/ (object[k] \in Downloads /\ size[k] # SizeOf[object[k]])
     THEN Delete(size, order, object, {k})
     ELSE /\ order' \in {order, Touched(order, size, k)}
          /\ UNCHANGED <<size, object>>
  /\ UNCHANGED <<tmp, part, staged, fd, whole, writer, leases, clearVars, quota, met>>

(* The process stops, perhaps inside Commit, and starts: the database and  *)
(* the objects remain, main purges the temporary files.                    *)
Crash ==
  /\ Disturb
  /\ \/ UNCHANGED object
     \/ \E w \in Writers :
          /\ writer[w] = "staged" /\ ~clearing
          /\ \E f \in {None, staged[w]} : object' = [object EXCEPT ![KeyOf[w]] = f]
  /\ writer' = [w \in Writers |-> IF writer[w] = "new" THEN "new" ELSE "gone"]
  /\ tmp' = [k \in Keys |-> None] /\ part' = {}
  /\ staged' = [w \in Writers |-> None]
  /\ fd' = [w \in Bytes |-> None]
  /\ leases' = 0 /\ clearing' = FALSE
  /\ clear' = [a \in Admins |-> "idle"]
  /\ UNCHANGED <<metaVars, whole, quota, met>>

WriterStep(w) ==
  \/ Start(w) \/ Abort(w) \/ OpenBytes(w) \/ WriteBytes(w) \/ PutHold(w)
  \/ Stage(w) \/ StageFails(w) \/ Commit(w) \/ Return(w) \/ CleanUp(w)

ClearerStep(a) ==
  AwaitWriters(a) \/ DeleteAll(a) \/ PurgeTempFiles(a) \/ EndClear(a)

Next ==
  \/ \E w \in Writers : WriterStep(w)
  \/ \E a \in Admins : BeginClear(a) \/ ClearerStep(a)
  \/ \E q \in Quotas : SetMaxSizeGB(q)
  \/ \E k \in Keys : Get(k)
  \/ Crash

Spec == Init /\ [][Next]_vars

(* Writers that have begun go on (downloads have time limits), and so does *)
(* Clear.                                                                  *)
FairSpec ==
  /\ Spec
  /\ \A w \in Writers : WF_vars(writer[w] # "new" /\ WriterStep(w))
  /\ \A a \in Admins : WF_vars(ClearerStep(a))

-----------------------------------------------------------------------------
(* Properties *)

Files == Writers \cup {None}

TypeOK ==
  /\ size \in [Keys -> Nat] /\ order \subseteq Keys \X Keys
  /\ object \in [Keys -> Files] /\ tmp \in [Keys -> Files]
  /\ part \subseteq Downloads /\ staged \in [Writers -> Files]
  /\ fd \in [Bytes -> Files] /\ whole \subseteq Writers
  /\ writer \in [Writers -> {"new", "part", "open", "written", "put", "staged",
                             "returning", "leaving", "cleanup", "gone"}]
  /\ leases \in Nat /\ clearing \in BOOLEAN
  /\ clear \in [Admins -> {"idle", "wait", "delete", "purge", "reset"}]
  /\ quota \in Quotas
  /\ met \in [clears : BOOLEAN, keys : SUBSET Keys]

(* The write leases are those the writers hold, so that Clear neither      *)
(* waits for a writer that is gone nor overtakes one on its way.           *)
Holding(n) == {w \in Writers : Held(w) >= n}
LeasesMatch == TypeOK /\ leases = Cardinality(Holding(1)) + Cardinality(Holding(2))

(* The entries fit into the quota; a single entry may exceed it alone.     *)
WithinQuota == Total(size) <= quota \/ Cardinality(Entries(size)) = 1

(* What was just written is not evicted by its own Put: a commit leaves    *)
(* the key with a file.                                                    *)
FreshSurvives ==
  [][\A w \in Writers :
       writer[w] = "staged" /\ writer'[w] = "returning" /\ ~clearing
         /\ used' = used
       => size'[KeyOf[w]] = SizeOf[w] /\ object'[KeyOf[w]] = staged[w]]_vars

(* A Clear that ends leaves nothing behind that was written before or      *)
(* while it ran (if no other Clear overlapped).                            *)
ClearedIsEmpty ==
  ~met.clears =>
    \A a \in Admins : clear[a] \in {"purge", "reset"} =>
      /\ Entries(size) = {}
      /\ \A w \in Writers : Held(w) = 0

(* What a reader of a cached key finds is a complete file, unless two      *)
(* PutBytes of that key overlapped.                                        *)
CachedIsWhole ==
  \A k \in Keys \ met.keys :
    size[k] # 0 /\ object[k] # None => object[k] \in whole
=============================================================================
