--------------------------- MODULE CacheStoreProofs ---------------------------
(***************************************************************************)
(* Proofs about the cache on disk, for every set of keys and writers, every*)
(* size and quota: the leases are those the writers hold, the entries fit  *)
(* into the quota, a clear that ends leaves nothing, a reader finds a whole*)
(* file, and what a Put has just written is not evicted by it.             *)
(***************************************************************************)
EXTENDS CacheStore, FiniteSetTheorems, WellFoundedInduction, TLAPS

(* A PutBytes that is writing has a file open, and has no download's lease.*)
OpenHasFile ==
  \A w \in Bytes :
    writer[w] \notin {"part", "leaving"} /\ (writer[w] = "open" => fd[w] # None)

(* LastAccess orders the entries strictly: it is how evictLocked sorts.    *)
Strict(o, s) ==
  /\ o \subseteq Entries(s) \X Entries(s)
  /\ \A k \in Keys : <<k, k>> \notin o
  /\ \A i, j, k \in Keys : <<i, j>> \in o /\ <<j, k>> \in o => <<i, k>> \in o
OrderStrict == Strict(order, size)

(* As long as no two Clears met, the one that runs bars new leases, and    *)
(* once it has waited there is no writer under way to write an entry.      *)
OneClear ==
  ~met.clears =>
    \A a \in Admins :
      /\ \A b \in Admins : clear[a] # "idle" /\ clear[b] # "idle" => a = b
      /\ clear[a] # "idle" => clearing
      /\ clear[a] \in {"delete", "purge", "reset"} => \A w \in Writers : Held(w) = 0
      /\ clear[a] \in {"purge", "reset"} => Entries(size) = {}

(* Whatever lies at a name of a key was created for that key, by a writer  *)
(* that has begun.                                                         *)
Written(f, k) == f \in Writers /\ KeyOf[f] = k /\ writer[f] # "new"
FilesOfKey ==
  /\ \A k \in Keys : object[k] # None => Written(object[k], k)
  /\ \A k \in Keys : tmp[k] # None => tmp[k] \in Bytes /\ Written(tmp[k], k)
  /\ \A w \in Writers : staged[w] # None => Written(staged[w], KeyOf[w])
  /\ \A w \in Bytes : writer[w] = "open" => Written(fd[w], KeyOf[w])

(* While no two PutBytes of a key have met, the one that is under way has  *)
(* the temporary name to itself, and every other file is complete.         *)
Alone(k) ==
  /\ \A v, w \in Writing(k) : v = w
  /\ tmp[k] # None => tmp[k] \in Writing(k)
  /\ \A w \in Writing(k) :
       /\ writer[w] = "open" => fd[w] = w
       /\ writer[w] \in {"written", "put"} => w \in whole
  /\ \A w \in Writers : KeyOf[w] = k /\ staged[w] # None => staged[w] \in whole
  /\ object[k] # None => object[k] \in whole
FilesWhole == \A k \in Keys \ met.keys : Alone(k)

StoreInv ==
  /\ LeasesMatch /\ used \in Nat /\ OpenHasFile
  /\ OrderStrict /\ WithinQuota
  /\ OneClear
  /\ FilesOfKey /\ FilesWhole

-----------------------------------------------------------------------------
(* Space *)

(* What the entries take is finite. *)
LEMMA UnitsFinite ==
  ASSUME NEW s \in [Keys -> Nat]
  PROVE  IsFiniteSet(Units(s)) /\ Total(s) \in Nat /\ IsFiniteSet(Entries(s))
<1> DEFINE taken == [k \in Keys |-> {k} \X (1..s[k])]
           parts == {{k} \X (1..s[k]) : k \in Keys}
<1>1. taken \in Surjection(Keys, parts)
  BY DEF Surjection
<1>2. IsFiniteSet(parts)
  BY <1>1, CacheConstants, FS_Surjection
<1>3. ASSUME NEW p \in parts
      PROVE  IsFiniteSet(p)
  <2>1. PICK k \in Keys : p = {k} \X (1..s[k])
    OBVIOUS
  <2>2. IsFiniteSet({k})
    BY FS_Singleton
  <2>3. 1 \in Int /\ s[k] \in Int
    OBVIOUS
  <2>4. IsFiniteSet(1..s[k])
    BY <2>3, FS_Interval
  <2> QED BY <2>1, <2>2, <2>4, FS_Product
<1>4. IsFiniteSet(Units(s))
  BY <1>2, <1>3, FS_UNION DEF Units
<1>5. IsFiniteSet(Entries(s))
  BY CacheConstants, FS_Subset DEF Entries
<1> QED BY <1>4, <1>5, FS_CardinalityType DEF Total

(* Where every entry is at most as large, no more is taken. *)
LEMMA TotalMonotone ==
  ASSUME NEW s \in [Keys -> Nat], NEW t \in [Keys -> Nat], \A k \in Keys : s[k] <= t[k]
  PROVE  Total(s) <= Total(t)
<1>1. ASSUME NEW u \in Units(s)
      PROVE  u \in Units(t)
  <2>1. PICK k \in Keys : u \in {k} \X (1..s[k])
    BY DEF Units
  <2>2. u \in {k} \X (1..t[k])
    BY <2>1
  <2> QED BY <2>2 DEF Units
<1> QED BY <1>1, UnitsFinite, FS_Subset DEF Total

(* No entries take nothing. *)
LEMMA NothingTaken ==
  ASSUME NEW s \in [Keys -> Nat], Entries(s) = {}
  PROVE  Total(s) = 0
<1>1. \A k \in Keys : s[k] = 0
  BY DEF Entries
<1>2. ASSUME NEW u \in Units(s)
      PROVE  FALSE
  <2>1. PICK k \in Keys : u \in {k} \X (1..s[k])
    BY DEF Units
  <2> QED BY <1>1, <2>1
<1>3. Units(s) = {}
  BY <1>2
<1> QED BY <1>3, FS_EmptySet DEF Total

Fits(s, max) == Total(s) <= max \/ Cardinality(Entries(s)) = 1

(* Entries of which at most one is left fit. *)
LEMMA OneFits ==
  ASSUME NEW s \in [Keys -> Nat], NEW max \in Nat, NEW k, Entries(s) \subseteq {k}
  PROVE  Fits(s, max)
<1>1. CASE Entries(s) = {}
  BY <1>1, NothingTaken DEF Fits
<1>2. CASE Entries(s) = {k}
  BY <1>2, FS_Singleton DEF Fits
<1> QED BY <1>1, <1>2

(* Deleting entries does not make the others exceed the quota. *)
LEMMA DeletingFits ==
  ASSUME NEW s \in [Keys -> Nat], NEW max \in Nat, NEW gone, Fits(s, max)
  PROVE  Without(s, gone) \in [Keys -> Nat] /\ Fits(Without(s, gone), max)
<1>1. Without(s, gone) \in [Keys -> Nat]
  BY DEF Without
<1>2. CASE Total(s) <= max
  <2>1. Total(Without(s, gone)) <= Total(s)
    BY <1>1, TotalMonotone DEF Without
  <2> QED BY <1>1, <1>2, <2>1, UnitsFinite DEF Fits
<1>3. CASE Cardinality(Entries(s)) = 1
  <2>1. PICK k : Entries(s) = {k}
    BY <1>3, UnitsFinite, FS_Singleton
  <2>2. Entries(Without(s, gone)) \subseteq {k}
    BY <2>1 DEF Entries, Without
  <2> QED BY <1>1, <2>2, OneFits
<1> QED BY <1>2, <1>3 DEF Fits

(* Of entries that remain, one was used before all the others that do:    *)
(* those used before it are gone, and they were enough.                    *)
LEMMA OldestKept ==
  ASSUME NEW o, NEW s, Strict(o, s), NEW kept, kept \subseteq Entries(s), kept # {}
  PROVE  \E c \in kept : \A j \in kept : <<j, c>> \notin o
<1> DEFINE below(k) == {j \in Entries(s) : <<j, k>> \in o}
           belows == {below(k) : k \in kept}
<1>1. IsFiniteSet(Entries(s)) /\ Entries(s) \subseteq Keys
  BY CacheConstants, FS_Subset DEF Entries
<1>2. \A k \in kept : IsFiniteSet(below(k)) /\ below(k) \subseteq Entries(s)
  BY <1>1, FS_Subset
<1>3. belows \subseteq FiniteSubsetsOf(Entries(s)) /\ belows # {}
  BY <1>2 DEF FiniteSubsetsOf
<1>4. PICK b \in belows : \A d \in belows : <<d, b>> \notin StrictSubsetOrdering(Entries(s))
  <2> HIDE DEF belows
  <2> QED BY <1>3, FS_StrictSubsetOrderingWellFounded, WFMin
<1>5. PICK c \in kept : b = below(c)
  OBVIOUS
<1>6. ASSUME NEW j \in kept, <<j, c>> \in o
      PROVE  FALSE
  <2>1. below(j) \subseteq below(c)
    BY <1>1, <1>6 DEF Strict
  <2>2. j \in below(c) /\ j \notin below(j)
    BY <1>1, <1>6 DEF Strict
  <2>3. below(j) # below(c)
    BY <2>2
  <2>4. <<below(j), below(c)>> \in StrictSubsetOrdering(Entries(s))
    <3> HIDE DEF below
    <3> QED BY <1>2, <2>1, <2>3 DEF StrictSubsetOrdering
  <2> QED BY <1>4, <1>5, <2>4
<1> QED BY <1>5, <1>6

(* Eviction, with at most one entry protected, makes the others fit. *)
LEMMA EvictionFits ==
  ASSUME NEW s \in [Keys -> Nat], NEW o, Strict(o, s), NEW max \in Nat,
         NEW protected, NEW k, protected \subseteq {k}
  PROVE  LET left == Without(s, Evicted(s, o, max, protected))
         IN left \in [Keys -> Nat] /\ Fits(left, max)
<1> DEFINE candidates == Entries(s) \ protected
           older(c) == {j \in candidates : <<j, c>> \in o}
           gone == Evicted(s, o, max, protected)
           left == Without(s, gone)
           kept == candidates \ gone
<1>1. left \in [Keys -> Nat]
  BY DEF Without
<1>2. CASE Total(s) <= max
  <2>1. Fits(s, max)
    BY <1>2 DEF Fits
  <2> QED BY <2>1, DeletingFits
<1>3. CASE ~(Total(s) <= max) /\ kept = {}
  <2>1. Entries(left) \subseteq {k}
    BY <1>3 DEF Entries, Without
  <2> QED BY <1>1, <2>1, OneFits
<1>4. CASE ~(Total(s) <= max) /\ kept # {}
  <2>1. PICK c \in kept : \A j \in kept : <<j, c>> \notin o
    <3>1. kept \subseteq Entries(s)
      OBVIOUS
    <3> HIDE DEF kept
    <3> QED BY <1>4, <3>1, OldestKept
  <2>2. older(c) \subseteq gone
    BY <2>1
  <2>3. Total(Without(s, older(c))) <= (max * 3) \div 4
    BY <1>4, <2>1 DEF Evicted
  <2>4. Without(s, older(c)) \in [Keys -> Nat]
        /\ \A j \in Keys : left[j] <= Without(s, older(c))[j]
    <3> HIDE DEF gone, older
    <3> QED BY <2>2 DEF Without
  <2>5. Total(left) <= Total(Without(s, older(c)))
    <3> HIDE DEF left, older
    <3> QED BY <1>1, <2>4, TotalMonotone
  <2>6. Total(left) \in Nat /\ Total(Without(s, older(c))) \in Nat
    <3> HIDE DEF left, older
    <3> QED BY <1>1, <2>4, UnitsFinite
  <2>7. (max * 3) \div 4 <= max
    OBVIOUS
  <2>8. Total(left) <= max
    <3> HIDE DEF left, older
    <3> QED BY <2>3, <2>5, <2>6, <2>7
  <2> QED BY <1>1, <2>8 DEF Fits
<1> QED BY <1>2, <1>3, <1>4

-----------------------------------------------------------------------------
(* The order and the quota *)

(* Deleting entries leaves a strict order of the others. *)
LEMMA DeleteStrict ==
  ASSUME NEW s \in [Keys -> Nat], NEW o, Strict(o, s), NEW obj, NEW gone,
         Delete(s, o, obj, gone)
  PROVE  size' = Without(s, gone) /\ size' \in [Keys -> Nat] /\ Strict(order', size')
<1>1. size' = Without(s, gone) /\ size' \in [Keys -> Nat]
      /\ order' = Among(o, Entries(size'))
  BY DEF Delete, Without
<1>2. order' \subseteq Entries(size') \X Entries(size') /\ order' \subseteq o
  BY <1>1 DEF Among
<1>3. Entries(size') \subseteq Keys
  BY DEF Entries
<1>4. ASSUME NEW i \in Keys, NEW j \in Keys, NEW k \in Keys,
             <<i, j>> \in order', <<j, k>> \in order'
      PROVE  <<i, k>> \in order'
  <2>1. <<i, k>> \in o
    BY <1>2, <1>4 DEF Strict
  <2>2. i \in Entries(size') /\ k \in Entries(size')
    BY <1>2, <1>4
  <2> QED BY <1>1, <2>1, <2>2 DEF Among
<1>5. \A k \in Keys : <<k, k>> \notin order'
  BY <1>2 DEF Strict
<1> QED BY <1>1, <1>2, <1>4, <1>5 DEF Strict

(* The entry that is used last comes after all the others. *)
LEMMA TouchedStrict ==
  ASSUME NEW s, NEW t, NEW o, Strict(o, s), NEW k \in Keys,
         Entries(s) \subseteq Entries(t), k \in Entries(t)
  PROVE  Strict(Touched(o, t, k), t)
<1> DEFINE touched == Touched(o, t, k)
<1>0. Entries(t) \subseteq Keys
  BY DEF Entries
<1>1. ASSUME NEW i \in Keys, NEW j \in Keys
      PROVE  <<i, j>> \in touched <=> \/ <<i, j>> \in o /\ i # k /\ j # k
                                      \/ i \in Entries(t) /\ i # k /\ j = k
  <2>1. <<i, j>> \in Among(o, Keys \ {k}) <=> <<i, j>> \in o /\ i # k /\ j # k
    BY DEF Among
  <2>2. <<i, j>> \in (Entries(t) \ {k}) \X {k} <=> i \in Entries(t) \ {k} /\ j \in {k}
    BY Zenon
  <2> QED BY <2>1, <2>2 DEF Touched
<1>2. touched \subseteq Entries(t) \X Entries(t)
  BY DEF Touched, Among, Strict
<1>3. \A i \in Keys : <<i, i>> \notin touched
  BY <1>1 DEF Strict
<1>4. \A i, j \in Keys : <<i, j>> \in o => i \in Entries(t)
  BY DEF Strict
<1>5. ASSUME NEW i \in Keys, NEW j \in Keys, NEW l \in Keys,
             <<i, j>> \in touched, <<j, l>> \in touched
      PROVE  <<i, l>> \in touched
  <2>1. <<i, j>> \in o /\ i # k /\ j # k
    BY <1>1, <1>5
  <2>2. CASE l = k
    <3>1. i \in Entries(t)
      BY <1>4, <2>1
    <3>2. i \in Keys /\ l \in Keys
      OBVIOUS
    <3> HIDE DEF touched
    <3>3. <<i, l>> \in touched <=> \/ <<i, l>> \in o /\ i # k /\ l # k
                                   \/ i \in Entries(t) /\ i # k /\ l = k
      BY <1>1, <3>2
    <3> QED BY <2>1, <2>2, <3>1, <3>3
  <2>3. CASE l # k
    <3>1. <<j, l>> \in o
      BY <1>1, <1>5, <2>3
    <3>2. <<i, l>> \in o
      BY <2>1, <3>1 DEF Strict
    <3> QED BY <1>1, <2>1, <2>3, <3>2
  <2> QED BY <2>2, <2>3
<1> HIDE DEF touched
<1>6. Strict(touched, t)
  BY <1>2, <1>3, <1>5 DEF Strict
<1> QED BY <1>6 DEF touched

(* Every step of the cache keeps the order strict and the quota. *)
LEMMA QuotaStep ==
  ASSUME TypeOK, OrderStrict, WithinQuota, [Next]_vars
  PROVE  OrderStrict' /\ WithinQuota'
<1> USE DEF OrderStrict
<1>0. size \in [Keys -> Nat] /\ quota \in Nat /\ Fits(size, quota)
  BY CacheConstants DEF TypeOK, WithinQuota, Fits
<1>1. SUFFICES Strict(order', size') /\ Fits(size', quota')
  BY DEF WithinQuota, Fits
<1>2. CASE metaVars' = metaVars /\ quota' = quota
  BY <1>0, <1>2 DEF metaVars
<1>3. ASSUME NEW w \in Writers, Commit(w)
      PROVE  Strict(order', size') /\ Fits(size', quota')
  <2> DEFINE k == KeyOf[w]
             s == [size EXCEPT ![k] = SizeOf[w]]
             o == Touched(order, s, k)
             gone == Evicted(s, o, quota, {k})
  <2>1. CASE metaVars' = metaVars
    BY <1>2, <1>3, <2>1 DEF Commit
  <2>2. CASE Delete(s, o, [object EXCEPT ![k] = staged[w]], gone)
    <3>1. k \in Keys /\ SizeOf[w] \in Nat /\ SizeOf[w] # 0
      BY CacheConstants
    <3>2. s \in [Keys -> Nat]
      BY <1>0, <3>1
    <3>3. Entries(size) \subseteq Entries(s) /\ k \in Entries(s)
      BY <1>0, <3>1 DEF Entries
    <3>4. Strict(o, s)
      BY <3>1, <3>3, TouchedStrict
    <3> HIDE DEF s, o, k
    <3>5. size' = Without(s, gone) /\ Strict(order', size')
      BY <2>2, <3>2, <3>4, DeleteStrict
    <3>6. Fits(Without(s, gone), quota)
      BY <1>0, <3>2, <3>4, EvictionFits
    <3>7. quota' = quota
      BY <1>3 DEF Commit
    <3> QED BY <3>5, <3>6, <3>7
  <2> QED BY <1>3, <2>1, <2>2 DEF Commit, metaVars
<1>4. ASSUME NEW a \in Admins, DeleteAll(a)
      PROVE  Strict(order', size') /\ Fits(size', quota')
  <2>1. Delete(size, order, object, Entries(size)) /\ quota' = quota
    BY <1>4 DEF DeleteAll
  <2> QED BY <1>0, <2>1, DeleteStrict, DeletingFits
<1>5. ASSUME NEW q \in Quotas, SetMaxSizeGB(q)
      PROVE  Strict(order', size') /\ Fits(size', quota')
  <2>1. Delete(size, order, object, Evicted(size, order, q, {})) /\ quota' = q
    BY <1>5 DEF SetMaxSizeGB
  <2>2. q \in Nat
    BY CacheConstants
  <2>3. size' = Without(size, Evicted(size, order, q, {})) /\ Strict(order', size')
    BY <1>0, <2>1, DeleteStrict
  <2>4. Fits(Without(size, Evicted(size, order, q, {})), q)
    BY <1>0, <2>2, EvictionFits
  <2> QED BY <2>1, <2>3, <2>4
<1>6. ASSUME NEW k \in Keys, Get(k)
      PROVE  Strict(order', size') /\ Fits(size', quota')
  <2>1. CASE Delete(size, order, object, {k})
    <3>1. quota' = quota
      BY <1>6 DEF Get
    <3> QED BY <1>0, <2>1, <3>1, DeleteStrict, DeletingFits
  <2>2. CASE order' \in {order, Touched(order, size, k)} /\ UNCHANGED <<size, object>>
    <3>1. k \in Entries(size)
      BY <1>6 DEF Get, Entries
    <3>2. Strict(Touched(order, size, k), size)
      BY <3>1, TouchedStrict
    <3>3. quota' = quota
      BY <1>6 DEF Get
    <3> QED BY <1>0, <2>2, <3>2, <3>3
  <2> QED BY <1>6, <2>1, <2>2 DEF Get
<1>7. ASSUME NEW w \in Writers, WriterStep(w), ~Commit(w)
      PROVE  metaVars' = metaVars /\ quota' = quota
  BY <1>7 DEF WriterStep, Start, Abort, OpenBytes, WriteBytes, PutHold, Stage, StageFails,
              Return, CleanUp, metaVars
<1>8. ASSUME NEW a \in Admins, BeginClear(a) \/ ClearerStep(a), ~DeleteAll(a)
      PROVE  metaVars' = metaVars /\ quota' = quota
  BY <1>8 DEF ClearerStep, BeginClear, AwaitWriters, PurgeTempFiles, EndClear, metaVars
<1>9. Crash => metaVars' = metaVars /\ quota' = quota
  BY DEF Crash, metaVars
<1>10. UNCHANGED vars => metaVars' = metaVars /\ quota' = quota
  BY DEF vars, metaVars
<1> QED BY <1>2, <1>3, <1>4, <1>5, <1>6, <1>7, <1>8, <1>9, <1>10
        DEF Next, WriterStep, ClearerStep

-----------------------------------------------------------------------------
(* The leases *)

LeaseInv == LeasesMatch /\ used \in Nat /\ OpenHasFile

One(condition) == IF condition THEN 1 ELSE 0

(* Sets that differ in one element at most differ by it in cardinality.    *)
LEMMA DiffersInOne ==
  ASSUME NEW S, NEW T, NEW e, IsFiniteSet(S), S \ {e} = T \ {e}
  PROVE  /\ Cardinality(S) \in Nat /\ Cardinality(T) \in Nat
         /\ Cardinality(T) = Cardinality(S) + One(e \in T) - One(e \in S)
<1>1. Cardinality(S) \in Nat
  BY FS_CardinalityType
<1>2. CASE (e \in S) <=> (e \in T)
  <2>1. S = T
    BY <1>2
  <2> QED BY <1>1, <1>2, <2>1 DEF One
<1>3. CASE e \notin S /\ e \in T
  <2>1. T = S \cup {e}
    BY <1>3
  <2>2. Cardinality(T) = Cardinality(S) + 1
    BY <1>3, <2>1, FS_AddElement
  <2> QED BY <1>1, <1>3, <2>2 DEF One
<1>4. CASE e \in S /\ e \notin T
  <2>1. T = S \ {e}
    BY <1>4
  <2>2. IsFiniteSet(T) /\ Cardinality(T) = Cardinality(S) - 1
    BY <1>4, <2>1, FS_RemoveElement
  <2>3. Cardinality(T) \in Nat
    BY <2>2, FS_CardinalityType
  <2> QED BY <1>1, <1>4, <2>2, <2>3 DEF One
<1> QED BY <1>2, <1>3, <1>4

(* What a writer holds is counted once or twice. *)
LEMMA HeldCounted ==
  ASSUME NEW w \in Writers
  PROVE  /\ Held(w) \in {0, 1, 2} /\ Held(w)' \in {0, 1, 2}
         /\ Held(w) = One(w \in Holding(1)) + One(w \in Holding(2))
         /\ Held(w)' = One(w \in Holding(1)') + One(w \in Holding(2)')
<1>1. Held(w) \in {0, 1, 2} /\ Held(w)' \in {0, 1, 2}
  BY DEF Held
<1>2. /\ w \in Holding(1) <=> Held(w) >= 1
      /\ w \in Holding(2) <=> Held(w) >= 2
      /\ w \in Holding(1)' <=> Held(w)' >= 1
      /\ w \in Holding(2)' <=> Held(w)' >= 2
  BY DEF Holding
<1> QED BY <1>1, <1>2 DEF One

(* One writer takes or gives back a lease, and the counter follows.        *)
LEMMA LeasesFollow ==
  ASSUME LeasesMatch, NEW w \in Writers,
         \A v \in Writers : v # w => Held(v)' = Held(v),
         leases' = leases + Held(w)' - Held(w)
  PROVE  leases' \in Nat /\ leases' = Cardinality(Holding(1)') + Cardinality(Holding(2)')
<1>1. /\ IsFiniteSet(Holding(1)) /\ IsFiniteSet(Holding(2))
      /\ Holding(1) \ {w} = Holding(1)' \ {w}
      /\ Holding(2) \ {w} = Holding(2)' \ {w}
  <2>1. Holding(1) \subseteq Writers /\ Holding(2) \subseteq Writers
    BY DEF Holding
  <2>2. IsFiniteSet(Holding(1)) /\ IsFiniteSet(Holding(2))
    BY <2>1, CacheConstants, FS_Subset
  <2> QED BY <2>2 DEF Holding
<1>2. /\ Cardinality(Holding(1)) \in Nat /\ Cardinality(Holding(1)') \in Nat
      /\ Cardinality(Holding(1)')
           = Cardinality(Holding(1)) + One(w \in Holding(1)') - One(w \in Holding(1))
  BY <1>1, DiffersInOne
<1>3. /\ Cardinality(Holding(2)) \in Nat /\ Cardinality(Holding(2)') \in Nat
      /\ Cardinality(Holding(2)')
           = Cardinality(Holding(2)) + One(w \in Holding(2)') - One(w \in Holding(2))
  BY <1>1, DiffersInOne
<1>4. /\ One(w \in Holding(1)) \in Nat /\ One(w \in Holding(2)) \in Nat
      /\ One(w \in Holding(1)') \in Nat /\ One(w \in Holding(2)') \in Nat
  BY DEF One
<1>5. leases = Cardinality(Holding(1)) + Cardinality(Holding(2))
  BY DEF LeasesMatch
<1> QED BY SMTT(30), <1>2, <1>3, <1>4, <1>5, HeldCounted

(* A writer goes to its next step, and no other moves. *)
LEMMA GotoMoves ==
  ASSUME TypeOK, NEW w \in Writers, NEW from, NEW to, Goto(w, from, to)
  PROVE  /\ writer[w] = from /\ writer'[w] = to
         /\ \A v \in Writers : v # w => writer'[v] = writer[v] /\ Held(v)' = Held(v)
<1>1. writer[w] = from /\ writer'[w] = to
      /\ \A v \in Writers : v # w => writer'[v] = writer[v]
  BY DEF TypeOK, Goto
<1> QED BY <1>1 DEF Held

(* The counter follows every step of a writer. *)
LEMMA WriterLeases ==
  ASSUME TypeOK, NEW w \in Writers, WriterStep(w)
  PROVE  /\ \A v \in Writers : v # w => writer'[v] = writer[v] /\ Held(v)' = Held(v)
         /\ leases' = leases + Held(w)' - Held(w)
<1>0. leases \in Nat /\ (w \in Bytes <=> w \notin Downloads)
  BY CacheConstants DEF TypeOK, Writers
<1>1. CASE Start(w)
  <2>1. PICK from, to : <<from, to>> \in {<<"new", "part">>, <<"new", "gone">>} /\ Goto(w, from, to)
    BY <1>1 DEF Start
  <2>2. writer[w] = from /\ writer'[w] = to
    BY <2>1, GotoMoves
  <2>3. leases' = leases + Held(w)' - Held(w)
    BY <1>0, <1>1, <2>1, <2>2 DEF Start, Held, HoldWrite, Goto
  <2> QED BY <2>1, <2>3, GotoMoves
<1>2. CASE Abort(w)
  <2>1. PICK from, to : <<from, to>> \in {<<"part", "gone">>} /\ Goto(w, from, to)
    BY <1>2 DEF Abort
  <2>2. writer[w] = from /\ writer'[w] = to
    BY <2>1, GotoMoves
  <2>3. leases' = leases + Held(w)' - Held(w)
    BY <1>0, <1>2, <2>1, <2>2 DEF Abort, Held
  <2> QED BY <2>1, <2>3, GotoMoves
<1>3. CASE OpenBytes(w)
  <2>1. PICK from, to : <<from, to>> \in {<<"new", "open">>} /\ Goto(w, from, to)
    BY <1>3 DEF OpenBytes
  <2>2. writer[w] = from /\ writer'[w] = to
    BY <2>1, GotoMoves
  <2>3. leases' = leases + Held(w)' - Held(w)
    BY <1>0, <1>3, <2>1, <2>2 DEF OpenBytes, Held
  <2> QED BY <2>1, <2>3, GotoMoves
<1>4. CASE WriteBytes(w)
  <2>1. PICK from, to : <<from, to>> \in {<<"open", "written">>} /\ Goto(w, from, to)
    BY <1>4 DEF WriteBytes
  <2>2. writer[w] = from /\ writer'[w] = to
    BY <2>1, GotoMoves
  <2>3. leases' = leases + Held(w)' - Held(w)
    BY <1>0, <1>4, <2>1, <2>2 DEF WriteBytes, Held
  <2> QED BY <2>1, <2>3, GotoMoves
<1>5. CASE PutHold(w)
  <2>1. PICK from, to : /\ from = Ready(w) /\ to \in {"put", "leaving", "cleanup"}
                        /\ Goto(w, from, to)
    BY <1>5 DEF PutHold
  <2>2. writer[w] = from /\ writer'[w] = to
    BY <2>1, GotoMoves
  <2>3. leases' = leases + Held(w)' - Held(w)
    BY <1>0, <1>5, <2>1, <2>2 DEF PutHold, Held, Ready, HoldWrite, Goto
  <2> QED BY <2>1, <2>3, GotoMoves
<1>6. CASE Stage(w)
  <2>1. PICK from, to : /\ <<from, to>> \in {<<"put", "returning">>, <<"put", "staged">>}
                        /\ Goto(w, from, to)
    BY <1>6 DEF Stage
  <2>2. writer[w] = from /\ writer'[w] = to
    BY <2>1, GotoMoves
  <2>3. leases' = leases + Held(w)' - Held(w)
    BY <1>0, <1>6, <2>1, <2>2 DEF Stage, Held
  <2> QED BY <2>1, <2>3, GotoMoves
<1>7. CASE StageFails(w)
  <2>1. PICK from, to : <<from, to>> \in {<<"put", "returning">>} /\ Goto(w, from, to)
    BY <1>7 DEF StageFails
  <2>2. writer[w] = from /\ writer'[w] = to
    BY <2>1, GotoMoves
  <2>3. leases' = leases + Held(w)' - Held(w)
    BY <1>0, <1>7, <2>1, <2>2 DEF StageFails, Held
  <2> QED BY <2>1, <2>3, GotoMoves
<1>8. CASE Commit(w)
  <2>1. PICK from, to : <<from, to>> \in {<<"staged", "returning">>} /\ Goto(w, from, to)
    BY <1>8 DEF Commit
  <2>2. writer[w] = from /\ writer'[w] = to
    BY <2>1, GotoMoves
  <2>3. leases' = leases + Held(w)' - Held(w)
    BY <1>0, <1>8, <2>1, <2>2 DEF Commit, Held
  <2> QED BY <2>1, <2>3, GotoMoves
<1>9. CASE Return(w)
  <2>1. PICK from, to :
          /\ <<from, to>> \in {<<"returning", "leaving">>, <<"returning", "cleanup">>,
                               <<"leaving", "gone">>}
          /\ Goto(w, from, to)
    BY <1>9 DEF Return
  <2>2. writer[w] = from /\ writer'[w] = to
    BY <2>1, GotoMoves
  <2>3. leases' = leases + Held(w)' - Held(w)
    BY <1>0, <1>9, <2>1, <2>2 DEF Return, Held, Goto
  <2> QED BY <2>1, <2>3, GotoMoves
<1>10. CASE CleanUp(w)
  <2>1. PICK from, to : <<from, to>> \in {<<"cleanup", "gone">>} /\ Goto(w, from, to)
    BY <1>10 DEF CleanUp
  <2>2. writer[w] = from /\ writer'[w] = to
    BY <2>1, GotoMoves
  <2>3. leases' = leases + Held(w)' - Held(w)
    BY <1>0, <1>10, <2>1, <2>2 DEF CleanUp, Held
  <2> QED BY <2>1, <2>3, GotoMoves
<1> QED BY <1>1, <1>2, <1>3, <1>4, <1>5, <1>6, <1>7, <1>8, <1>9, <1>10 DEF WriterStep

(* Deleting entries keeps the types of what it changes. *)
LEMMA DeleteTypes ==
  ASSUME NEW s \in [Keys -> Nat], NEW o, NEW obj \in [Keys -> Files], NEW gone,
         o \subseteq Keys \X Keys, Delete(s, o, obj, gone)
  PROVE  /\ size' \in [Keys -> Nat] /\ order' \subseteq Keys \X Keys
         /\ object' \in [Keys -> Files]
BY DEF Delete, Without, Among, Files

(* A touch orders keys. *)
LEMMA TouchedTypes ==
  ASSUME NEW o, NEW s, NEW k \in Keys
  PROVE  Touched(o, s, k) \subseteq Keys \X Keys
BY DEF Touched, Among, Entries

(* The steps of a writer keep the types. *)
LEMMA WriterTypes ==
  ASSUME LeaseInv, leases' \in Nat, NEW w \in Writers, WriterStep(w)
  PROVE  TypeOK' /\ used' \in Nat /\ OpenHasFile'
<1> USE DEF LeaseInv, LeasesMatch
<1>0. KeyOf[w] \in Keys /\ None \notin Writers
      /\ (w \in Bytes <=> w \notin Downloads)
  BY CacheConstants DEF Writers
<1>1. CASE Start(w)
  BY <1>0, <1>1
  DEF Start, Goto, TypeOK, OpenHasFile, Files, Writers, metaVars, clearVars, fileVars
<1>2. CASE Abort(w)
  BY <1>0, <1>2
  DEF Abort, Goto, TypeOK, OpenHasFile, Files, Writers, metaVars, clearVars, fileVars
<1>3. CASE OpenBytes(w)
  BY <1>0, <1>3
  DEF OpenBytes, Goto, TypeOK, OpenHasFile, Files, Writers, metaVars, clearVars, fileVars
<1>4. CASE WriteBytes(w)
  BY <1>0, <1>4
  DEF WriteBytes, Goto, TypeOK, OpenHasFile, Files, Writers, metaVars, clearVars, fileVars
<1>5. CASE PutHold(w)
  BY <1>0, <1>5
  DEF PutHold, Goto, TypeOK, OpenHasFile, Files, Writers, metaVars, clearVars, fileVars, Ready
<1>6. CASE Stage(w)
  BY <1>0, <1>6
  DEF Stage, Goto, TypeOK, OpenHasFile, Files, Writers, metaVars, clearVars, fileVars
<1>7. CASE StageFails(w)
  BY <1>0, <1>7
  DEF StageFails, Goto, TypeOK, OpenHasFile, Files, Writers, metaVars, clearVars, fileVars, Disturb
<1>8. CASE Commit(w)
  <2> DEFINE k == KeyOf[w]
             s == [size EXCEPT ![k] = SizeOf[w]]
             o == Touched(order, s, k)
             obj == [object EXCEPT ![k] = staged[w]]
  <2>1. s \in [Keys -> Nat] /\ obj \in [Keys -> Files] /\ o \subseteq Keys \X Keys
    BY <1>0, CacheConstants, TouchedTypes DEF TypeOK
  <2>2. /\ size' \in [Keys -> Nat] /\ order' \subseteq Keys \X Keys
        /\ object' \in [Keys -> Files] /\ used' \in Nat
    <3>1. CASE UNCHANGED metaVars /\ used' \in {used, used + 1}
               /\ \E f \in {None, staged[w], object[k]} : object' = [object EXCEPT ![k] = f]
      BY <1>0, <3>1 DEF TypeOK, Files, metaVars
    <3>2. CASE Delete(s, o, obj, Evicted(s, o, quota, {k})) /\ used' = used
      <4> HIDE DEF s, o, obj
      <4> QED BY <2>1, <3>2, DeleteTypes
    <3>3. CASE UNCHANGED <<metaVars, object, used>>
      BY <3>3 DEF TypeOK, metaVars
    <3> QED BY <1>8, <3>1, <3>2, <3>3 DEF Commit, Disturb
  <2>3. /\ Goto(w, "staged", "returning") /\ staged' = [staged EXCEPT ![w] = None]
        /\ UNCHANGED <<tmp, part, fd, whole, leases, clearVars, quota, met>>
    BY <1>8 DEF Commit
  <2> QED BY <1>0, <2>2, <2>3 DEF Goto, TypeOK, OpenHasFile, Files, Writers, clearVars
<1>9. CASE Return(w)
  BY <1>0, <1>9
  DEF Return, Goto, TypeOK, OpenHasFile, Files, Writers, metaVars, clearVars, fileVars
<1>10. CASE CleanUp(w)
  BY <1>0, <1>10
  DEF CleanUp, Goto, TypeOK, OpenHasFile, Files, Writers, metaVars, clearVars, fileVars
<1> QED BY <1>1, <1>2, <1>3, <1>4, <1>5, <1>6, <1>7, <1>8, <1>9, <1>10 DEF WriterStep

(* Every step keeps the leases those of the writers, and the types. *)
LEMMA LeaseStep ==
  ASSUME LeaseInv, [Next]_vars
  PROVE  LeaseInv'
<1> USE DEF LeaseInv
<1>0. TypeOK /\ leases \in Nat
  BY DEF LeasesMatch, TypeOK
<1>1. ASSUME NEW w \in Writers, WriterStep(w)
      PROVE  LeaseInv'
  <2>1. leases' \in Nat /\ leases' = Cardinality(Holding(1)') + Cardinality(Holding(2)')
    BY <1>0, <1>1, WriterLeases, LeasesFollow
  <2>2. TypeOK' /\ used' \in Nat /\ OpenHasFile'
    BY <1>1, <2>1, WriterTypes
  <2> QED BY <2>1, <2>2 DEF LeasesMatch
<1>2. ASSUME TypeOK', used' \in Nat, OpenHasFile', UNCHANGED <<writer, leases>>
      PROVE  LeaseInv'
  <2>1. Holding(1)' = Holding(1) /\ Holding(2)' = Holding(2)
    BY <1>2 DEF Holding, Held
  <2> QED BY <1>2, <2>1 DEF LeasesMatch
<1>3. ASSUME NEW a \in Admins, BeginClear(a) \/ ClearerStep(a)
      PROVE  LeaseInv'
  <2>1. CASE BeginClear(a)
    BY <1>0, <1>2, <2>1 DEF BeginClear, ClearStep, Disturb, TypeOK, OpenHasFile, metaVars,
                           fileVars
  <2>2. CASE AwaitWriters(a) \/ PurgeTempFiles(a) \/ EndClear(a)
    BY <1>0, <1>2, <2>2 DEF AwaitWriters, PurgeTempFiles, EndClear, ClearStep, TypeOK,
                           OpenHasFile, Files, metaVars, fileVars
  <2>3. CASE DeleteAll(a)
    <3>1. size' \in [Keys -> Nat] /\ order' \subseteq Keys \X Keys
          /\ object' \in [Keys -> Files]
      BY <1>0, <2>3, DeleteTypes DEF DeleteAll, TypeOK
    <3> QED BY <1>0, <1>2, <2>3, <3>1 DEF DeleteAll, ClearStep, TypeOK, OpenHasFile
  <2> QED BY <1>3, <2>1, <2>2, <2>3 DEF ClearerStep
<1>4. ASSUME NEW q \in Quotas, SetMaxSizeGB(q)
      PROVE  LeaseInv'
  <2>1. size' \in [Keys -> Nat] /\ order' \subseteq Keys \X Keys
        /\ object' \in [Keys -> Files]
    BY <1>0, <1>4, DeleteTypes DEF SetMaxSizeGB, TypeOK
  <2> QED BY <1>0, <1>2, <1>4, <2>1 DEF SetMaxSizeGB, Disturb, clearVars, TypeOK, OpenHasFile
<1>5. ASSUME NEW k \in Keys, Get(k)
      PROVE  LeaseInv'
  <2>1. size' \in [Keys -> Nat] /\ order' \subseteq Keys \X Keys
        /\ object' \in [Keys -> Files]
    <3>1. CASE Delete(size, order, object, {k})
      BY <1>0, <3>1, DeleteTypes DEF TypeOK
    <3>2. CASE order' \in {order, Touched(order, size, k)} /\ UNCHANGED <<size, object>>
      BY <1>0, <3>2, TouchedTypes DEF TypeOK
    <3> QED BY <1>5, <3>1, <3>2 DEF Get
  <2> QED BY <1>0, <1>2, <1>5, <2>1 DEF Get, Disturb, clearVars, TypeOK, OpenHasFile
<1>6. CASE Crash
  <2>1. \A w \in Writers : writer'[w] \in {"new", "gone"}
    BY <1>6 DEF Crash
  <2>2. Holding(1)' = {} /\ Holding(2)' = {}
    BY <2>1 DEF Holding, Held
  <2>3. leases' = Cardinality(Holding(1)') + Cardinality(Holding(2)')
    <3>1. Cardinality(Holding(1)') = 0 /\ Cardinality(Holding(2)') = 0
      BY <2>2, FS_EmptySet
    <3>2. leases' = 0
      BY <1>6 DEF Crash
    <3> QED BY <3>1, <3>2
  <2>4. KeyOf \in [Writers -> Keys] /\ \A w \in Bytes : w \in Writers
    BY CacheConstants DEF Writers
  <2>5. object' \in [Keys -> Files]
    BY <1>0, <1>6, <2>4 DEF Crash, TypeOK, Files
  <2>6. /\ size' \in [Keys -> Nat] /\ order' \subseteq Keys \X Keys /\ used' \in Nat
        /\ whole' \subseteq Writers /\ quota' \in Quotas
        /\ met' \in [clears : BOOLEAN, keys : SUBSET Keys]
    BY <1>0, <1>6 DEF Crash, Disturb, TypeOK, metaVars
  <2>7. /\ tmp' \in [Keys -> Files] /\ part' \subseteq Downloads
        /\ staged' \in [Writers -> Files] /\ fd' \in [Bytes -> Files]
        /\ leases' \in Nat /\ clearing' \in BOOLEAN
        /\ clear' \in [Admins -> {"idle", "wait", "delete", "purge", "reset"}]
    BY <1>6 DEF Crash, Files
  <2>8. writer' \in [Writers -> {"new", "gone"}]
    BY <1>6 DEF Crash
  <2>9. OpenHasFile'
    BY <2>1, <2>4 DEF OpenHasFile
  <2>10. TypeOK'
    BY <2>5, <2>6, <2>7, <2>8 DEF TypeOK
  <2> QED BY <2>3, <2>6, <2>9, <2>10 DEF LeasesMatch
<1>7. CASE UNCHANGED vars
  BY <1>0, <1>2, <1>7 DEF vars, metaVars, fileVars, clearVars, TypeOK, OpenHasFile
<1> QED BY <1>1, <1>3, <1>4, <1>5, <1>6, <1>7 DEF Next

(* At the start nobody holds a lease. *)
LEMMA LeaseInit ==
  ASSUME Init
  PROVE  LeaseInv
<1>1. Quotas \subseteq Nat
  BY CacheConstants
<1>2. met \in [clears : BOOLEAN, keys : SUBSET Keys] /\ used \in Nat /\ OpenHasFile
  BY CacheConstants DEF Init, OpenHasFile, Writers
<1>4. TypeOK
  BY <1>1, <1>2 DEF Init, TypeOK, Files
<1>3. Holding(1) = {} /\ Holding(2) = {}
  BY DEF Init, Holding, Held
<1>5. leases = 0 /\ Cardinality(Holding(1)) = 0 /\ Cardinality(Holding(2)) = 0
  BY <1>3, FS_EmptySet DEF Init
<1> QED BY <1>2, <1>4, <1>5 DEF LeaseInv, LeasesMatch

-----------------------------------------------------------------------------
(* Clearing *)

(* When no lease is out, no writer holds one: what Clear waits for. *)
LEMMA NoLeases ==
  ASSUME LeasesMatch, leases = 0, NEW w \in Writers
  PROVE  Held(w) = 0
<1>1. Holding(1) \subseteq Writers /\ Holding(2) \subseteq Writers
  BY DEF Holding
<1>2. IsFiniteSet(Holding(1)) /\ IsFiniteSet(Holding(2))
  BY <1>1, CacheConstants, FS_Subset
<1>3. Cardinality(Holding(1)) \in Nat /\ Cardinality(Holding(2)) \in Nat
  BY <1>2, FS_CardinalityType
<1>4. Cardinality(Holding(1)) = 0 /\ Cardinality(Holding(2)) = 0
  BY <1>3 DEF LeasesMatch
<1>5. Holding(1) = {}
  BY <1>2, <1>4, FS_EmptySet
<1> QED BY <1>5, HeldCounted DEF Holding

(* A writer without a lease gets one only while nothing is cleared, and    *)
(* writes no entry.                                                        *)
LEMMA BarredWriter ==
  ASSUME TypeOK, NEW w \in Writers, WriterStep(w), Held(w) = 0, clearing
  PROVE  Held(w)' = 0 /\ UNCHANGED metaVars
<1>1. w \in Bytes <=> w \notin Downloads
  BY CacheConstants DEF Writers
<1>2. writer[w] \in {"new", "open", "written", "cleanup", "gone"}
  BY DEF Held, TypeOK
<1>3. CASE Start(w)
  BY <1>1, <1>2, <1>3 DEF Start, HoldWrite, Goto, Held, TypeOK
<1>4. CASE OpenBytes(w) \/ WriteBytes(w) \/ CleanUp(w)
  BY <1>2, <1>4 DEF OpenBytes, WriteBytes, CleanUp, Goto, Held, TypeOK, metaVars
<1>5. CASE PutHold(w)
  BY <1>1, <1>2, <1>5 DEF PutHold, HoldWrite, Ready, Goto, Held, TypeOK, metaVars
<1>6. CASE Abort(w) \/ Stage(w) \/ StageFails(w) \/ Commit(w) \/ Return(w)
  BY <1>2, <1>6 DEF Abort, Stage, StageFails, Commit, Return, Goto
<1> QED BY <1>3, <1>4, <1>5, <1>6 DEF WriterStep

(* A step of a writer disturbs no clear. *)
LEMMA ClearUndisturbed ==
  ASSUME LeaseInv, OneClear, NEW w \in Writers, WriterStep(w)
  PROVE  OneClear'
<1>0. TypeOK
  BY DEF LeaseInv, LeasesMatch
<1>1. UNCHANGED clearVars /\ met'.clears = met.clears
  BY <1>0 DEF WriterStep, Start, Abort, OpenBytes, WriteBytes, PutHold, Stage, StageFails,
              Commit, Return, CleanUp, clearVars, TypeOK
<1>2. clear' = clear /\ clearing' = clearing
  BY <1>1 DEF clearVars
<1>3. ASSUME NEW a \in Admins, ~met.clears, clear[a] \in {"delete", "purge", "reset"}
      PROVE  (\A v \in Writers : Held(v)' = 0) /\ UNCHANGED metaVars
  <2>1. clearing /\ \A v \in Writers : Held(v) = 0
    BY <1>3 DEF OneClear
  <2>2. Held(w)' = 0 /\ UNCHANGED metaVars
    BY <1>0, <2>1, BarredWriter
  <2>3. \A v \in Writers : v # w => Held(v)' = Held(v)
    BY <1>0, WriterLeases
  <2> QED BY <2>1, <2>2, <2>3
<1>4. UNCHANGED metaVars => Entries(size)' = Entries(size)
  BY DEF metaVars, Entries
<1> QED BY <1>1, <1>2, <1>3, <1>4 DEF OneClear

(* Every step keeps one clear at a time alone. *)
LEMMA ClearStepKeeps ==
  ASSUME LeaseInv, OneClear, [Next]_vars
  PROVE  OneClear'
<1>0. TypeOK /\ LeasesMatch
  BY DEF LeaseInv, LeasesMatch
<1>1. ASSUME UNCHANGED writer
      PROVE  \A w \in Writers : Held(w)' = Held(w)
  BY <1>1 DEF Held
<1>2. ASSUME NEW w \in Writers, WriterStep(w)
      PROVE  OneClear'
  BY <1>2, ClearUndisturbed
<1>3. ASSUME NEW a \in Admins, BeginClear(a)
      PROVE  OneClear'
  <2>1. /\ clear[a] = "idle" /\ clear' = [clear EXCEPT ![a] = "wait"]
        /\ clearing' = TRUE /\ met'.clears = (met.clears \/ clearing)
    BY <1>0, <1>3 DEF BeginClear, ClearStep, TypeOK
  <2>2. ~met'.clears => \A b \in Admins : clear[b] = "idle"
    BY <2>1 DEF OneClear
  <2> QED BY <1>0, <2>1, <2>2 DEF OneClear, TypeOK
<1>4. ASSUME NEW a \in Admins, AwaitWriters(a)
      PROVE  OneClear'
  <2>1. \A w \in Writers : Held(w)' = 0
    BY <1>0, <1>1, <1>4, NoLeases DEF AwaitWriters
  <2>2. /\ clear[a] = "wait" /\ clear' = [clear EXCEPT ![a] = "delete"]
        /\ UNCHANGED <<size, clearing, met>>
    BY <1>4 DEF AwaitWriters, ClearStep, metaVars
  <2> QED BY <1>0, <2>1, <2>2 DEF OneClear, TypeOK, Entries
<1>5. ASSUME NEW a \in Admins, DeleteAll(a)
      PROVE  OneClear'
  <2>1. /\ clear[a] = "delete" /\ clear' = [clear EXCEPT ![a] = "purge"]
        /\ UNCHANGED <<writer, clearing, met>>
    BY <1>5 DEF DeleteAll, ClearStep
  <2>2. Entries(size)' = {}
    BY <1>5 DEF DeleteAll, Delete, Without, Entries
  <2> QED BY <1>0, <1>1, <2>1, <2>2 DEF OneClear, TypeOK
<1>6. ASSUME NEW a \in Admins, PurgeTempFiles(a)
      PROVE  OneClear'
  <2>1. /\ clear[a] = "purge" /\ clear' = [clear EXCEPT ![a] = "reset"]
        /\ UNCHANGED <<size, writer, clearing, met>>
    BY <1>6 DEF PurgeTempFiles, ClearStep, metaVars
  <2> QED BY <1>0, <1>1, <2>1 DEF OneClear, TypeOK, Entries
<1>7. ASSUME NEW a \in Admins, EndClear(a)
      PROVE  OneClear'
  <2>1. /\ clear[a] = "reset" /\ clear' = [clear EXCEPT ![a] = "idle"]
        /\ UNCHANGED <<size, writer, met>>
    BY <1>7 DEF EndClear, ClearStep, metaVars
  <2>2. ~met'.clears => \A b \in Admins : clear'[b] = "idle"
    BY <1>0, <2>1 DEF OneClear, TypeOK
  <2> QED BY <2>2 DEF OneClear
<1>8. ASSUME UNCHANGED <<writer, clear, clearing, met>>, Entries(size)' \subseteq Entries(size)
      PROVE  OneClear'
  BY <1>1, <1>8 DEF OneClear
<1>9. ASSUME NEW q \in Quotas, SetMaxSizeGB(q)
      PROVE  OneClear'
  BY <1>8, <1>9 DEF SetMaxSizeGB, Delete, Without, Entries, clearVars
<1>10. ASSUME NEW k \in Keys, Get(k)
       PROVE  OneClear'
  BY <1>8, <1>10 DEF Get, Delete, Without, Entries, clearVars
<1>11. CASE Crash
  BY <1>11 DEF Crash, OneClear
<1>12. CASE UNCHANGED vars
  BY <1>8, <1>12 DEF vars, metaVars, clearVars
<1> QED BY <1>2, <1>3, <1>4, <1>5, <1>6, <1>7, <1>9, <1>10, <1>11, <1>12 DEF Next, ClearerStep

-----------------------------------------------------------------------------
(* Files *)

FilesInv == FilesOfKey /\ FilesWhole

(* What every step but OpenBytes does with the files: an object is what    *)
(* was staged for its key, what is staged was at the temporary name or is  *)
(* a download's own, and no file loses its content.                        *)
ObjectsFromStaged ==
  \A k \in Keys :
    \/ object'[k] \in {None, object[k]}
    \/ \E w \in Writers : KeyOf[w] = k /\ object'[k] = staged[w]
StagedFromWritten ==
  \A w \in Writers :
    \/ staged'[w] \in {None, staged[w]}
    \/ w \in Bytes /\ writer[w] = "put" /\ staged'[w] = tmp[KeyOf[w]]
    \/ w \in Downloads /\ writer[w] # "new" /\ staged'[w] = w /\ w \in whole'
BytesGoOn ==
  \A w \in Bytes :
    \/ writer'[w] = writer[w] /\ (writer[w] = "open" => fd'[w] = fd[w])
    \/ writer[w] = "open" /\ writer'[w] = "written" /\ fd[w] \in whole'
    \/ writer[w] = "written" /\ writer'[w] = "put"
    \/ /\ writer[w] \notin {"new", "gone"}
       /\ writer'[w] \notin {"new", "open", "written", "put"}
       /\ writer'[w] = "gone" => tmp'[KeyOf[w]] = None
NoOpening ==
  /\ ObjectsFromStaged /\ StagedFromWritten /\ BytesGoOn
  /\ \A k \in Keys : tmp'[k] \in {None, tmp[k]}
  /\ whole \subseteq whole' /\ met'.keys = met.keys
  /\ \A w \in Writers : writer[w] # "new" => writer'[w] # "new"

(* Such a step leaves every file complete that was, or moves complete ones.*)
LEMMA NoOpeningKeeps ==
  ASSUME FilesInv, NoOpening
  PROVE  FilesInv'
<1> USE DEF FilesInv
<1>0. /\ \A w \in Writers : KeyOf[w] \in Keys
      /\ Bytes \subseteq Writers /\ None \notin Writers
  BY CacheConstants DEF Writers
<1>1. ASSUME NEW f, NEW k, Written(f, k)
      PROVE  Written(f, k)'
  BY <1>1 DEF Written, NoOpening
<1>2. FilesOfKey'
  <2>1. ASSUME NEW k \in Keys, object'[k] # None
        PROVE  Written(object[k], k)'
    <3>1. Written(object'[k], k)
      BY <2>1 DEF NoOpening, ObjectsFromStaged, FilesOfKey
    <3> QED BY <3>1 DEF Written, NoOpening
  <2>2. ASSUME NEW k \in Keys, tmp'[k] # None
        PROVE  tmp'[k] \in Bytes /\ Written(tmp[k], k)'
    <3>1. tmp'[k] \in Bytes /\ Written(tmp'[k], k)
      BY <2>2 DEF NoOpening, FilesOfKey
    <3> QED BY <3>1 DEF Written, NoOpening
  <2>3. ASSUME NEW w \in Writers, staged'[w] # None
        PROVE  Written(staged[w], KeyOf[w])'
    <3>1. Written(staged'[w], KeyOf[w])
      BY <1>0, <2>3 DEF NoOpening, StagedFromWritten, FilesOfKey, Written
    <3> QED BY <3>1 DEF Written, NoOpening
  <2>4. ASSUME NEW w \in Bytes, writer'[w] = "open"
        PROVE  Written(fd[w], KeyOf[w])'
    <3>1. writer[w] = "open" /\ fd'[w] = fd[w]
      BY <2>4 DEF NoOpening, BytesGoOn
    <3>2. Written(fd'[w], KeyOf[w])
      BY <3>1 DEF FilesOfKey
    <3> QED BY <3>2 DEF Written, NoOpening
  <2> QED BY <2>1, <2>2, <2>3, <2>4 DEF FilesOfKey
<1>3. ASSUME NEW k \in Keys \ met'.keys
      PROVE  Alone(k)'
  <2>1. Alone(k) /\ whole \subseteq whole'
    BY DEF NoOpening, FilesWhole
  <2>2. Writing(k)' \subseteq Writing(k)
    BY DEF NoOpening, BytesGoOn, Writing
  <2>3. tmp'[k] # None => tmp'[k] \in Writing(k)'
    <3>1. SUFFICES ASSUME tmp'[k] # None
                   PROVE  tmp'[k] \in Writing(k)'
      OBVIOUS
    <3>2. tmp'[k] = tmp[k] /\ tmp[k] \in Writing(k)
      BY <2>1, <3>1 DEF NoOpening, Alone
    <3>3. tmp[k] \in Bytes /\ KeyOf[tmp[k]] = k /\ writer[tmp[k]] \notin {"new", "gone"}
      BY <3>2 DEF Writing
    <3>4. writer'[tmp[k]] \notin {"new", "gone"}
      BY <3>1, <3>3 DEF NoOpening, BytesGoOn
    <3> QED BY <3>2, <3>3, <3>4 DEF Writing
  <2>4. ASSUME NEW w \in Writing(k)'
        PROVE  /\ writer'[w] = "open" => fd'[w] = w
               /\ writer'[w] \in {"written", "put"} => w \in whole'
    <3>1. w \in Writing(k) /\ w \in Bytes
      BY <2>2 DEF Writing
    <3> QED BY <2>1, <3>1 DEF Alone, NoOpening, BytesGoOn
  <2>5. ASSUME NEW w \in Writers, KeyOf[w] = k, staged'[w] # None
        PROVE  staged'[w] \in whole'
    <3>1. CASE staged'[w] \in {None, staged[w]}
      BY <2>1, <2>5, <3>1 DEF Alone
    <3>2. CASE w \in Bytes /\ writer[w] = "put" /\ staged'[w] = tmp[k]
      <4>1. w \in Writing(k) /\ tmp[k] \in Writing(k)
        BY <2>1, <2>5, <3>2 DEF Writing, Alone
      <4>2. tmp[k] = w
        BY <2>1, <4>1 DEF Alone
      <4> QED BY <2>1, <3>2, <4>1, <4>2 DEF Alone
    <3> QED BY <2>5, <3>1, <3>2 DEF NoOpening, StagedFromWritten
  <2>6. object'[k] # None => object'[k] \in whole'
    BY <2>1 DEF Alone, NoOpening, ObjectsFromStaged
  <2> QED BY <2>1, <2>2, <2>3, <2>4, <2>5, <2>6 DEF Alone
<1> QED BY <1>2, <1>3 DEF FilesWhole

(* PutBytes empties only the file at its temporary name, and that one is   *)
(* at no other name unless another PutBytes of the key is under way.       *)
LEMMA OpenBytesKeeps ==
  ASSUME TypeOK, FilesInv, NEW w \in Writers, OpenBytes(w)
  PROVE  FilesInv'
<1> USE DEF FilesInv
<1> DEFINE k == KeyOf[w]
           f == IF tmp[k] = None THEN w ELSE tmp[k]
<1>0. /\ \A v \in Writers : KeyOf[v] \in Keys
      /\ Bytes \subseteq Writers /\ None \notin Writers
  BY CacheConstants DEF Writers
<1>1. /\ w \in Bytes /\ writer[w] = "new" /\ writer' = [writer EXCEPT ![w] = "open"]
      /\ tmp' = [tmp EXCEPT ![k] = f] /\ fd' = [fd EXCEPT ![w] = f]
      /\ whole' = whole \ {f}
      /\ UNCHANGED <<object, staged>>
  BY DEF OpenBytes, Goto
<1>2. met'.keys = IF Writing(k) = {} THEN met.keys ELSE met.keys \cup {k}
  BY DEF OpenBytes, TypeOK
<1>3. /\ k \in Keys /\ f \in Bytes /\ KeyOf[f] = k /\ writer'[f] # "new"
      /\ \A v \in Writers : writer'[v] = IF v = w THEN "open" ELSE writer[v]
      /\ \A j \in Keys : tmp'[j] = IF j = k THEN f ELSE tmp[j]
      /\ \A v \in Bytes : fd'[v] = IF v = w THEN f ELSE fd[v]
  BY <1>0, <1>1 DEF TypeOK, FilesOfKey, Written
<1> HIDE DEF f
<1>4. FilesOfKey'
  BY <1>0, <1>1, <1>3 DEF FilesOfKey, Written
<1>5. ASSUME NEW j \in Keys \ met'.keys
      PROVE  Alone(j)'
  <2>1. j \notin met.keys /\ Alone(j)
    BY <1>2 DEF FilesWhole
  <2>2. CASE j # k
    <3>1. Writing(j)' = Writing(j) /\ w \notin Writing(j) /\ f \notin Writing(j)
      BY <1>0, <1>1, <1>3, <2>2 DEF Writing
    <3>2. /\ object[j] # None => object[j] # f
          /\ \A v \in Writers : KeyOf[v] = j /\ staged[v] # None => staged[v] # f
      BY <1>3, <2>2 DEF FilesOfKey, Written
    <3>3. tmp'[j] = tmp[j] /\ \A v \in Writing(j) : fd'[v] = fd[v] /\ writer'[v] = writer[v]
      BY <1>0, <1>3, <2>2, <3>1 DEF Writing
    <3> QED BY <1>1, <2>1, <3>1, <3>2, <3>3 DEF Alone
  <2>3. CASE j = k
    <3>1. Writing(k) = {} /\ tmp[k] = None
      BY <1>2, <2>1, <2>3 DEF Alone
    <3>2. f = w
      BY <3>1 DEF f
    <3>3. Writing(k)' = {w}
      BY <1>0, <1>1, <1>3, <3>1 DEF Writing
    <3>4. /\ object[k] # None => object[k] # w
          /\ \A v \in Writers : KeyOf[v] = k /\ staged[v] # None => staged[v] # w
      BY <1>1, <1>3 DEF FilesOfKey, Written
    <3> QED BY <1>1, <1>3, <2>1, <2>3, <3>2, <3>3, <3>4 DEF Alone
  <2> QED BY <2>2, <2>3
<1> QED BY <1>4, <1>5 DEF FilesWhole

(* A step of a writer other than OpenBytes. *)
LEMMA WriterNoOpening ==
  ASSUME LeaseInv, FilesInv, NEW w \in Writers, WriterStep(w), ~OpenBytes(w)
  PROVE  NoOpening
<1> USE DEF NoOpening, ObjectsFromStaged, StagedFromWritten, BytesGoOn
<1>0. /\ TypeOK /\ KeyOf[w] \in Keys /\ Bytes \subseteq Writers
      /\ (w \in Bytes <=> w \notin Downloads)
  BY CacheConstants DEF Writers, LeaseInv, LeasesMatch
<1>1. ASSUME NEW from, NEW to, Goto(w, from, to), to # "new"
      PROVE  /\ writer[w] = from /\ writer'[w] = to
             /\ \A v \in Writers : v # w => writer'[v] = writer[v]
             /\ \A v \in Writers : writer[v] # "new" => writer'[v] # "new"
  BY <1>0, <1>1, GotoMoves
<1>2. CASE Start(w)
  BY <1>0, <1>1, <1>2 DEF Start, TypeOK
<1>3. CASE Abort(w)
  BY <1>0, <1>1, <1>3 DEF Abort, TypeOK, LeaseInv, OpenHasFile
<1>4. CASE WriteBytes(w)
  BY <1>0, <1>1, <1>4 DEF WriteBytes, TypeOK
<1>5. CASE PutHold(w)
  BY <1>0, <1>1, <1>5 DEF PutHold, TypeOK, Ready
<1>6. CASE Stage(w)
  BY <1>0, <1>1, <1>6 DEF Stage, TypeOK
<1>7. CASE StageFails(w)
  BY <1>0, <1>1, <1>7 DEF StageFails, TypeOK
<1>8. CASE Commit(w)
  BY <1>0, <1>1, <1>8 DEF Commit, TypeOK, Delete
<1>9. CASE Return(w)
  BY <1>0, <1>1, <1>9 DEF Return, TypeOK, fileVars, LeaseInv, OpenHasFile
<1>10. CASE CleanUp(w)
  BY <1>0, <1>1, <1>10 DEF CleanUp, TypeOK
<1> QED BY <1>2, <1>3, <1>4, <1>5, <1>6, <1>7, <1>8, <1>9, <1>10 DEF WriterStep

(* What eviction and deletion do with the objects: they remove some. *)
LEMMA DeleteRemoves ==
  ASSUME NEW s, NEW o, NEW gone, Delete(s, o, object, gone)
  PROVE  \A k \in Keys : object'[k] \in {None, object[k]}
BY DEF Delete

(* Every step keeps the files whole. *)
LEMMA FilesStep ==
  ASSUME LeaseInv, FilesInv, [Next]_vars
  PROVE  FilesInv'
<1> USE DEF NoOpening, ObjectsFromStaged, StagedFromWritten, BytesGoOn
<1>0. TypeOK /\ Bytes \subseteq Writers
  BY DEF LeaseInv, LeasesMatch, Writers
<1>1. ASSUME NEW w \in Writers, WriterStep(w)
      PROVE  FilesInv'
  <2>1. CASE OpenBytes(w)
    BY <1>0, <2>1, OpenBytesKeeps
  <2>2. CASE ~OpenBytes(w)
    BY <1>1, <2>2, WriterNoOpening, NoOpeningKeeps
  <2> QED BY <2>1, <2>2
<1>2. ASSUME NEW a \in Admins, BeginClear(a) \/ ClearerStep(a)
      PROVE  FilesInv'
  <2>1. CASE BeginClear(a)
    <3>1. NoOpening
      BY <1>0, <2>1 DEF BeginClear, fileVars, TypeOK
    <3> QED BY <3>1, NoOpeningKeeps
  <2>2. CASE AwaitWriters(a) \/ EndClear(a)
    <3>1. NoOpening
      BY <2>2 DEF AwaitWriters, EndClear, fileVars
    <3> QED BY <3>1, NoOpeningKeeps
  <2>3. CASE DeleteAll(a)
    <3>1. NoOpening
      BY <2>3, DeleteRemoves DEF DeleteAll
    <3> QED BY <3>1, NoOpeningKeeps
  <2>4. CASE PurgeTempFiles(a)
    <3>1. NoOpening
      BY <2>4 DEF PurgeTempFiles
    <3> QED BY <3>1, NoOpeningKeeps
  <2> QED BY <1>2, <2>1, <2>2, <2>3, <2>4 DEF ClearerStep
<1>3. ASSUME NEW q \in Quotas, SetMaxSizeGB(q)
      PROVE  FilesInv'
  <2>1. NoOpening
    BY <1>3, DeleteRemoves DEF SetMaxSizeGB
  <2> QED BY <2>1, NoOpeningKeeps
<1>4. ASSUME NEW k \in Keys, Get(k)
      PROVE  FilesInv'
  <2>1. NoOpening
    BY <1>4, DeleteRemoves DEF Get
  <2> QED BY <2>1, NoOpeningKeeps
<1>5. CASE Crash
  <2>1. NoOpening
    <3>1. KeyOf \in [Writers -> Keys]
      BY CacheConstants
    <3>2. ObjectsFromStaged
      BY <1>0, <1>5, <3>1 DEF Crash, TypeOK
    <3>3. StagedFromWritten /\ (\A k \in Keys : tmp'[k] = None)
      BY <1>5 DEF Crash
    <3>4. BytesGoOn
      BY <1>0, <1>5, <3>1, <3>3 DEF Crash
    <3> QED BY <1>5, <3>2, <3>3, <3>4 DEF Crash
  <2> QED BY <2>1, NoOpeningKeeps
<1>6. CASE UNCHANGED vars
  <2>1. NoOpening
    BY <1>6 DEF vars, fileVars
  <2> QED BY <2>1, NoOpeningKeeps
<1> QED BY <1>1, <1>2, <1>3, <1>4, <1>5, <1>6 DEF Next

-----------------------------------------------------------------------------
(* The theorems *)

(* The invariant holds at the start. *)
LEMMA StoreInit ==
  ASSUME Init
  PROVE  StoreInv
<1>1. LeaseInv
  BY LeaseInit
<1>2. size \in [Keys -> Nat] /\ Entries(size) = {} /\ quota \in Nat
  BY CacheConstants DEF Init, Entries
<1>3. Total(size) = 0
  BY <1>2, NothingTaken
<1>4. OrderStrict /\ WithinQuota
  BY <1>2, <1>3 DEF Init, OrderStrict, Strict, WithinQuota
<1>5. OneClear
  BY DEF Init, OneClear
<1>6. FilesOfKey
  BY DEF Init, FilesOfKey, Writers
<1>7. FilesWhole
  BY DEF Init, FilesWhole, Alone, Writing, Writers
<1> QED BY <1>1, <1>4, <1>5, <1>6, <1>7 DEF StoreInv, LeaseInv

(* Every step keeps the invariant. *)
LEMMA StoreStep ==
  ASSUME StoreInv, [Next]_vars
  PROVE  StoreInv'
<1>1. LeaseInv /\ TypeOK /\ FilesInv
  BY DEF StoreInv, LeaseInv, LeasesMatch, FilesInv
<1>2. LeaseInv'
  BY <1>1, LeaseStep
<1>3. OrderStrict' /\ WithinQuota'
  BY <1>1, QuotaStep DEF StoreInv
<1>4. OneClear'
  BY <1>1, ClearStepKeeps DEF StoreInv
<1>5. FilesInv'
  BY <1>1, FilesStep
<1> QED BY <1>2, <1>3, <1>4, <1>5 DEF StoreInv, LeaseInv, FilesInv

(* The invariant the theorems below are read from. *)
THEOREM StoreInvariant == Spec => []StoreInv
<1>1. Init => StoreInv
  BY StoreInit
<1>2. StoreInv /\ [Next]_vars => StoreInv'
  BY StoreStep
<1> QED BY <1>1, <1>2, PTL DEF Spec

(* Clear waits for exactly the writers that hold a lease (HoldWrite and    *)
(* ReleaseWrite): none is forgotten on any error path of Put or a download.*)
THEOREM LeasesAreHeld == Spec => []LeasesMatch
<1>1. StoreInv => LeasesMatch
  BY DEF StoreInv
<1> QED BY <1>1, StoreInvariant, PTL

(* evictLocked: after every Put, deletion and change of the quota the      *)
(* entries fit, or a single one is left.                                   *)
THEOREM QuotaIsKept == Spec => []WithinQuota
<1>1. StoreInv => WithinQuota
  BY DEF StoreInv
<1> QED BY <1>1, StoreInvariant, PTL

(* Clear: once the entries are deleted nothing is written until it ends.   *)
THEOREM ClearEmpties == Spec => []ClearedIsEmpty
<1>1. StoreInv => ClearedIsEmpty
  BY DEF StoreInv, OneClear, ClearedIsEmpty
<1> QED BY <1>1, StoreInvariant, PTL

(* A reader of a cached key finds a complete file (Put, PutBytes), unless  *)
(* two PutBytes of the key overlapped.                                     *)
THEOREM ReadersFindWhole == Spec => []CachedIsWhole
<1>1. StoreInv => CachedIsWhole
  BY DEF StoreInv, FilesWhole, Alone, CachedIsWhole
<1> QED BY <1>1, StoreInvariant, PTL

(* Put's own eviction spares the entry it has just written. *)
THEOREM PutSurvives == Spec => FreshSurvives
<1> DEFINE Fresh ==
      \A w \in Writers :
        writer[w] = "staged" /\ writer'[w] = "returning" /\ ~clearing /\ used' = used
          => size'[KeyOf[w]] = SizeOf[w] /\ object'[KeyOf[w]] = staged[w]
<1>1. ASSUME StoreInv, [Next]_vars
      PROVE  [Fresh]_vars
  <2>0. TypeOK /\ used \in Nat
    BY <1>1 DEF StoreInv, LeasesMatch
  <2>1. SUFFICES ASSUME NEW w \in Writers, writer[w] = "staged", writer'[w] = "returning",
                        ~clearing, used' = used
                 PROVE  size'[KeyOf[w]] = SizeOf[w] /\ object'[KeyOf[w]] = staged[w]
    OBVIOUS
  <2>2. Commit(w)
    <3>1. ASSUME NEW v \in Writers, WriterStep(v)
          PROVE  Commit(w)
      <4>1. v = w
        BY <2>0, <2>1, <3>1, WriterLeases
      <4> QED BY <2>1, <3>1, <4>1
              DEF WriterStep, Start, Abort, OpenBytes, WriteBytes, PutHold, Ready, Stage,
                  StageFails, Return, CleanUp, Goto
    <3>2. writer' # writer
      BY <2>1
    <3>3. ~Crash
      BY <2>1 DEF Crash
    <3>4. PICK v \in Writers : WriterStep(v)
      BY <1>1, <3>2, <3>3
         DEF Next, vars, BeginClear, ClearerStep, AwaitWriters, DeleteAll, PurgeTempFiles,
             EndClear, SetMaxSizeGB, Get
    <3> QED BY <3>1, <3>4
  <2> DEFINE k == KeyOf[w]
             s == [size EXCEPT ![k] = SizeOf[w]]
             gone == Evicted(s, Touched(order, s, k), quota, {k})
  <2>3. Delete(s, Touched(order, s, k), [object EXCEPT ![k] = staged[w]], gone)
    BY <2>0, <2>1, <2>2 DEF Commit, Disturb
  <2>4. k \notin gone
    BY DEF Evicted
  <2>5. k \in Keys
    BY CacheConstants
  <2> HIDE DEF gone
  <2> QED BY <2>0, <2>3, <2>4, <2>5 DEF Delete, Without, TypeOK
<1>2. StoreInv /\ [Next]_vars => [Fresh]_vars
  BY <1>1
<1>3. FreshSurvives <=> [][Fresh]_vars
  BY DEF FreshSurvives
<1> HIDE DEF Fresh
<1> QED BY <1>2, <1>3, StoreInvariant, PTL DEF Spec
=============================================================================
