--------------------------- MODULE ResolverProofs ---------------------------
(***************************************************************************)
(* Proofs about what the prefetch expands, for every registry, index and   *)
(* package that the parameters admit: the dependencies of what is          *)
(* prefetched are prefetched too, the version that is chosen is the        *)
(* highest the constraint admits, although the code compares versions by   *)
(* rules of its own, and a version that a POM leaves out is that of the    *)
(* nearest POM which manages it.                                           *)
(***************************************************************************)
EXTENDS MCServices, Integers, FiniteSetTheorems, WellFoundedInduction, TLAPS

-----------------------------------------------------------------------------
(* The expansion of NPM packages *)

(* A finite set that is strictly ordered has an element none is above. *)
LEMMA HighestExists ==
  ASSUME NEW S, IsFiniteSet(S), S # {}, NEW above,
         \A x \in S : <<x, x>> \notin above,
         \A x, y, z \in S : <<x, y>> \in above /\ <<y, z>> \in above => <<x, z>> \in above
  PROVE  \E x \in S : \A y \in S : <<y, x>> \notin above
<1> DEFINE higher(k) == {j \in S : <<j, k>> \in above}
           highers == {higher(k) : k \in S}
<1>1. \A k \in S : IsFiniteSet(higher(k)) /\ higher(k) \subseteq S
  BY FS_Subset
<1>2. highers \subseteq FiniteSubsetsOf(S) /\ highers # {}
  <2>1. ASSUME NEW d \in highers PROVE d \in FiniteSubsetsOf(S)
    <3>1. PICK k \in S : d = higher(k)
      OBVIOUS
    <3>2. IsFiniteSet(higher(k)) /\ higher(k) \subseteq S
      BY <1>1
    <3> QED BY <3>1, <3>2 DEF FiniteSubsetsOf
  <2>2. PICK k \in S : TRUE
    OBVIOUS
  <2>3. higher(k) \in highers
    OBVIOUS
  <2> HIDE DEF highers
  <2> QED BY <2>1, <2>3
<1>3. PICK b \in highers : \A d \in highers : <<d, b>> \notin StrictSubsetOrdering(S)
  <2> HIDE DEF highers
  <2> QED BY <1>2, FS_StrictSubsetOrderingWellFounded, WFMin
<1>4. PICK c \in S : b = higher(c)
  OBVIOUS
<1>5. ASSUME NEW j \in S, <<j, c>> \in above
      PROVE  FALSE
  <2>1. higher(j) \subseteq higher(c)
    BY <1>5
  <2>2. j \in higher(c) /\ j \notin higher(j)
    BY <1>5
  <2>3. higher(j) # higher(c)
    BY <2>2
  <2>4. <<higher(j), higher(c)>> \in StrictSubsetOrdering(S)
    <3> HIDE DEF higher
    <3> QED BY <1>1, <2>1, <2>3 DEF StrictSubsetOrdering
  <2> QED BY <1>3, <1>4, <2>4
<1> QED BY <1>4, <1>5

-----------------------------------------------------------------------------
LeastOf(Y) == CHOOSE x \in Y : \A y \in Y : x <= y

(* The least number of a set is what it seems. *)
LEMMA LeastIs ==
  ASSUME NEW Y \in SUBSET Nat, NEW x \in Y, \A y \in Y : x <= y
  PROVE  LeastOf(Y) = x
<1>1. LeastOf(Y) \in Y /\ \A y \in Y : LeastOf(Y) <= y
  BY DEF LeastOf
<1>2. x \in Nat /\ LeastOf(Y) \in Nat /\ x <= LeastOf(Y) /\ LeastOf(Y) <= x
  BY <1>1
<1> QED BY <1>2

(* The order of npm's versions, number by number *)
Lower(v, w) ==
  \/ v.n[1] < w.n[1]
  \/ v.n[1] = w.n[1] /\ v.n[2] < w.n[2]
  \/ v.n[1] = w.n[1] /\ v.n[2] = w.n[2] /\ v.n[3] < w.n[3]
  \/ /\ v.n[1] = w.n[1] /\ v.n[2] = w.n[2] /\ v.n[3] = w.n[3]
     /\ v.pre # 0 /\ (w.pre = 0 \/ v.pre < w.pre)

(* The comparison of the code looks for the first number that differs. *)
LEMMA LessIsLower ==
  ASSUME NEW v \in J!Versions, NEW w \in J!Versions
  PROVE  J!npmVersionLess(v, w) <=> Lower(v, w)
<1> DEFINE I == {k \in 1..Len(<<1, 2, 3>>) : v.n[<<1, 2, 3>>[k]] # w.n[<<1, 2, 3>>[k]]}
           first == IF I # {} THEN LeastOf(I) ELSE 0
<1>1. \A k \in 1..3 : v.n[k] \in Nat /\ w.n[k] \in Nat
  BY DEF J!Versions
<1>2. v.pre \in Nat /\ w.pre \in Nat
  BY DEF J!Versions
<1>3. J!npmVersionLess(v, w) <=>
        IF first # 0 THEN v.n[first] < w.n[first] ELSE v.pre # 0 /\ (w.pre = 0 \/ v.pre < w.pre)
  BY DEF J!npmVersionLess, J!SelectInSeq, J!Min, LeastOf
<1>4. I = {k \in 1..3 : v.n[k] # w.n[k]}
  <2>1. \A k \in 1..3 : <<1, 2, 3>>[k] = k
    OBVIOUS
  <2> QED BY <2>1
<1> HIDE DEF I
<1>5. /\ v.n[1] # w.n[1] => first = 1
      /\ v.n[1] = w.n[1] /\ v.n[2] # w.n[2] => first = 2
      /\ v.n[1] = w.n[1] /\ v.n[2] = w.n[2] /\ v.n[3] # w.n[3] => first = 3
      /\ v.n[1] = w.n[1] /\ v.n[2] = w.n[2] /\ v.n[3] = w.n[3] => first = 0
  <2>0. I \in SUBSET Nat
    BY <1>4
  <2>1. v.n[1] = w.n[1] /\ v.n[2] = w.n[2] /\ v.n[3] = w.n[3] => I = {}
    BY <1>4
  <2>2. ASSUME v.n[1] # w.n[1] PROVE first = 1
    <3> 1 \in I /\ \A y \in I : 1 <= y
      BY <1>4, <2>2
    <3> QED BY <2>0, LeastIs
  <2>3. ASSUME v.n[1] = w.n[1], v.n[2] # w.n[2] PROVE first = 2
    <3> 2 \in I /\ \A y \in I : 2 <= y
      BY <1>4, <2>3
    <3> QED BY <2>0, LeastIs
  <2>4. ASSUME v.n[1] = w.n[1], v.n[2] = w.n[2], v.n[3] # w.n[3] PROVE first = 3
    <3> 3 \in I /\ \A y \in I : 3 <= y
      BY <1>4, <2>4
    <3> QED BY <2>0, LeastIs
  <2> QED BY <2>1, <2>2, <2>3, <2>4
<1> HIDE DEF first
<1> QED BY <1>1, <1>2, <1>3, <1>5 DEF Lower

(* So does semver's, where a version without pre-release is above those with one *)
LEMMA BelowIsLower ==
  ASSUME NEW v \in J!Versions, NEW w \in J!Versions
  PROVE  J!Below(J!PlaceOf(v), J!PlaceOf(w)) <=> Lower(v, w)
<1> DEFINE p == J!PlaceOf(v)
           q == J!PlaceOf(w)
<1>0. \A k \in 1..3 : v.n[k] \in Nat /\ w.n[k] \in Nat
  BY DEF J!Versions
<1>1. v.pre \in Nat /\ w.pre \in Nat
  BY DEF J!Versions
<1>2. /\ p[1] = v.n[1] /\ p[2] = v.n[2] /\ p[3] = v.n[3] /\ p[4] = (IF v.pre = 0 THEN 1 ELSE 0)
      /\ p[5] = v.pre
      /\ q[1] = w.n[1] /\ q[2] = w.n[2] /\ q[3] = w.n[3] /\ q[4] = (IF w.pre = 0 THEN 1 ELSE 0)
      /\ q[5] = w.pre
  BY DEF J!PlaceOf, J!Place
<1> HIDE DEF p, q
<1>3. J!Below(p, q) <=>
        \/ p[1] < q[1]
        \/ p[1] = q[1] /\ p[2] < q[2]
        \/ p[1] = q[1] /\ p[2] = q[2] /\ p[3] < q[3]
        \/ p[1] = q[1] /\ p[2] = q[2] /\ p[3] = q[3] /\ p[4] < q[4]
        \/ p[1] = q[1] /\ p[2] = q[2] /\ p[3] = q[3] /\ p[4] = q[4] /\ p[5] < q[5]
  BY DEF J!Below
<1> QED BY <1>0, <1>1, <1>2, <1>3 DEF Lower, p, q

(* Equal places, equal versions *)
LEMMA PlaceDetermines ==
  ASSUME NEW v \in J!Versions, NEW w \in J!Versions
  PROVE  (J!PlaceOf(v) = J!PlaceOf(w)) <=> (v = w)
<1>1. /\ v = [n |-> v.n, pre |-> v.pre] /\ v.n = <<v.n[1], v.n[2], v.n[3]>>
      /\ w = [n |-> w.n, pre |-> w.pre] /\ w.n = <<w.n[1], w.n[2], w.n[3]>>
  BY DEF J!Versions
<1>2. J!PlaceOf(v) = J!PlaceOf(w) =>
        v.n[1] = w.n[1] /\ v.n[2] = w.n[2] /\ v.n[3] = w.n[3] /\ v.pre = w.pre
  BY DEF J!PlaceOf, J!Place
<1> QED BY <1>1, <1>2

ReadableClause(c) ==
  /\ c.op \in {"^", "~", ">=", "<=", ">", "<", "="}
  /\ c.base \in J!Versions
  /\ ~(c.op = "^" /\ c.base.n[1] = 0)

(* The first two of three numbers *)
LEMMA FirstTwo ==
  ASSUME NEW t \in Nat \X Nat \X Nat
  PROVE  SubSeq(t, 1, 2) = <<t[1], t[2]>>
<1> DEFINE s == SubSeq(t, 1, 2)
<1>1. t \in Seq(Nat) /\ Len(t) = 3
  <2>1. PICK x \in Nat, y \in Nat, z \in Nat : t = <<x, y, z>>
    OBVIOUS
  <2> QED BY <2>1
<1>2. s \in Seq(Nat) /\ Len(s) = 2 /\ s[1] = t[1] /\ s[2] = t[2]
  BY <1>1
<1> HIDE DEF s
<1>3. s = <<s[1], s[2]>>
  BY <1>2
<1> QED BY <1>2, <1>3 DEF s

(* What the code accepts of a version is the interval that semver means. *)
LEMMA ClauseIsInterval ==
  ASSUME NEW v \in J!Versions, NEW c, ReadableClause(c)
  PROVE  J!npmVersionSatisfiesOne(v, c) <=> J!Within(v, c)
<1> DEFINE b == c.base
<1>0. b \in J!Versions
  BY DEF ReadableClause
<1>1. /\ v.n[1] \in Nat /\ v.n[2] \in Nat /\ v.n[3] \in Nat /\ v.pre \in Nat
      /\ b.n[1] \in Nat /\ b.n[2] \in Nat /\ b.n[3] \in Nat /\ b.pre \in Nat
  BY <1>0 DEF J!Versions
<1>2. /\ J!npmVersionLess(v, b) <=> Lower(v, b)
      /\ J!npmVersionLess(b, v) <=> Lower(b, v)
      /\ J!Below(J!PlaceOf(v), J!PlaceOf(b)) <=> Lower(v, b)
      /\ J!Below(J!PlaceOf(b), J!PlaceOf(v)) <=> Lower(b, v)
      /\ (J!PlaceOf(v) = J!PlaceOf(b)) <=> (v = b)
  BY <1>0, LessIsLower, BelowIsLower, PlaceDetermines
<1>3. ASSUME NEW maj \in Nat, NEW min \in Nat
      PROVE  J!Below(J!PlaceOf(v), J!Zero(maj, min)) <=>
               v.n[1] < maj \/ (v.n[1] = maj /\ v.n[2] < min)
  <2> DEFINE p == J!PlaceOf(v)
             q == J!Zero(maj, min)
  <2>1. /\ p[1] = v.n[1] /\ p[2] = v.n[2] /\ p[3] = v.n[3] /\ p[5] = v.pre
        /\ p[4] = (IF v.pre = 0 THEN 1 ELSE 0)
        /\ q[1] = maj /\ q[2] = min /\ q[3] = 0 /\ q[4] = 0 /\ q[5] = 0
    BY DEF J!PlaceOf, J!Place, J!Zero
  <2> HIDE DEF p, q
  <2>2. J!Below(p, q) <=>
          \/ p[1] < q[1]
          \/ p[1] = q[1] /\ p[2] < q[2]
          \/ p[1] = q[1] /\ p[2] = q[2] /\ p[3] < q[3]
          \/ p[1] = q[1] /\ p[2] = q[2] /\ p[3] = q[3] /\ p[4] < q[4]
          \/ p[1] = q[1] /\ p[2] = q[2] /\ p[3] = q[3] /\ p[4] = q[4] /\ p[5] < q[5]
    BY DEF J!Below
  <2> QED BY <1>1, <2>1, <2>2 DEF p, q
<1>5. (SubSeq(v.n, 1, 2) = SubSeq(b.n, 1, 2)) <=> (v.n[1] = b.n[1] /\ v.n[2] = b.n[2])
  <2>1. SubSeq(v.n, 1, 2) = <<v.n[1], v.n[2]>> /\ SubSeq(b.n, 1, 2) = <<b.n[1], b.n[2]>>
    <3>1. v.n \in Nat \X Nat \X Nat /\ b.n \in Nat \X Nat \X Nat
      BY <1>0 DEF J!Versions
    <3> QED BY <3>1, FirstTwo
  <2> QED BY <2>1
<1>6. CASE c.op = "^"
  <2>1. J!npmVersionSatisfiesOne(v, c) <=> (v.n[1] = b.n[1] /\ ~Lower(v, b))
    BY <1>2, <1>6 DEF J!npmVersionSatisfiesOne
  <2>2. J!Within(v, c) <=> (~Lower(v, b) /\ J!Below(J!PlaceOf(v), J!Zero(b.n[1] + 1, 0)))
    BY <1>2, <1>6 DEF J!Within
  <2>3. J!Below(J!PlaceOf(v), J!Zero(b.n[1] + 1, 0)) <=>
          v.n[1] < b.n[1] + 1 \/ (v.n[1] = b.n[1] + 1 /\ v.n[2] < 0)
    BY <1>1, <1>3
  <2> QED BY <1>1, <2>1, <2>2, <2>3 DEF Lower
<1>7. CASE c.op = "~"
  <2>1. J!npmVersionSatisfiesOne(v, c) <=> (v.n[1] = b.n[1] /\ v.n[2] = b.n[2] /\ ~Lower(v, b))
    BY <1>2, <1>5, <1>7 DEF J!npmVersionSatisfiesOne
  <2>2. J!Within(v, c) <=> (~Lower(v, b) /\ J!Below(J!PlaceOf(v), J!Zero(b.n[1], b.n[2] + 1)))
    BY <1>2, <1>7 DEF J!Within
  <2>3. J!Below(J!PlaceOf(v), J!Zero(b.n[1], b.n[2] + 1)) <=>
          v.n[1] < b.n[1] \/ (v.n[1] = b.n[1] /\ v.n[2] < b.n[2] + 1)
    BY <1>1, <1>3
  <2> QED BY <1>1, <2>1, <2>2, <2>3 DEF Lower
<1>8. CASE c.op \in {">=", "<=", ">", "<", "="}
  BY <1>2, <1>8 DEF J!npmVersionSatisfiesOne, J!Within
<1> QED BY <1>6, <1>7, <1>8 DEF ReadableClause

(* Lower is a strict order. *)
LEMMA LowerIsStrict ==
  /\ \A v \in J!Versions : ~Lower(v, v)
  /\ \A u, v, w \in J!Versions : Lower(u, v) /\ Lower(v, w) => Lower(u, w)
<1>1. \A v \in J!Versions : v.n[1] \in Nat /\ v.n[2] \in Nat /\ v.n[3] \in Nat /\ v.pre \in Nat
  BY DEF J!Versions
<1>2. ASSUME NEW u \in J!Versions, NEW v \in J!Versions, NEW w \in J!Versions,
             Lower(u, v), Lower(v, w)
      PROVE  Lower(u, w)
  BY <1>1, <1>2 DEF Lower
<1>3. ASSUME NEW v \in J!Versions
      PROVE  ~Lower(v, v)
  BY <1>1 DEF Lower
<1> QED BY <1>2, <1>3

(* The versions of a package that a range has, as semver reads it *)
InRange(spec, versions) ==
  {v \in versions :
     /\ \E alt \in spec.alts : \A c \in alt : J!Within(v, c)
     /\ v.pre = 0 \/ \E alt \in spec.alts : \E c \in alt : c.base.pre # 0}
ProperDoc(doc) ==
  /\ doc.versions \subseteq J!Versions /\ IsFiniteSet(doc.versions)
  /\ None \notin doc.versions /\ None \notin DOMAIN doc.tags

(* The highest of several versions exists. *)
LEMMA HighestVersion ==
  ASSUME NEW S, S \subseteq J!Versions, IsFiniteSet(S), S # {}
  PROVE  \E v \in S : \A w \in S : ~J!npmVersionLess(v, w)
<1> DEFINE above == {p \in J!Versions \X J!Versions : Lower(p[2], p[1])}
<1>1. \A v, w \in J!Versions : <<v, w>> \in above <=> Lower(w, v)
  OBVIOUS
<1> HIDE DEF above
<1>2. \A x \in S : <<x, x>> \notin above
  BY <1>1, LowerIsStrict
<1>3. \A x, y, z \in S : <<x, y>> \in above /\ <<y, z>> \in above => <<x, z>> \in above
  BY <1>1, LowerIsStrict
<1>4. PICK v \in S : \A w \in S : <<w, v>> \notin above
  BY <1>2, <1>3, HighestExists
<1> QED BY <1>1, <1>4, LessIsLower

(* What is picked is a version or nothing; of a range that is read as      *)
(* semver does, the highest in it.                                         *)
LEMMA PickedIsHighest ==
  ASSUME NEW spec, NEW doc, ProperDoc(doc)
  PROVE  LET ver == J!pickNPMVersion(spec, doc)
             good == InRange(spec, doc.versions)
         IN /\ ver \in doc.versions \cup {None}
            /\ J!Clauses(spec) /\ spec.kind = "range" /\ J!Readable(spec) =>
                 IF ver = None THEN good = {}
                 ELSE ver \in good /\ \A v \in good : ~J!Below(J!PlaceOf(ver), J!PlaceOf(v))
<1> DEFINE ver == J!pickNPMVersion(spec, doc)
           matching == {v \in doc.versions : J!npmVersionSatisfies(v, spec)}
           tag == IF spec.kind = "tag" THEN spec.name
                  ELSE IF spec.alts = {{[op |-> "*", base |-> None]}} THEN "latest" ELSE None
           highest == CHOOSE v \in matching : \A w \in matching : ~J!npmVersionLess(v, w)
<1>1. ver = IF tag \in DOMAIN doc.tags /\ doc.tags[tag] \in doc.versions THEN doc.tags[tag]
            ELSE IF matching = {} THEN None ELSE highest
  BY DEF J!pickNPMVersion
<1>2. matching \subseteq J!Versions /\ IsFiniteSet(matching) /\ matching \subseteq doc.versions
  BY FS_Subset DEF ProperDoc
<1>3. matching # {} => highest \in matching /\ \A w \in matching : ~J!npmVersionLess(highest, w)
  <2> HIDE DEF matching
  <2>1. matching # {} => \E v \in matching : \A w \in matching : ~J!npmVersionLess(v, w)
    BY <1>2, HighestVersion
  <2> QED BY <2>1
<1>4. ASSUME J!Clauses(spec), spec.kind = "range", J!Readable(spec)
      PROVE  /\ tag \notin DOMAIN doc.tags
             /\ matching = InRange(spec, doc.versions)
  <2>1. \A alt \in spec.alts : \A c \in alt : ReadableClause(c)
    BY <1>4 DEF J!Readable, J!Clauses, ReadableClause
  <2>2. spec.alts # {{[op |-> "*", base |-> None]}}
    <3> SUFFICES ASSUME spec.alts = {{[op |-> "*", base |-> None]}} PROVE FALSE
      OBVIOUS
    <3>1. ReadableClause([op |-> "*", base |-> None])
      BY <2>1
    <3> QED BY <3>1 DEF ReadableClause
  <2>3. ASSUME NEW v \in doc.versions
        PROVE  J!npmVersionSatisfies(v, spec) <=>
                 /\ \E alt \in spec.alts : \A c \in alt : J!Within(v, c)
                 /\ v.pre = 0 \/ \E alt \in spec.alts : \E c \in alt : c.base.pre # 0
    <3>1. \A alt \in spec.alts : \A c \in alt :
            (J!npmVersionSatisfiesOne(v, c) <=> J!Within(v, c)) /\ c.op # "*"
      BY <2>1, ClauseIsInterval DEF ProperDoc, ReadableClause
    <3> QED BY <3>1 DEF J!npmVersionSatisfies
  <2> QED BY <1>4, <2>2, <2>3 DEF InRange, ProperDoc
<1> HIDE DEF ver, matching, tag, highest
<1>5. ver \in doc.versions \cup {None}
  BY <1>1, <1>2, <1>3
<1>6. ASSUME J!Clauses(spec), spec.kind = "range", J!Readable(spec)
      PROVE  LET good == InRange(spec, doc.versions)
             IN IF ver = None THEN good = {}
                ELSE ver \in good /\ \A v \in good : ~J!Below(J!PlaceOf(ver), J!PlaceOf(v))
  <2>1. matching = {} => ver = None
    BY <1>1, <1>4, <1>6
  <2>2. ASSUME matching # {}
        PROVE  /\ ver # None /\ ver \in matching
               /\ \A w \in matching : ~J!Below(J!PlaceOf(ver), J!PlaceOf(w))
    <3>1. ver \in matching /\ \A w \in matching : ~J!npmVersionLess(ver, w)
      BY <1>1, <1>3, <1>4, <1>6, <2>2
    <3>2. \A w \in matching : J!Below(J!PlaceOf(ver), J!PlaceOf(w)) <=> J!npmVersionLess(ver, w)
      BY <1>2, <3>1, LessIsLower, BelowIsLower
    <3> QED BY <1>2, <3>1, <3>2 DEF ProperDoc
  <2>3. matching = InRange(spec, doc.versions)
    BY <1>4, <1>6
  <2> QED BY <2>1, <2>2, <2>3
<1> QED BY <1>5, <1>6 DEF ver

-----------------------------------------------------------------------------
(* npm's queue *)
IsQueue(q) == (\E S : q \in Seq(S)) /\ \A i \in DOMAIN q : q[i] # {}
Waiting(q) == UNION J!ToSet(q)

(* What waits is what some layer of the queue holds. *)
LEMMA WaitingIs == \A q, r : r \in Waiting(q) <=> \E i \in DOMAIN q : r \in q[i]
  BY DEF Waiting, J!ToSet

(* A sequence is one of whatever its elements are. *)
LEMMA ElementsOf ==
  ASSUME NEW S, NEW s \in Seq(S), NEW Y, \A i \in 1..Len(s) : s[i] \in Y
  PROVE  s \in Seq(Y)
OBVIOUS

(* Dependencies are queued behind the others. *)
LEMMA Queued ==
  ASSUME NEW q, IsQueue(q), NEW d, d # {}
  PROVE  IsQueue(q \o <<d>>) /\ Waiting(q \o <<d>>) = Waiting(q) \cup d
<1>1. PICK S : q \in Seq(S)
  BY DEF IsQueue
<1> DEFINE Y == S \cup {d}
           p == q \o <<d>>
<1>2. q \in Seq(Y) /\ <<d>> \in Seq(Y) /\ Len(<<d>>) = 1 /\ <<d>>[1] = d
  <2>1. d \in Y /\ \A i \in 1..Len(q) : q[i] \in Y
    BY <1>1
  <2>2. q \in Seq(Y)
    <3> HIDE DEF Y
    <3> QED BY <1>1, <2>1
  <2>3. <<d>> \in Seq(Y)
    <3> HIDE DEF Y
    <3> QED BY <2>1
  <2> QED BY <2>2, <2>3
<1> HIDE DEF Y
<1>3. /\ p \in Seq(Y) /\ Len(q) \in Nat /\ DOMAIN q = 1..Len(q) /\ DOMAIN p = 1..(Len(q) + 1)
      /\ \A i \in 1..Len(q) : p[i] = q[i]
      /\ p[Len(q) + 1] = d
  BY <1>2
<1> HIDE DEF p
<1>4. \A i \in DOMAIN p : p[i] # {}
  BY <1>3 DEF IsQueue
<1>5. \A r : r \in Waiting(p) <=> r \in Waiting(q) \/ r \in d
  <2> TAKE r
  <2>1. r \in Waiting(q) => r \in Waiting(p)
    BY <1>3, WaitingIs
  <2>2. r \in d => r \in Waiting(p)
    <3> Len(q) + 1 \in DOMAIN p
      BY <1>3
    <3> QED BY <1>3, WaitingIs
  <2>3. r \in Waiting(p) => r \in Waiting(q) \/ r \in d
    <3> SUFFICES ASSUME r \in Waiting(p) PROVE r \in Waiting(q) \/ r \in d
      OBVIOUS
    <3>1. PICK i \in DOMAIN p : r \in p[i]
      BY WaitingIs
    <3>2. i \in 1..Len(q) \/ i = Len(q) + 1
      BY <1>3
    <3> QED BY <1>3, <3>1, <3>2, WaitingIs
  <2> QED BY <2>1, <2>2, <2>3
<1>6. Waiting(p) = Waiting(q) \cup d
  BY <1>5
<1> QED BY <1>3, <1>4, <1>6 DEF IsQueue, p

(* What a round takes from the queue leaves the others in it. *)
LEMMA RestOfQueue ==
  ASSUME IsQueue(npmQueue), npmQueue # <<>>, NEW ref \in Head(npmQueue)
  PROVE  /\ IsQueue(J!Rest(ref))
         /\ Waiting(J!Rest(ref)) \subseteq Waiting(npmQueue)
         /\ Waiting(npmQueue) \subseteq Waiting(J!Rest(ref)) \cup {ref}
         /\ ref \in Waiting(npmQueue)
<1> DEFINE q == npmQueue
           p == J!Rest(ref)
           left == q[1] \ {ref}
<1>1. PICK S : q \in Seq(S)
  BY DEF IsQueue
<1>2. /\ Len(q) \in Nat \ {0} /\ DOMAIN q = 1..Len(q) /\ Head(q) = q[1] /\ 1 \in DOMAIN q
      /\ Tail(q) \in Seq(S) /\ DOMAIN Tail(q) = 1..(Len(q) - 1)
      /\ \A i \in 1..(Len(q) - 1) : Tail(q)[i] = q[i + 1]
  BY <1>1
<1>3. CASE q[1] = {ref}
  <2>1. p = Tail(q)
    BY <1>2, <1>3 DEF J!Rest
  <2>2. IsQueue(p)
    <3>1. \A i \in 1..(Len(q) - 1) : i + 1 \in DOMAIN q
      BY <1>2
    <3> HIDE DEF p
    <3> QED BY <1>2, <2>1, <3>1 DEF IsQueue
  <2>3. \A r : r \in Waiting(p) => r \in Waiting(q)
    <3> SUFFICES ASSUME NEW r, r \in Waiting(p) PROVE r \in Waiting(q)
      OBVIOUS
    <3>1. PICK i \in DOMAIN p : r \in p[i]
      BY WaitingIs
    <3>2. i + 1 \in DOMAIN q /\ r \in q[i + 1]
      BY <1>2, <2>1, <3>1
    <3> QED BY <3>2, WaitingIs
  <2>4. \A r : r \in Waiting(q) => r \in Waiting(p) \/ r = ref
    <3> SUFFICES ASSUME NEW r, r \in Waiting(q) PROVE r \in Waiting(p) \/ r = ref
      OBVIOUS
    <3>1. PICK i \in DOMAIN q : r \in q[i]
      BY WaitingIs
    <3>2. CASE i = 1
      BY <1>3, <3>1, <3>2
    <3>3. CASE i # 1
      <4>1. i - 1 \in 1..(Len(q) - 1) /\ (i - 1) + 1 = i
        BY <1>2, <3>1, <3>3
      <4>2. Tail(q)[i - 1] = q[i] /\ i - 1 \in DOMAIN Tail(q)
        BY <1>2, <4>1
      <4> QED BY <2>1, <3>1, <4>2, WaitingIs
    <3> QED BY <3>2, <3>3
  <2> QED BY <1>2, <2>2, <2>3, <2>4, WaitingIs
<1>4. CASE q[1] # {ref}
  <2> DEFINE Y == S \cup {left}
  <2>1. p = <<left>> \o Tail(q)
    BY <1>2, <1>4 DEF J!Rest
  <2>2. left # {}
    BY <1>2, <1>4
  <2>3. Tail(q) \in Seq(Y) /\ <<left>> \in Seq(Y) /\ Len(<<left>>) = 1 /\ <<left>>[1] = left
    <3>1. left \in Y /\ \A i \in 1..Len(Tail(q)) : Tail(q)[i] \in Y
      BY <1>2
    <3>2. Tail(q) \in Seq(Y)
      <4> HIDE DEF Y
      <4> QED BY <1>2, <3>1, ElementsOf
    <3>3. <<left>> \in Seq(Y)
      <4> HIDE DEF Y, left
      <4> QED BY <3>1
    <3> QED BY <3>2, <3>3
  <2> HIDE DEF Y, left, p
  <2>4. /\ p \in Seq(Y) /\ DOMAIN p = 1..Len(q) /\ p[1] = left
        /\ \A i \in 2..Len(q) : p[i] = q[i]
    <3>1. /\ p \in Seq(Y) /\ Len(p) = Len(q) /\ p[1] = left
          /\ \A i \in 2..Len(q) : p[i] = Tail(q)[i - 1]
      BY <1>2, <2>1, <2>3
    <3>2. \A i \in 2..Len(q) : i - 1 \in 1..(Len(q) - 1) /\ (i - 1) + 1 = i
      BY <1>2
    <3> QED BY <1>2, <3>1, <3>2
  <2>5. \A i \in 1..Len(q) : i = 1 \/ i \in 2..Len(q)
    BY <1>2
  <2>6. IsQueue(p)
    BY <1>2, <2>2, <2>4, <2>5 DEF IsQueue
  <2>7. left \subseteq q[1] /\ q[1] \subseteq left \cup {ref}
    BY DEF left
  <2>8. \A r : r \in Waiting(p) => r \in Waiting(q)
    BY <1>2, <2>4, <2>5, <2>7, WaitingIs
  <2>9. \A r : r \in Waiting(q) => r \in Waiting(p) \/ r = ref
    BY <1>2, <2>4, <2>5, <2>7, WaitingIs
  <2>10. ref \in Waiting(q)
    BY <1>2, WaitingIs
  <2> QED BY <2>6, <2>8, <2>9, <2>10 DEF p
<1> QED BY <1>3, <1>4

-----------------------------------------------------------------------------
(* The invariant of npm's expansion *)
Found(t) == t.ver # None
Needs(t) == registry[t.ref.name].deps[t.ver]
Wanted(r) == r = npmItem \/ \E u \in npmTaken : Found(u) /\ r.name \in DOMAIN Needs(u)
    /\ Needs(u)[r.name] = r.spec
LookedUp(t) ==
  /\ Wanted(t.ref) /\ (Found(t) => t.read)
  /\ t.read => t.ref.name \in DOMAIN registry
      /\ t.ver = J!pickNPMVersion(t.ref.spec, registry[t.ref.name])
NamesWaiting == {r.name : r \in Waiting(npmQueue)}
Expanded(t) ==
  \A d \in DOMAIN Needs(t) : J!isRegistryVersionSpec(Needs(t)[d]) => d \in npmSeen \cup NamesWaiting

NpmInv ==
  /\ \E x \in Registries : registry = x[1] /\ npmItem = x[2]
  /\ npmResult \in {"running", "done", "error", "silent"}
  /\ IsQueue(npmQueue)
  /\ npmSeen = {t.ref.name : t \in npmTaken}
  /\ \A t, u \in npmTaken : t.ref.name = u.ref.name => t = u
  /\ \A t \in npmTaken : LookedUp(t)
  /\ \A r \in Waiting(npmQueue) : Wanted(r)
  /\ \A t \in npmTaken : Found(t) => Expanded(t)
  /\ tarballs = {<<t.ref.name, t.ver>> : t \in {u \in npmTaken : Found(u)}}
  /\ \A t \in npmTaken : Found(t) => t.ref.name \in packuments
  /\ packuments \subseteq npmSeen \cap DOMAIN registry
  /\ npmResult \in {"done", "error"} => npmQueue = <<>> /\ (npmResult = "error" <=> tarballs = {})

(* What is wanted of npm is a range of registered packages' own. *)
LEMMA WantedIsProper ==
  ASSUME NpmInv
  PROVE  /\ \A r : Wanted(r) => J!Clauses(r.spec)
         /\ \A p \in DOMAIN registry : ProperDoc(registry[p])
<1>1. PICK x \in Registries : registry = x[1] /\ npmItem = x[2]
  BY DEF NpmInv
<1>2. J!Clauses(npmItem.spec)
  BY <1>1, WorldConstants DEF J!RegistryConstants
<1>3. \A p \in DOMAIN registry :
         /\ ProperDoc(registry[p])
         /\ \A v \in registry[p].versions : \A d \in DOMAIN registry[p].deps[v] :
              J!Clauses(registry[p].deps[v][d])
  BY <1>1, WorldConstants DEF J!RegistryConstants, ProperDoc, J!IsFiniteSet, IsFiniteSet
<1>4. ASSUME NEW u \in npmTaken, Found(u)
      PROVE  \A d \in DOMAIN Needs(u) : J!Clauses(Needs(u)[d])
  <2>1. /\ u.ref.name \in DOMAIN registry
        /\ u.ver = J!pickNPMVersion(u.ref.spec, registry[u.ref.name])
    BY <1>4 DEF NpmInv, LookedUp
  <2>2. u.ver \in registry[u.ref.name].versions
    BY <1>3, <1>4, <2>1, PickedIsHighest DEF Found
  <2> QED BY <1>3, <2>1, <2>2 DEF Needs
<1>5. ASSUME NEW r, Wanted(r)
      PROVE  J!Clauses(r.spec)
  <2>1. CASE r = npmItem
    BY <1>2, <2>1
  <2>2. CASE r # npmItem
    <3>1. PICK u \in npmTaken : Found(u) /\ r.name \in DOMAIN Needs(u) /\ Needs(u)[r.name] = r.spec
      BY <1>5, <2>2 DEF Wanted
    <3> QED BY <1>4, <3>1
  <2> QED BY <2>1, <2>2
<1> QED BY <1>3, <1>5

(* What was wanted stays wanted. *)
LEMMA StaysWanted ==
  ASSUME registry' = registry, npmItem' = npmItem, npmTaken \subseteq npmTaken'
  PROVE  \A r : Wanted(r) => Wanted(r)'
<1> SUFFICES ASSUME NEW r, Wanted(r) PROVE Wanted(r)'
  OBVIOUS
<1>1. CASE r = npmItem
  BY <1>1 DEF Wanted
<1>2. CASE r # npmItem
  <2>1. PICK u \in npmTaken : Found(u) /\ r.name \in DOMAIN Needs(u) /\ Needs(u)[r.name] = r.spec
    BY <1>2 DEF Wanted
  <2>2. u \in npmTaken' /\ Found(u)' /\ Needs(u)' = Needs(u)
    BY <2>1 DEF Needs, Found
  <2>3. r.name \in DOMAIN Needs(u)' /\ Needs(u)'[r.name] = r.spec
    BY <2>1, <2>2
  <2> QED BY <2>2, <2>3 DEF Wanted
<1> QED BY <1>1, <1>2

(* A round that takes `ref` keeps what npm's expansion maintains: of it,   *)
(* `queued` are the dependencies that are queued.                          *)
RoundTakes(ref, queued) ==
  /\ npmQueue # <<>> /\ ref \in Head(npmQueue)
  /\ npmQueue' = J!Rest(ref) \o (IF queued = {} THEN <<>> ELSE <<queued>>)
  /\ npmResult = "running" /\ npmResult' \in {"running", "silent"}
  /\ UNCHANGED <<registry, npmItem>>
  /\ npmTaken \subseteq npmTaken' /\ npmSeen \subseteq npmSeen' /\ ref.name \in npmSeen'
  /\ \A r \in queued : Wanted(r)'

(* What every round keeps: the queue, what was wanted, what was seen. *)
LEMMA NpmRound ==
  ASSUME NpmInv, NEW ref, NEW queued, RoundTakes(ref, queued)
  PROVE  /\ npmResult' \in {"running", "silent"}
         /\ IsQueue(npmQueue)' /\ \A r \in Waiting(npmQueue') : Wanted(r)'
         /\ (npmSeen \cup NamesWaiting \subseteq npmSeen' \cup NamesWaiting')
         /\ \A r \in queued : r.name \in NamesWaiting'
         /\ Wanted(ref)'
<1> USE DEF RoundTakes
<1> DEFINE rest == J!Rest(ref)
<1>1. /\ IsQueue(rest) /\ Waiting(rest) \subseteq Waiting(npmQueue)
      /\ Waiting(npmQueue) \subseteq Waiting(rest) \cup {ref} /\ ref \in Waiting(npmQueue)
  BY RestOfQueue DEF NpmInv
<1>2. IsQueue(npmQueue') /\ Waiting(npmQueue') = Waiting(rest) \cup queued
  <2>1. CASE queued = {}
    <3>1. rest \o <<>> = rest
      <4>1. PICK S : rest \in Seq(S)
        BY <1>1 DEF IsQueue
      <4> HIDE DEF rest
      <4> QED BY <4>1
    <3> QED BY <1>1, <2>1, <3>1
  <2>2. CASE queued # {}
    <3> HIDE DEF rest
    <3>1. npmQueue' = rest \o <<queued>>
      BY <2>2 DEF rest
    <3> QED BY <1>1, <2>2, <3>1, Queued
  <2> QED BY <2>1, <2>2
<1> HIDE DEF rest
<1>3. \A r : Wanted(r) => Wanted(r)'
  BY StaysWanted
<1>4. \A r \in Waiting(npmQueue') : Wanted(r)'
  BY <1>1, <1>2, <1>3 DEF NpmInv
<1>5. NamesWaiting' = {r.name : r \in Waiting(npmQueue')}
  BY DEF NamesWaiting
<1>6. npmSeen \cup NamesWaiting \subseteq npmSeen' \cup NamesWaiting'
  <2> SUFFICES ASSUME NEW n \in NamesWaiting PROVE n \in npmSeen' \cup NamesWaiting'
    OBVIOUS
  <2>1. PICK r \in Waiting(npmQueue) : n = r.name
    BY DEF NamesWaiting
  <2>2. r \in Waiting(npmQueue') \/ r = ref
    BY <1>1, <1>2
  <2> QED BY <1>5, <2>1, <2>2
<1>7. npmResult' \in {"running", "silent"}
  OBVIOUS
<1>8. IsQueue(npmQueue)'
  BY <1>2 DEF IsQueue
<1> QED BY <1>1, <1>2, <1>3, <1>4, <1>5, <1>6, <1>7, <1>8 DEF NpmInv

(* A round that looks up a package that was not looked up before *)
LEMMA NpmLookup ==
  ASSUME NpmInv, npmQueue # <<>>, NEW ref \in Head(npmQueue), ref.name \notin npmSeen, NEW queued,
         NEW ver, NEW read \in BOOLEAN,
         npmQueue' = J!Rest(ref) \o (IF queued = {} THEN <<>> ELSE <<queued>>),
         npmResult = "running", npmResult' \in {"running", "silent"},
         UNCHANGED <<registry, npmItem>>,
         npmSeen' = npmSeen \cup {ref.name},
         npmTaken' = npmTaken \cup {[ref |-> ref, ver |-> ver, read |-> read]},
         ver # None => read,
         read => /\ ref.name \in DOMAIN registry
                 /\ ver = J!pickNPMVersion(ref.spec, registry[ref.name]),
         queued = IF ver = None THEN {} ELSE J!Dependencies(ref.name, ver, npmSeen'),
         tarballs' = (IF ver = None THEN tarballs ELSE tarballs \cup {<<ref.name, ver>>}),
         packuments \subseteq packuments', ver # None => ref.name \in packuments',
         packuments' \subseteq packuments \cup ({ref.name} \cap DOMAIN registry)
  PROVE  NpmInv'
<1> DEFINE e == [ref |-> ref, ver |-> ver, read |-> read]
<1>0. e.ref = ref /\ e.ver = ver /\ e.read = read
  OBVIOUS
<1> HIDE DEF e
<1>1. npmTaken' = npmTaken \cup {e}
  BY DEF e
<1>2. \A r \in queued : /\ ver # None /\ r.name \in DOMAIN Needs(e) /\ Needs(e)[r.name] = r.spec
  BY <1>0 DEF J!Dependencies, Needs
<1>3. \A t \in npmTaken' : Needs(t)' = Needs(t)
  BY DEF Needs
<1>4. \A r \in queued : Wanted(r)'
  <2> SUFFICES ASSUME NEW r \in queued PROVE Wanted(r)'
    OBVIOUS
  <2>1. Found(e)' /\ e \in npmTaken'
    BY <1>0, <1>1, <1>2 DEF Found
  <2>2. r.name \in DOMAIN Needs(e)' /\ Needs(e)'[r.name] = r.spec
    BY <1>2, <1>3, <2>1
  <2> QED BY <2>1, <2>2 DEF Wanted
<1>5. /\ npmResult' \in {"running", "silent"}
      /\ IsQueue(npmQueue)' /\ \A r \in Waiting(npmQueue') : Wanted(r)'
      /\ (npmSeen \cup NamesWaiting \subseteq npmSeen' \cup NamesWaiting')
      /\ \A r \in queued : r.name \in NamesWaiting'
      /\ Wanted(ref)'
  <2>1. npmTaken \subseteq npmTaken' /\ npmSeen \subseteq npmSeen' /\ ref.name \in npmSeen'
    BY <1>1
  <2>2. RoundTakes(ref, queued)
    BY <1>4, <2>1 DEF RoundTakes
  <2> QED BY <2>2, NpmRound
<1>6. \A r : Wanted(r) => Wanted(r)'
  BY StaysWanted
<1>7. \A t \in npmTaken' : t \in npmTaken \/ t = e
  BY <1>1
<1>8. npmSeen' = {t.ref.name : t \in npmTaken'}
  BY <1>0, <1>1 DEF NpmInv
<1>9. \A t, u \in npmTaken' : t.ref.name = u.ref.name => t = u
  BY <1>0, <1>7 DEF NpmInv
<1>10. \A t \in npmTaken' : LookedUp(t)'
  <2> SUFFICES ASSUME NEW t \in npmTaken' PROVE LookedUp(t)'
    OBVIOUS
  <2>1. CASE t \in npmTaken
    <3>1. LookedUp(t)
      BY <2>1 DEF NpmInv
    <3> QED BY <1>6, <3>1 DEF LookedUp, Found, J!pickNPMVersion
  <2>2. CASE t = e
    BY <1>0, <1>5, <2>2 DEF LookedUp, Found
  <2> QED BY <1>7, <2>1, <2>2
<1>11. \A t \in npmTaken' : Found(t)' => Expanded(t)'
  <2> SUFFICES ASSUME NEW t \in npmTaken', Found(t)' PROVE Expanded(t)'
    OBVIOUS
  <2>1. CASE t \in npmTaken
    <3>1. Expanded(t)
      BY <2>1 DEF NpmInv, Found
    <3> QED BY <1>3, <1>5, <3>1 DEF Expanded
  <2>2. CASE t = e
    <3>1. ver # None /\ queued = J!Dependencies(ref.name, ver, npmSeen')
      BY <1>0, <2>2 DEF Found
    <3>2. \A d \in DOMAIN Needs(e) : J!isRegistryVersionSpec(Needs(e)[d]) =>
             d \in npmSeen' \/ \E r \in queued : r.name = d
      <4> SUFFICES ASSUME NEW d \in DOMAIN Needs(e), J!isRegistryVersionSpec(Needs(e)[d]),
                          d \notin npmSeen'
                   PROVE  \E r \in queued : r.name = d
        OBVIOUS
      <4> DEFINE r == [name |-> d, spec |-> Needs(e)[d]]
      <4>1. r \in queued
        BY <1>0, <3>1 DEF J!Dependencies, Needs
      <4>2. r.name = d
        OBVIOUS
      <4> HIDE DEF r
      <4> QED BY <4>1, <4>2
    <3>3. \A d \in DOMAIN Needs(e) : J!isRegistryVersionSpec(Needs(e)[d]) =>
             d \in npmSeen' \cup NamesWaiting'
      <4> SUFFICES ASSUME NEW d \in DOMAIN Needs(e), J!isRegistryVersionSpec(Needs(e)[d])
                   PROVE  d \in npmSeen' \cup NamesWaiting'
        OBVIOUS
      <4>1. d \in npmSeen' \/ \E r \in queued : r.name = d
        BY <3>2
      <4> QED BY <1>5, <4>1
    <3>4. Needs(t)' = Needs(e)
      BY <1>3, <2>2
    <3> QED BY <3>3, <3>4 DEF Expanded, J!isRegistryVersionSpec
  <2> QED BY <1>7, <2>1, <2>2
<1>12. tarballs' = {<<t.ref.name, t.ver>> : t \in {u \in npmTaken' : Found(u)}}
  BY <1>0, <1>1 DEF NpmInv, Found
<1>13. \A t \in npmTaken' : Found(t)' => t.ref.name \in packuments'
  BY <1>0, <1>7 DEF NpmInv, Found
<1>14. packuments' \subseteq npmSeen' \cap DOMAIN registry'
  BY DEF NpmInv
<1>15. \E x \in Registries : registry' = x[1] /\ npmItem' = x[2]
  BY DEF NpmInv
<1>16. npmResult' \in {"running", "silent"}
  BY <1>5
<1>17. tarballs' = {<<t.ref.name, t.ver>> : t \in {u \in npmTaken' : Found(u)'}}
  BY <1>12 DEF Found
<1> QED
  BY <1>5, <1>8, <1>9, <1>10, <1>11, <1>13, <1>14, <1>15, <1>16, <1>17 DEF NpmInv

(* Every step of the NPM expansion keeps its invariant. *)
LEMMA NpmStep ==
  ASSUME NpmInv, J!Next
  PROVE  NpmInv'
<1>1. CASE J!Finish
  <2>1. /\ npmResult' \in {"running", "done", "error"}
        /\ npmQueue = <<>> /\ (npmResult' = "error" <=> tarballs = {})
    BY <1>1 DEF J!Finish
  <2>2. UNCHANGED <<registry, npmItem, npmQueue, npmSeen, tarballs, packuments, npmTaken>>
    BY <1>1 DEF J!Finish
  <2>3. /\ \A t : Needs(t)' = Needs(t) /\ Found(t)' = Found(t)
        /\ NamesWaiting' = NamesWaiting /\ IsQueue(npmQueue)' = IsQueue(npmQueue)
    BY <2>2 DEF Needs, Found, NamesWaiting, IsQueue
  <2>4. \A t : Wanted(t)' = Wanted(t) /\ LookedUp(t)' = LookedUp(t) /\ Expanded(t)' = Expanded(t)
    BY <2>2, <2>3 DEF Wanted, LookedUp, Expanded
  <2> QED BY <2>1, <2>2, <2>3, <2>4 DEF NpmInv
<1>2. ASSUME npmResult = "running", npmQueue # <<>>, NEW ref \in Head(npmQueue), J!Skip(ref)
      PROVE  NpmInv'
  <2>1. /\ ref.name \in npmSeen /\ npmQueue' = J!Rest(ref)
        /\ UNCHANGED <<registry, npmItem, npmSeen, tarballs, packuments, npmResult, npmTaken>>
    BY <1>2 DEF J!Skip
  <2>2. J!Rest(ref) \o <<>> = J!Rest(ref)
    <3>1. PICK S : J!Rest(ref) \in Seq(S)
      BY <1>2, RestOfQueue DEF IsQueue, NpmInv
    <3> QED BY <3>1
  <2> DEFINE none == {}
  <2>3. npmQueue' = J!Rest(ref) \o (IF none = {} THEN <<>> ELSE <<none>>)
    BY <2>1, <2>2
  <2>4. \A r \in none : Wanted(r)'
    OBVIOUS
  <2> HIDE DEF none
  <2>5. /\ npmResult' \in {"running", "silent"}
        /\ IsQueue(npmQueue)' /\ \A r \in Waiting(npmQueue') : Wanted(r)'
        /\ (npmSeen \cup NamesWaiting \subseteq npmSeen' \cup NamesWaiting')
    <3>1. RoundTakes(ref, none)
      BY <1>2, <2>1, <2>3, <2>4 DEF RoundTakes, NpmInv
    <3> QED BY <3>1, NpmRound
  <2>6. \A t : Needs(t)' = Needs(t) /\ Found(t)' = Found(t)
    BY <2>1 DEF Needs, Found
  <2>7. \A t : Wanted(t)' = Wanted(t) /\ LookedUp(t)' = LookedUp(t)
    BY <2>1, <2>6 DEF Wanted, LookedUp
  <2>8. \A t : Expanded(t) => Expanded(t)'
    BY <2>1, <2>5, <2>6 DEF Expanded
  <2> QED BY <2>1, <2>5, <2>6, <2>7, <2>8 DEF NpmInv
<1>3. ASSUME npmResult = "running", npmQueue # <<>>, NEW ref \in Head(npmQueue),
             J!Unavailable(ref) \/ J!Silent(ref)
      PROVE  NpmInv'
  <2>1. /\ ref.name \notin npmSeen /\ npmQueue' = J!Rest(ref)
        /\ npmSeen' = npmSeen \cup {ref.name}
        /\ npmTaken' = npmTaken \cup {[ref |-> ref, ver |-> None, read |-> FALSE]}
        /\ packuments \subseteq packuments'
        /\ packuments' \subseteq packuments \cup ({ref.name} \cap DOMAIN registry)
        /\ npmResult' \in {"running", "silent"} /\ UNCHANGED <<registry, npmItem, tarballs>>
    BY <1>3 DEF J!Unavailable, J!Silent, J!Fruitless
  <2>2. J!Rest(ref) \o <<>> = J!Rest(ref)
    <3>1. PICK S : J!Rest(ref) \in Seq(S)
      BY <1>3, RestOfQueue DEF IsQueue, NpmInv
    <3> QED BY <3>1
  <2> DEFINE none == {}
  <2>3. /\ npmQueue' = J!Rest(ref) \o (IF none = {} THEN <<>> ELSE <<none>>)
        /\ none = IF None = None THEN {} ELSE J!Dependencies(ref.name, None, npmSeen')
        /\ tarballs' = (IF None = None THEN tarballs ELSE tarballs \cup {<<ref.name, None>>})
        /\ FALSE \in BOOLEAN
    BY <2>1, <2>2
  <2> HIDE DEF none
  <2> QED BY <1>3, <2>1, <2>3, NpmLookup
<1>4. ASSUME npmResult = "running", npmQueue # <<>>, NEW ref \in Head(npmQueue), J!Expand(ref)
      PROVE  NpmInv'
  <2> DEFINE ver == J!pickNPMVersion(ref.spec, registry[ref.name])
             queued == IF ver = None THEN {} ELSE J!Dependencies(ref.name, ver, npmSeen')
  <2>1. /\ ref.name \notin npmSeen /\ ref.name \in DOMAIN registry
        /\ npmQueue' = J!Rest(ref) \o (IF queued = {} THEN <<>> ELSE <<queued>>)
        /\ npmSeen' = npmSeen \cup {ref.name}
        /\ npmTaken' = npmTaken \cup {[ref |-> ref, ver |-> ver, read |-> TRUE]}
        /\ packuments' = packuments \cup {ref.name}
        /\ tarballs' = (IF ver = None THEN tarballs ELSE tarballs \cup {<<ref.name, ver>>})
        /\ UNCHANGED <<registry, npmItem, npmResult>>
    BY <1>4 DEF J!Expand
  <2>2. /\ packuments \subseteq packuments' /\ ref.name \in packuments'
        /\ packuments' \subseteq packuments \cup ({ref.name} \cap DOMAIN registry)
        /\ npmTaken \subseteq npmTaken' /\ TRUE \in BOOLEAN
    BY <2>1
  <2>3. /\ ver = J!pickNPMVersion(ref.spec, registry[ref.name])
        /\ queued = IF ver = None THEN {} ELSE J!Dependencies(ref.name, ver, npmSeen')
    OBVIOUS
  <2> HIDE DEF ver, queued
  <2> QED BY <1>4, <2>1, <2>2, <2>3, NpmLookup
<1> QED BY <1>1, <1>2, <1>3, <1>4 DEF J!Next, J!Round

(* At first only the package that was asked for waits. *)
LEMMA NpmBegins ==
  ASSUME J!Init
  PROVE  NpmInv
<1>1. PICK x \in Registries : registry = x[1] /\ npmItem = x[2]
  BY DEF J!Init
<1> DEFINE first == {npmItem}
<1>2. /\ npmQueue = <<first>> /\ npmSeen = {} /\ tarballs = {} /\ packuments = {}
      /\ npmResult = "running" /\ npmTaken = {}
  BY DEF J!Init
<1>3. first # {} /\ \A r \in first : r = npmItem
  OBVIOUS
<1> HIDE DEF first
<1>4. npmQueue \in Seq({first}) /\ DOMAIN npmQueue = {1} /\ npmQueue[1] = first
  BY <1>2
<1>5. IsQueue(npmQueue)
  BY <1>3, <1>4 DEF IsQueue
<1>6. \A r \in Waiting(npmQueue) : Wanted(r)
  BY <1>3, <1>4, WaitingIs DEF Wanted
<1> QED BY <1>1, <1>2, <1>5, <1>6 DEF NpmInv

(* What npm's expansion maintains implies its properties. *)
LEMMA NpmIsPrefetched ==
  ASSUME NpmInv
  PROVE  J!TypeOK /\ J!ClosureIsPrefetched
<1>1. \A t \in npmTaken : Found(t) <=> t.ver # None
  BY DEF Found
<1>2. {t \in npmTaken : t.ver # None} = {t \in npmTaken : Found(t)}
  BY DEF Found
<1>3. \A t : Needs(t) = registry[t.ref.name].deps[t.ver]
  BY DEF Needs
<1>4. Waiting(npmQueue) = UNION J!ToSet(npmQueue)
  BY DEF Waiting
<1>5. J!TypeOK
  BY DEF NpmInv, IsQueue, J!TypeOK
<1>6. \A t, u \in npmTaken : t.ref.name = u.ref.name => t = u
  BY DEF NpmInv
<1>7. \A r \in {t.ref : t \in npmTaken} \cup Waiting(npmQueue) :
        r = npmItem \/ \E u \in {t \in npmTaken : t.ver # None} :
                         r.name \in DOMAIN Needs(u) /\ Needs(u)[r.name] = r.spec
  <2>1. \A t \in npmTaken : Wanted(t.ref)
    BY DEF NpmInv, LookedUp
  <2>2. \A r \in {t.ref : t \in npmTaken} \cup Waiting(npmQueue) : Wanted(r)
    BY <2>1 DEF NpmInv
  <2> QED BY <1>2, <2>2 DEF Wanted
<1>8. \A t \in {u \in npmTaken : u.ver # None} : \A d \in DOMAIN Needs(t) :
        J!isRegistryVersionSpec(Needs(t)[d]) =>
          d \in {u.ref.name : u \in npmTaken} \cup {r.name : r \in Waiting(npmQueue)}
  <2> SUFFICES ASSUME NEW t \in npmTaken, t.ver # None, NEW d \in DOMAIN Needs(t),
                      J!isRegistryVersionSpec(Needs(t)[d])
               PROVE  d \in {u.ref.name : u \in npmTaken} \cup {r.name : r \in Waiting(npmQueue)}
    BY <1>2
  <2>1. Expanded(t)
    BY <1>1 DEF NpmInv
  <2>2. npmSeen = {u.ref.name : u \in npmTaken}
    BY DEF NpmInv
  <2> QED BY <2>1, <2>2 DEF Expanded, NamesWaiting
<1>9. /\ tarballs = {<<t.ref.name, t.ver>> : t \in {u \in npmTaken : u.ver # None}}
      /\ {t.ref.name : t \in {u \in npmTaken : u.ver # None}} \subseteq packuments
  BY <1>2 DEF NpmInv
<1>10. npmResult \in {"done", "error"} =>
          npmQueue = <<>> /\ (npmResult = "error" <=> {t \in npmTaken : t.ver # None} = {})
  <2> DEFINE found == {t \in npmTaken : t.ver # None}
  <2>1. tarballs = {<<t.ref.name, t.ver>> : t \in found}
    BY <1>9
  <2> HIDE DEF found
  <2>2. tarballs = {} <=> found = {}
    BY <2>1
  <2>3. npmResult \in {"done", "error"} =>
          npmQueue = <<>> /\ (npmResult = "error" <=> tarballs = {})
    BY DEF NpmInv
  <2> QED BY <2>2, <2>3 DEF found
<1>11. J!ClosureIsPrefetched
  BY <1>3, <1>4, <1>6, <1>7, <1>8, <1>9, <1>10 DEF J!ClosureIsPrefetched
<1> QED BY <1>5, <1>11

(* pickNPMVersion has taken a version of the range that none is above. *)
LEMMA NpmSelectsHighest ==
  ASSUME NpmInv
  PROVE  J!SelectedIsHighest
<1> SUFFICES ASSUME NEW t \in npmTaken, t.read, t.ref.spec.kind = "range", J!Readable(t.ref.spec)
             PROVE  LET good == InRange(t.ref.spec, registry[t.ref.name].versions)
                    IN IF t.ver = None THEN good = {}
                       ELSE t.ver \in good
                           /\ \A v \in good : ~J!Below(J!PlaceOf(t.ver), J!PlaceOf(v))
  BY DEF J!SelectedIsHighest, InRange
<1>1. /\ Wanted(t.ref) /\ t.ref.name \in DOMAIN registry
      /\ t.ver = J!pickNPMVersion(t.ref.spec, registry[t.ref.name])
  BY DEF NpmInv, LookedUp
<1>2. J!Clauses(t.ref.spec) /\ ProperDoc(registry[t.ref.name])
  BY <1>1, WantedIsProper
<1> QED BY <1>1, <1>2, PickedIsHighest
-----------------------------------------------------------------------------
(* Induction and loops.  A fold is unfolded into its rounds: no theorem with an *)
(* operator for a parameter is needed *)

LargestOf(Y) == CHOOSE x \in Y : \A y \in Y : x >= y

(* A nonempty set of numbers has a least one. *)
LEMMA Least == ASSUME NEW Y \in SUBSET Nat, Y # {} PROVE \E x \in Y : \A y \in Y : x <= y
<1> DEFINE R == {p \in Nat \X Nat : p[1] < p[2]}
<1>1. IsWellFoundedOn(R, Nat)
  BY NatLessThanWellFounded DEF OpToRel
<1>2. \A x, y \in Nat : y < x => <<y, x>> \in R
  OBVIOUS
<1> HIDE DEF R
<1>3. PICK x \in Y : \A y \in Y : ~(<<y, x>> \in R)
  BY WFMin, <1>1
<1>4. x \in Nat /\ \A y \in Y : y \in Nat /\ ~(y < x)
  BY <1>2, <1>3
<1> QED BY <1>4

(* Induction over 0..n, for a set instead of a formula. *)
LEMMA Induct ==
  ASSUME NEW n \in Nat, NEW Good, 0 \in Good, \A k \in 0..(n - 1) : k \in Good => k + 1 \in Good
  PROVE  \A k \in 0..n : k \in Good
<1> DEFINE Bad == {k \in 0..n : k \notin Good}
<1> SUFFICES Bad = {}
  OBVIOUS
<1> SUFFICES ASSUME Bad # {} PROVE FALSE
  OBVIOUS
<1>1. PICK k \in Bad : \A j \in Bad : k <= j
  <2> Bad \in SUBSET Nat
    OBVIOUS
  <2> HIDE DEF Bad
  <2> QED BY Least
<1>2. k - 1 \in 0..(n - 1) /\ k - 1 \in Good
  BY <1>1
<1> QED BY <1>2

(* A set of places has a last one. *)
LEMMA Largest ==
  ASSUME NEW n \in Nat, NEW Y \in SUBSET (1..n), Y # {}
  PROVE  LargestOf(Y) \in Y /\ \A y \in Y : y <= LargestOf(Y)
<1> DEFINE Below == {n - x : x \in Y}
<1>1. PICK b \in Below : \A c \in Below : b <= c
  <2> \A x \in Y : n - x \in Nat
    OBVIOUS
  <2> Below \in SUBSET Nat /\ Below # {}
    OBVIOUS
  <2> HIDE DEF Below
  <2> QED BY Least
<1>2. PICK x \in Y : b = n - x
  OBVIOUS
<1>3. ASSUME NEW y \in Y PROVE x >= y
  <2> n - y \in Below
    OBVIOUS
  <2> QED BY <1>1, <1>2
<1>4. \E z \in Y : \A y \in Y : z >= y
  BY <1>3
<1>5. LargestOf(Y) \in Y /\ \A y \in Y : LargestOf(Y) >= y
  BY <1>4 DEF LargestOf
<1> QED BY <1>5

(* A loop over 1..n with a step of its own has results. The community      *)
(* fold is over sets of indices. *)
Loops(h, n, base, step) ==
  h = [s \in SUBSET (1..n) |->
         IF s = {} THEN base ELSE step[<<h[s \ {LargestOf(s)}], LargestOf(s)>>]]

(* There is a function that does what the loop says, for every set of places. *)
LEMMA LoopExists ==
  ASSUME NEW n \in Nat, NEW B, NEW base \in B, NEW step \in [B \X (1..n) -> B]
  PROVE  \E h \in [SUBSET (1..n) -> B] : Loops(h, n, base, step)
<1> DEFINE Good == {k \in 0..n : \E h \in [SUBSET (1..k) -> B] : Loops(h, k, base, step)}
<1>1. 0 \in Good
  <2> DEFINE h == [s \in SUBSET (1..0) |-> base]
  <2>1. 1..0 = {}
    OBVIOUS
  <2>2. h \in [SUBSET (1..0) -> B]
    OBVIOUS
  <2>3. Loops(h, 0, base, step)
    BY <2>1 DEF Loops
  <2> QED BY <2>2, <2>3
<1>2. ASSUME NEW k \in 0..(n - 1), k \in Good PROVE k + 1 \in Good
  <2>1. PICK h \in [SUBSET (1..k) -> B] : Loops(h, k, base, step)
    BY <1>2
  <2> DEFINE g == [s \in SUBSET (1..(k + 1)) |->
                     IF k + 1 \in s THEN step[<<h[s \ {k + 1}], k + 1>>] ELSE h[s]]
  <2>2. ASSUME NEW s \in SUBSET (1..(k + 1)), k + 1 \in s
        PROVE  s \ {k + 1} \in SUBSET (1..k) /\ LargestOf(s) = k + 1
    <3>1. LargestOf(s) \in s /\ \A y \in s : y <= LargestOf(s)
      BY <2>2, k + 1 \in Nat, s # {}, Largest
    <3>2. LargestOf(s) \in 1..(k + 1) /\ k + 1 <= LargestOf(s)
      BY <2>2, <3>1
    <3> QED BY <3>2
  <2>3. ASSUME NEW s \in SUBSET (1..(k + 1)), k + 1 \notin s PROVE s \in SUBSET (1..k)
    BY <2>3
  <2>4. g \in [SUBSET (1..(k + 1)) -> B]
    <3> SUFFICES ASSUME NEW s \in SUBSET (1..(k + 1))
                 PROVE  (IF k + 1 \in s THEN step[<<h[s \ {k + 1}], k + 1>>] ELSE h[s]) \in B
      OBVIOUS
    <3>1. CASE k + 1 \in s
      <4> h[s \ {k + 1}] \in B
        BY <2>2, <3>1
      <4> QED BY <3>1
    <3>2. CASE k + 1 \notin s
      BY <2>3, <3>2
    <3> QED BY <3>1, <3>2
  <2>5. ASSUME NEW s \in SUBSET (1..(k + 1))
        PROVE  g[s] = IF s = {} THEN base ELSE step[<<g[s \ {LargestOf(s)}], LargestOf(s)>>]
    <3>1. CASE k + 1 \in s
      <4>1. k + 1 \notin s \ {k + 1} /\ s \ {k + 1} \in SUBSET (1..(k + 1))
        OBVIOUS
      <4>2. g[s \ {k + 1}] = h[s \ {k + 1}]
        BY <4>1
      <4>3. g[s] = step[<<h[s \ {k + 1}], k + 1>>]
        BY <3>1
      <4> QED BY <2>2, <3>1, <4>2, <4>3
    <3>2. CASE k + 1 \notin s
      <4>1. g[s] = h[s] /\ s \in SUBSET (1..k)
        BY <2>3, <3>2
      <4>2. h[s] = IF s = {} THEN base ELSE step[<<h[s \ {LargestOf(s)}], LargestOf(s)>>]
        BY <2>1, <4>1 DEF Loops
      <4>3. CASE s = {}
        BY <4>1, <4>2, <4>3
      <4>4. CASE s # {}
        <5>1. k + 1 \notin s \ {LargestOf(s)} /\ s \ {LargestOf(s)} \in SUBSET (1..(k + 1))
          BY <3>2
        <5>2. g[s \ {LargestOf(s)}] = h[s \ {LargestOf(s)}]
          BY <5>1
        <5> QED BY <4>1, <4>2, <4>4, <5>2
      <4> QED BY <4>3, <4>4
    <3> QED BY <3>1, <3>2
  <2>6. Loops(g, k + 1, base, step)
    <3> HIDE DEF g
    <3>1. DOMAIN g = SUBSET (1..(k + 1)) /\ g = [s \in SUBSET (1..(k + 1)) |-> g[s]]
      BY <2>4
    <3>2. [s \in SUBSET (1..(k + 1)) |-> g[s]]
            = [s \in SUBSET (1..(k + 1)) |->
                 IF s = {} THEN base ELSE step[<<g[s \ {LargestOf(s)}], LargestOf(s)>>]]
      BY <2>5
    <3> QED BY <3>1, <3>2 DEF Loops
  <2>7. k + 1 \in 0..n
    OBVIOUS
  <2> HIDE DEF g
  <2> QED BY <2>4, <2>6, <2>7
<1>3. \A k \in 0..n : k \in Good
  <2> HIDE DEF Good
  <2> QED BY <1>1, <1>2, Induct
<1> n \in 0..n
  OBVIOUS
<1> QED BY <1>3

(* What g says of the first k indices follows from what it says of the first k - 1 *)
Unrolls(g, n, B, base, step) ==
  /\ g[{}] = base
  /\ \A k \in 1..n : g[1..(k - 1)] \in B => g[1..k] = step[<<g[1..(k - 1)], k>>]
Rounds(r, n, B, base, step, result) ==
  /\ r \in [0..n -> B] /\ r[0] = base /\ r[n] = result
  /\ \A k \in 1..n : r[k] = step[<<r[k - 1], k>>]

(* The loop has a result after each round: the fold over the first places. *)
LEMMA LoopResult ==
  ASSUME NEW n \in Nat, NEW B, NEW base \in B, NEW step \in [B \X (1..n) -> B], NEW g,
         Unrolls(g, n, B, base, step)
  PROVE  \E r : Rounds(r, n, B, base, step, g[1..n])
<1> USE DEF Unrolls
<1> DEFINE Good == {k \in 0..n : g[1..k] \in B}
<1> DEFINE r == [k \in 0..n |-> g[1..k]]
<1>0. 1..0 = {}
  OBVIOUS
<1>1. 0 \in Good
  BY <1>0
<1>2. ASSUME NEW k \in 0..(n - 1), k \in Good PROVE k + 1 \in Good
  <2>1. k + 1 \in 1..n /\ (k + 1) - 1 = k /\ k + 1 \in 0..n
    OBVIOUS
  <2>2. g[1..(k + 1)] = step[<<g[1..k], k + 1>>]
    BY <1>2, <2>1
  <2> QED BY <1>2, <2>1, <2>2
<1>3. \A k \in 0..n : k \in Good
  <2> HIDE DEF Good
  <2> QED BY <1>1, <1>2, Induct
<1>4. r \in [0..n -> B]
  BY <1>3
<1>5. ASSUME NEW k \in 1..n PROVE r[k] = step[<<r[k - 1], k>>]
  <2> k \in 0..n /\ k - 1 \in 0..n
    OBVIOUS
  <2> QED BY <1>3
<1>6. r[0] = base /\ r[n] = g[1..n]
  BY <1>0
<1> HIDE DEF r
<1> QED BY <1>4, <1>5, <1>6 DEF Rounds

(* The largest of the first k numbers *)
LEMMA LastOf ==
  ASSUME NEW k \in Nat \ {0}
  PROVE  LargestOf(1..k) = k /\ (1..k) \ {k} = 1..(k - 1) /\ 1..k # {}
<1>1. k \in 1..k
  OBVIOUS
<1>2. LargestOf(1..k) \in 1..k /\ \A y \in 1..k : y <= LargestOf(1..k)
  BY <1>1, Largest
<1> QED BY <1>1, <1>2

(* A loop that appends some of what it sees *)
Filters(r, seq, S, good) ==
  /\ r \in [0..Len(seq) -> Seq(S)] /\ r[0] = <<>> /\ r[Len(seq)] = P!Where(seq, good)
  /\ \A k \in 1..Len(seq) :
       r[k] = IF seq[k] \in good THEN Append(r[k - 1], seq[k]) ELSE r[k - 1]

(* The loop that filters: its result after each round. *)
LEMMA WhereUnfolds ==
  ASSUME NEW S, NEW seq \in Seq(S), NEW good
  PROVE  \E r : Filters(r, seq, S, good)
<1> DEFINE n == Len(seq)
<1> DEFINE step == [p \in Seq(S) \X (1..n) |->
                      IF seq[p[2]] \in good THEN Append(p[1], seq[p[2]]) ELSE p[1]]
<1> DEFINE Fold(h) == h = [s \in SUBSET DOMAIN seq |->
                              IF s = {} THEN <<>>
                              ELSE IF seq[LargestOf(s)] \in good
                                   THEN Append(h[s \ {LargestOf(s)}], seq[LargestOf(s)])
                                   ELSE h[s \ {LargestOf(s)}]]
<1> DEFINE g == CHOOSE h : Fold(h)
<1>1. n \in Nat /\ DOMAIN seq = 1..n /\ (\A k \in 1..n : seq[k] \in S) /\ <<>> \in Seq(S)
  OBVIOUS
<1>2. step \in [Seq(S) \X (1..n) -> Seq(S)]
  BY <1>1
<1>3. P!Where(seq, good) = g[1..n]
  BY <1>1 DEF P!Where, P!FoldLeft, P!MapThenFoldSet, P!Max, LargestOf
<1>4. \E h : Fold(h)
  <2>1. PICK h \in [SUBSET (1..n) -> Seq(S)] : Loops(h, n, <<>>, step)
    <3> HIDE DEF step
    <3> QED BY <1>1, <1>2, LoopExists
  <2>2. ASSUME NEW s \in SUBSET (1..n), s # {}
        PROVE  step[<<h[s \ {LargestOf(s)}], LargestOf(s)>>]
                 = IF seq[LargestOf(s)] \in good
                   THEN Append(h[s \ {LargestOf(s)}], seq[LargestOf(s)])
                   ELSE h[s \ {LargestOf(s)}]
    <3>1. LargestOf(s) \in 1..n /\ s \ {LargestOf(s)} \in SUBSET (1..n)
      BY <1>1, <2>2, Largest
    <3> QED BY <3>1
  <2>3. Fold(h)
    <3> HIDE DEF step, n, g
    <3> QED BY <1>1, <2>1, <2>2 DEF Loops
  <2> QED BY <2>3
<1>5. Fold(g)
  <2> HIDE DEF Fold
  <2> QED BY <1>4
<1> HIDE DEF g, n
<1>6. g[{}] = <<>>
  BY <1>5
<1>7. ASSUME NEW k \in 1..n, g[1..(k - 1)] \in Seq(S)
      PROVE  g[1..k] = step[<<g[1..(k - 1)], k>>]
  <2>1. LargestOf(1..k) = k /\ (1..k) \ {k} = 1..(k - 1) /\ 1..k # {} /\ 1..k \in SUBSET (1..n)
    <3>1. k \in Nat \ {0} /\ 1..k \in SUBSET (1..n)
      BY <1>1
    <3> QED BY <3>1, LastOf
  <2>2. g[1..k] = IF seq[k] \in good THEN Append(g[1..(k - 1)], seq[k]) ELSE g[1..(k - 1)]
    <3> HIDE DEF step
    <3> QED BY <1>1, <1>5, <2>1
  <2> QED BY <1>7, <2>2
<1>8. Unrolls(g, n, Seq(S), <<>>, step)
  <2> HIDE DEF step
  <2> QED BY <1>6, <1>7 DEF Unrolls
<1>10. PICK r : Rounds(r, n, Seq(S), <<>>, step, g[1..n])
  <2> HIDE DEF step
  <2> QED BY <1>1, <1>2, <1>8, LoopResult
<1>9. ASSUME NEW k \in 1..n
      PROVE  r[k] = IF seq[k] \in good THEN Append(r[k - 1], seq[k]) ELSE r[k - 1]
  <2> k - 1 \in 0..n
    BY <1>1
  <2> QED BY <1>10 DEF Rounds
<1> QED BY <1>3, <1>10, <1>9 DEF n, Rounds, Filters

(* A loop that appends what it has not appended before *)
LEMMA DistinctUnfolds ==
  ASSUME NEW S, NEW seq \in Seq(S)
  PROVE  \E r \in [0..Len(seq) -> Seq(S)] :
           /\ r[0] = <<>> /\ r[Len(seq)] = P!Distinct(seq)
           /\ \A k \in 1..Len(seq) :
                r[k] = IF P!Contains(r[k - 1], seq[k]) THEN r[k - 1] ELSE Append(r[k - 1], seq[k])
<1> DEFINE n == Len(seq)
<1> DEFINE step == [p \in Seq(S) \X (1..n) |->
                      IF P!Contains(p[1], seq[p[2]]) THEN p[1] ELSE Append(p[1], seq[p[2]])]
<1> DEFINE Fold(h) == h = [s \in SUBSET DOMAIN seq |->
                              IF s = {} THEN <<>>
                              ELSE IF P!Contains(h[s \ {LargestOf(s)}], seq[LargestOf(s)])
                                   THEN h[s \ {LargestOf(s)}]
                                   ELSE Append(h[s \ {LargestOf(s)}], seq[LargestOf(s)])]
<1> DEFINE g == CHOOSE h : Fold(h)
<1>1. n \in Nat /\ DOMAIN seq = 1..n /\ (\A k \in 1..n : seq[k] \in S) /\ <<>> \in Seq(S)
  OBVIOUS
<1>2. step \in [Seq(S) \X (1..n) -> Seq(S)]
  BY <1>1
<1>3. P!Distinct(seq) = g[1..n]
  BY <1>1 DEF P!Distinct, P!FoldLeft, P!MapThenFoldSet, P!Max, LargestOf
<1>4. \E h : Fold(h)
  <2>1. PICK h \in [SUBSET (1..n) -> Seq(S)] : Loops(h, n, <<>>, step)
    <3> HIDE DEF step
    <3> QED BY <1>1, <1>2, LoopExists
  <2>2. ASSUME NEW s \in SUBSET (1..n), s # {}
        PROVE  step[<<h[s \ {LargestOf(s)}], LargestOf(s)>>]
                 = IF P!Contains(h[s \ {LargestOf(s)}], seq[LargestOf(s)])
                   THEN h[s \ {LargestOf(s)}]
                   ELSE Append(h[s \ {LargestOf(s)}], seq[LargestOf(s)])
    <3>1. LargestOf(s) \in 1..n /\ s \ {LargestOf(s)} \in SUBSET (1..n)
      BY <1>1, <2>2, Largest
    <3> QED BY <3>1
  <2>3. Fold(h)
    <3> HIDE DEF step, n, g
    <3> QED BY <1>1, <2>1, <2>2 DEF Loops
  <2> QED BY <2>3
<1>5. Fold(g)
  <2> HIDE DEF Fold
  <2> QED BY <1>4
<1> HIDE DEF g, n
<1>6. g[{}] = <<>>
  BY <1>5
<1>7. ASSUME NEW k \in 1..n, g[1..(k - 1)] \in Seq(S)
      PROVE  g[1..k] = step[<<g[1..(k - 1)], k>>]
  <2>1. LargestOf(1..k) = k /\ (1..k) \ {k} = 1..(k - 1) /\ 1..k # {} /\ 1..k \in SUBSET (1..n)
    <3>1. k \in Nat \ {0} /\ 1..k \in SUBSET (1..n)
      BY <1>1
    <3> QED BY <3>1, LastOf
  <2>2. g[1..k] = IF P!Contains(g[1..(k - 1)], seq[k]) THEN g[1..(k - 1)]
                 ELSE Append(g[1..(k - 1)], seq[k])
    <3> HIDE DEF step
    <3> QED BY <1>1, <1>5, <2>1
  <2> QED BY <1>7, <2>2
<1>8. Unrolls(g, n, Seq(S), <<>>, step)
  <2> HIDE DEF step
  <2> QED BY <1>6, <1>7 DEF Unrolls
<1>10. PICK r : Rounds(r, n, Seq(S), <<>>, step, g[1..n])
  <2> HIDE DEF step
  <2> QED BY <1>1, <1>2, <1>8, LoopResult
<1>9. ASSUME NEW k \in 1..n
      PROVE  r[k] = IF P!Contains(r[k - 1], seq[k]) THEN r[k - 1] ELSE Append(r[k - 1], seq[k])
  <2> k - 1 \in 0..n
    BY <1>1
  <2> QED BY <1>10 DEF Rounds
<1> QED BY <1>3, <1>10, <1>9 DEF n, Rounds
-----------------------------------------------------------------------------
(* Sequences and the loops that filter *)

-----------------------------------------------------------------------------
IsSeq(s) == \E S : s \in Seq(S)

(* A sequence is one over what occurs in it. *)
LEMMA SeqOfItself ==
  ASSUME NEW s, IsSeq(s)
  PROVE  s \in Seq(P!ToSet(s)) /\ Len(s) \in Nat /\ DOMAIN s = 1..Len(s)
<1>1. PICK S : s \in Seq(S)
  BY DEF IsSeq
<1>2. \A i \in 1..Len(s) : s[i] \in P!ToSet(s)
  BY <1>1 DEF P!ToSet
<1>3. Len(s) \in Nat /\ DOMAIN s = 1..Len(s)
  BY <1>1
<1>4. s \in Seq(P!ToSet(s))
  BY <1>1, <1>2, ElementsOf
<1> QED BY <1>3, <1>4

(* What occurs in a sequence has a place there. *)
LEMMA InSeq ==
  ASSUME NEW s, IsSeq(s)
  PROVE  \A x : x \in P!ToSet(s) <=> \E i \in 1..Len(s) : x = s[i]
BY SeqOfItself DEF P!ToSet

(* An element is appended. *)
LEMMA Appended ==
  ASSUME NEW s, IsSeq(s), NEW x
  PROVE  /\ IsSeq(Append(s, x)) /\ P!ToSet(Append(s, x)) = P!ToSet(s) \cup {x}
         /\ Len(Append(s, x)) = Len(s) + 1 /\ Append(s, x)[Len(s) + 1] = x
         /\ \A i \in 1..Len(s) : Append(s, x)[i] = s[i]
<1>1. PICK S : s \in Seq(S)
  BY DEF IsSeq
<1> DEFINE Y == S \cup {x}
           t == Append(s, x)
<1>2. s \in Seq(Y)
  <2>1. \A i \in 1..Len(s) : s[i] \in Y
    BY <1>1
  <2> HIDE DEF Y
  <2> QED BY <1>1, <2>1, ElementsOf
<1>3. x \in Y
  OBVIOUS
<1> HIDE DEF Y
<1>4. /\ t \in Seq(Y) /\ Len(t) = Len(s) + 1 /\ t[Len(s) + 1] = x /\ Len(s) \in Nat
      /\ \A i \in 1..Len(s) : t[i] = s[i]
  BY <1>2, <1>3
<1>5. IsSeq(t)
  BY <1>4 DEF IsSeq
<1> HIDE DEF t
<1>6. IsSeq(s)
  OBVIOUS
<1>7. \A y : y \in P!ToSet(t) <=> y \in P!ToSet(s) \/ y = x
  <2> TAKE y
  <2>1. y \in P!ToSet(s) => y \in P!ToSet(t)
    <3> SUFFICES ASSUME y \in P!ToSet(s) PROVE y \in P!ToSet(t)
      OBVIOUS
    <3>1. PICK i \in 1..Len(s) : y = s[i]
      BY InSeq
    <3>2. i \in 1..Len(t) /\ y = t[i]
      BY <1>4, <3>1
    <3> QED BY <1>5, <3>2, InSeq
  <2>2. x \in P!ToSet(t)
    <3>1. Len(s) + 1 \in 1..Len(t)
      BY <1>4
    <3> QED BY <1>4, <1>5, <3>1, InSeq
  <2>3. ASSUME y \in P!ToSet(t) PROVE y \in P!ToSet(s) \/ y = x
    <3>1. PICK i \in 1..Len(t) : y = t[i]
      BY <1>5, <2>3, InSeq
    <3>2. i \in 1..Len(s) \/ i = Len(s) + 1
      BY <1>4
    <3>3. CASE i \in 1..Len(s)
      BY <1>4, <3>1, <3>3, InSeq
    <3>4. CASE i = Len(s) + 1
      BY <1>4, <3>1, <3>4
    <3> QED BY <3>2, <3>3, <3>4
  <2> QED BY <2>1, <2>2, <2>3
<1> QED BY <1>4, <1>5, <1>7 DEF t

(* The empty sequence. *)
LEMMA EmptySeq == IsSeq(<<>>) /\ P!ToSet(<<>>) = {} /\ P!IsInjective(<<>>)
<1>1. <<>> \in Seq({}) /\ DOMAIN <<>> = {}
  OBVIOUS
<1> QED BY <1>1 DEF IsSeq, P!ToSet, P!IsInjective

(* The loops that filter: their elements. *)
LEMMA WhereElements ==
  ASSUME NEW seq, IsSeq(seq), NEW good
  PROVE  IsSeq(P!Where(seq, good)) /\ P!ToSet(P!Where(seq, good)) = P!ToSet(seq) \cap good
<1> DEFINE n == Len(seq)
           S == P!ToSet(seq)
<1>1. seq \in Seq(S) /\ n \in Nat
  BY SeqOfItself
<1> HIDE DEF n, S
<1>0. PICK r : Filters(r, seq, S, good)
  BY <1>1, WhereUnfolds
<1>2. /\ r \in [0..n -> Seq(S)] /\ r[0] = <<>> /\ r[n] = P!Where(seq, good)
      /\ \A k \in 1..n :
           r[k] = IF seq[k] \in good THEN Append(r[k - 1], seq[k]) ELSE r[k - 1]
  BY <1>0 DEF n, Filters
<1> DEFINE Good == {k \in 0..n : P!ToSet(r[k]) = {seq[i] : i \in 1..k} \cap good}
<1>3. \A k \in 0..n : IsSeq(r[k])
  BY <1>2 DEF IsSeq
<1>4. 0 \in Good
  <2> 1..0 = {}
    OBVIOUS
  <2> QED BY <1>1, <1>2, EmptySeq
<1>5. ASSUME NEW k \in 0..(n - 1), k \in Good
      PROVE  k + 1 \in Good
  <2>1. k + 1 \in 1..n /\ k + 1 \in 0..n /\ k \in 0..n /\ (k + 1) - 1 = k
    BY <1>1
  <2>2. \A x : x \in {seq[i] : i \in 1..(k + 1)} <=> x \in {seq[i] : i \in 1..k} \/ x = seq[k + 1]
    <3>1. \A i : i \in 1..(k + 1) <=> i \in 1..k \/ i = k + 1
      BY <2>1
    <3> QED BY <3>1
  <2>3. r[k + 1] = IF seq[k + 1] \in good THEN Append(r[k], seq[k + 1]) ELSE r[k]
    BY <1>2, <2>1
  <2>4. P!ToSet(r[k]) = {seq[i] : i \in 1..k} \cap good
    BY <1>5
  <2>5. P!ToSet(Append(r[k], seq[k + 1])) = P!ToSet(r[k]) \cup {seq[k + 1]}
    BY <1>3, <2>1, Appended
  <2>6. P!ToSet(r[k + 1]) = {seq[i] : i \in 1..(k + 1)} \cap good
    BY <2>2, <2>3, <2>4, <2>5
  <2> QED BY <2>1, <2>6
<1>6. n \in Good
  <2> HIDE DEF Good
  <2>1. \A k \in 0..n : k \in Good
    BY <1>1, <1>4, <1>5, Induct
  <2> QED BY <1>1, <2>1
<1>7. {seq[i] : i \in 1..n} = P!ToSet(seq)
  BY SeqOfItself DEF P!ToSet, n
<1>8. n \in 0..n
  BY <1>1
<1> QED BY <1>2, <1>3, <1>6, <1>7, <1>8

(* The loop that drops repetitions keeps every element, once. *)
LEMMA DistinctElements ==
  ASSUME NEW seq, IsSeq(seq)
  PROVE  /\ IsSeq(P!Distinct(seq)) /\ P!ToSet(P!Distinct(seq)) = P!ToSet(seq)
         /\ P!IsInjective(P!Distinct(seq))
<1> DEFINE n == Len(seq)
           S == P!ToSet(seq)
<1>1. seq \in Seq(S) /\ n \in Nat
  BY SeqOfItself
<1> HIDE DEF n, S
<1>2. PICK r \in [0..n -> Seq(S)] :
           /\ r[0] = <<>> /\ r[n] = P!Distinct(seq)
           /\ \A k \in 1..n :
                r[k] = IF P!Contains(r[k - 1], seq[k]) THEN r[k - 1]
                       ELSE Append(r[k - 1], seq[k])
  BY <1>1, DistinctUnfolds DEF n
<1> DEFINE Good == {k \in 0..n : /\ P!ToSet(r[k]) = {seq[i] : i \in 1..k}
                                 /\ P!IsInjective(r[k])}
<1>3. \A k \in 0..n : IsSeq(r[k])
  BY <1>2 DEF IsSeq
<1>4. 0 \in Good
  <2> 1..0 = {}
    OBVIOUS
  <2> QED BY <1>1, <1>2, EmptySeq
<1>5. ASSUME NEW k \in 0..(n - 1), k \in Good
      PROVE  k + 1 \in Good
  <2>1. k + 1 \in 1..n /\ k + 1 \in 0..n /\ k \in 0..n /\ (k + 1) - 1 = k
    BY <1>1
  <2>2. \A x : x \in {seq[i] : i \in 1..(k + 1)} <=> x \in {seq[i] : i \in 1..k} \/ x = seq[k + 1]
    <3>1. \A i : i \in 1..(k + 1) <=> i \in 1..k \/ i = k + 1
      BY <2>1
    <3> QED BY <3>1
  <2>3. r[k + 1] = IF P!Contains(r[k], seq[k + 1]) THEN r[k] ELSE Append(r[k], seq[k + 1])
    BY <1>2, <2>1
  <2>4. P!ToSet(r[k]) = {seq[i] : i \in 1..k} /\ P!IsInjective(r[k])
    BY <1>5
  <2>5. P!Contains(r[k], seq[k + 1]) <=> seq[k + 1] \in P!ToSet(r[k])
    <3>1. IsSeq(r[k])
      BY <1>3, <2>1
    <3> QED BY <3>1, InSeq DEF P!Contains
  <2>6. CASE P!Contains(r[k], seq[k + 1])
    <3>1. P!ToSet(r[k + 1]) = {seq[i] : i \in 1..(k + 1)}
      BY <2>2, <2>3, <2>4, <2>5, <2>6
    <3> QED BY <2>1, <2>3, <2>4, <2>6, <3>1
  <2>7. CASE ~P!Contains(r[k], seq[k + 1])
    <3> DEFINE s == r[k]
               t == r[k + 1]
    <3>1. /\ IsSeq(t) /\ P!ToSet(t) = P!ToSet(s) \cup {seq[k + 1]}
          /\ Len(t) = Len(s) + 1 /\ t[Len(s) + 1] = seq[k + 1]
          /\ \A i \in 1..Len(s) : t[i] = s[i]
      BY <1>3, <2>1, <2>3, <2>7, Appended
    <3>2. /\ IsSeq(s) /\ seq[k + 1] \notin P!ToSet(s) /\ P!IsInjective(s)
          /\ P!ToSet(s) = {seq[i] : i \in 1..k}
      BY <1>3, <2>1, <2>4, <2>5, <2>7
    <3> HIDE DEF s, t
    <3>3. DOMAIN s = 1..Len(s) /\ DOMAIN t = 1..(Len(s) + 1) /\ Len(s) \in Nat
      BY <3>1, <3>2, SeqOfItself
    <3>4. ASSUME NEW i \in DOMAIN t, NEW j \in DOMAIN t, t[i] = t[j]
          PROVE  i = j
      <4>1. (i \in 1..Len(s) \/ i = Len(s) + 1) /\ (j \in 1..Len(s) \/ j = Len(s) + 1)
        BY <3>3
      <4>2. \A l \in 1..Len(s) : s[l] # seq[k + 1]
        BY <3>2, InSeq
      <4>3. CASE i \in 1..Len(s) /\ j \in 1..Len(s)
        BY <3>1, <3>2, <3>3, <3>4, <4>3 DEF P!IsInjective
      <4> QED BY <3>1, <3>4, <4>1, <4>2, <4>3
    <3>5. P!IsInjective(t)
      BY <3>4 DEF P!IsInjective
    <3>6. P!ToSet(t) = {seq[i] : i \in 1..(k + 1)}
      BY <2>2, <3>1, <3>2
    <3> QED BY <2>1, <3>5, <3>6 DEF t
  <2> QED BY <2>6, <2>7
<1>6. n \in Good
  <2> HIDE DEF Good
  <2>1. \A k \in 0..n : k \in Good
    BY <1>1, <1>4, <1>5, Induct
  <2> QED BY <1>1, <2>1
<1>7. {seq[i] : i \in 1..n} = P!ToSet(seq)
  BY SeqOfItself DEF P!ToSet, n
<1>8. n \in 0..n
  BY <1>1
<1> QED BY <1>2, <1>3, <1>6, <1>7, <1>8
-----------------------------------------------------------------------------
(* The files of a project and its markers *)

Joins(u, s, t) ==
  /\ IsSeq(u) /\ P!ToSet(u) = P!ToSet(s) \cup P!ToSet(t)
  /\ Len(u) = Len(s) + Len(t)
  /\ \A i \in 1..Len(s) : u[i] = s[i]
  /\ \A i \in 1..Len(t) : u[Len(s) + i] = t[i]

(* Two sequences one after the other. *)
LEMMA Concatenated ==
  ASSUME NEW s, IsSeq(s), NEW t, IsSeq(t)
  PROVE  Joins(s \o t, s, t)
<1>1. PICK S : s \in Seq(S)
  BY DEF IsSeq
<1>2. PICK Y : t \in Seq(Y)
  BY DEF IsSeq
<1> DEFINE B == S \cup Y
           u == s \o t
<1>3. s \in Seq(B) /\ t \in Seq(B)
  <2>1. (\A i \in 1..Len(s) : s[i] \in B) /\ (\A i \in 1..Len(t) : t[i] \in B)
    BY <1>1, <1>2
  <2> HIDE DEF B
  <2> QED BY <1>1, <1>2, <2>1, ElementsOf
<1> HIDE DEF B
<1>4. /\ u \in Seq(B) /\ Len(u) = Len(s) + Len(t) /\ Len(s) \in Nat /\ Len(t) \in Nat
      /\ \A i \in 1..Len(s) : u[i] = s[i]
      /\ \A i \in 1..Len(t) : u[Len(s) + i] = t[i]
  BY <1>3
<1>5. IsSeq(u)
  BY <1>4 DEF IsSeq
<1> HIDE DEF u
<1>6. \A y : y \in P!ToSet(u) <=> y \in P!ToSet(s) \/ y \in P!ToSet(t)
  <2> TAKE y
  <2>1. ASSUME y \in P!ToSet(s) PROVE y \in P!ToSet(u)
    <3>1. PICK i \in 1..Len(s) : y = s[i]
      BY <2>1, InSeq
    <3>2. i \in 1..Len(u) /\ y = u[i]
      BY <1>4, <3>1
    <3> QED BY <1>5, <3>2, InSeq
  <2>2. ASSUME y \in P!ToSet(t) PROVE y \in P!ToSet(u)
    <3>1. PICK i \in 1..Len(t) : y = t[i]
      BY <2>2, InSeq
    <3>2. Len(s) + i \in 1..Len(u) /\ y = u[Len(s) + i]
      BY <1>4, <3>1
    <3> QED BY <1>5, <3>2, InSeq
  <2>3. ASSUME y \in P!ToSet(u) PROVE y \in P!ToSet(s) \/ y \in P!ToSet(t)
    <3>1. PICK i \in 1..Len(u) : y = u[i]
      BY <1>5, <2>3, InSeq
    <3>2. CASE i \in 1..Len(s)
      BY <1>4, <3>1, <3>2, InSeq
    <3>3. CASE i \notin 1..Len(s)
      <4>1. i - Len(s) \in 1..Len(t) /\ Len(s) + (i - Len(s)) = i
        BY <1>4, <3>1, <3>3
      <4>2. y = t[i - Len(s)]
        BY <1>4, <3>1, <4>1
      <4> QED BY <4>1, <4>2, InSeq
    <3> QED BY <3>2, <3>3
  <2> QED BY <2>1, <2>2, <2>3
<1>7. Joins(u, s, t)
  BY <1>4, <1>5, <1>6 DEF Joins
<1> QED BY <1>7 DEF u

(* The files of a requirement are some of its package's. *)
LEMMA SelectedFiles ==
  ASSUME NEW links, IsSeq(links), NEW cs
  PROVE  LET own == P!SelectFiles(links, cs).files
         IN IsSeq(own) /\ P!ToSet(own) \subseteq P!ToSet(links)
<1> DEFINE named == P!Where(links, {f \in P!ToSet(links) : P!Parsable(P!fileVersion(f))})
           versions == [i \in DOMAIN named |-> P!ParseVersion(P!fileVersion(named[i]))]
           matched == P!Where(versions, {v \in P!ToSet(versions) : P!Satisfy(v, cs)})
           higher(b, v) == IF P!Compare(v, b) > 0 THEN v ELSE b
           best == P!FoldLeft(higher, Head(matched), Tail(matched)).original
           chosen == P!Where(named, {f \in P!ToSet(named) : P!fileVersion(f) = best})
           files0 == P!SelectFiles(links, cs).files
<1>1. files0 = IF matched = <<>> THEN <<>> ELSE chosen
  BY DEF P!SelectFiles, P!NoFiles
<1>2. IsSeq(named) /\ P!ToSet(named) \subseteq P!ToSet(links)
  <2> DEFINE good == {f \in P!ToSet(links) : P!Parsable(P!fileVersion(f))}
  <2> HIDE DEF good
  <2> QED BY WhereElements DEF named, good
<1> HIDE DEF named, best
<1>3. IsSeq(chosen) /\ P!ToSet(chosen) \subseteq P!ToSet(named)
  <2> DEFINE good == {f \in P!ToSet(named) : P!fileVersion(f) = best}
  <2> HIDE DEF good
  <2> QED BY <1>2, WhereElements DEF good
<1> HIDE DEF chosen, matched, files0
<1>4. IsSeq(files0) /\ P!ToSet(files0) \subseteq P!ToSet(links)
  BY <1>1, <1>2, <1>3, EmptySeq
<1> QED BY <1>4 DEF files0

(* FilterArtifacts keeps files of those it is given. *)
LEMMA KeptFiles ==
  ASSUME NEW s, IsSeq(s), NEW policy
  PROVE  IsSeq(P!FilterArtifacts(s, policy))
      /\ P!ToSet(P!FilterArtifacts(s, policy)) \subseteq P!ToSet(s)
<1> DEFINE good == {f \in P!ToSet(s) : P!Kept(f, policy)}
           kept == P!Where(s, good)
<1>1. P!FilterArtifacts(s, policy) = P!Distinct(kept)
  BY DEF P!FilterArtifacts
<1> HIDE DEF good
<1>2. IsSeq(kept) /\ P!ToSet(kept) \subseteq P!ToSet(s)
  BY WhereElements
<1> HIDE DEF kept
<1>3. IsSeq(P!Distinct(kept)) /\ P!ToSet(P!Distinct(kept)) = P!ToSet(kept)
  BY <1>2, DistinctElements
<1> QED BY <1>1, <1>2, <1>3

(* resolvePackageFiles returns files of the index page. *)
LEMMA ResolvedFiles ==
  ASSUME NEW wish, IsSeq(world.index[wish.name])
  PROVE  LET files0 == P!resolvePackageFiles(wish)
         IN IsSeq(files0) /\ P!ToSet(files0) \subseteq P!ToSet(world.index[wish.name])
<1> DEFINE links == world.index[wish.name]
           selected == P!SelectFiles(links, wish.cs).files
<1>1. P!resolvePackageFiles(wish) = P!FilterArtifacts(selected, world.policy)
  BY DEF P!resolvePackageFiles
<1>2. IsSeq(selected) /\ P!ToSet(selected) \subseteq P!ToSet(links)
  BY SelectedFiles
<1> HIDE DEF selected
<1>3. /\ IsSeq(P!FilterArtifacts(selected, world.policy))
      /\ P!ToSet(P!FilterArtifacts(selected, world.policy)) \subseteq P!ToSet(selected)
  BY <1>2, KeptFiles
<1> QED BY <1>1, <1>2, <1>3

(* The metadata is that of one of the wheels. *)
LEMMA MetadataIsOfWheel ==
  ASSUME NEW s, IsSeq(s)
  PROVE  LET f == P!pickMetadata(s)
         IN f = None \/ (f \in P!ToSet(s) /\ f.kind \in {"wheel", "none-any"})
<1> DEFINE A == {i \in 1..Len(s) : s[i].kind = "none-any"}
           W == {i \in 1..Len(s) : s[i].kind = "wheel"}
           any == IF A # {} THEN LeastOf(A) ELSE 0
           wheel == IF W # {} THEN LeastOf(W) ELSE 0
           f == P!pickMetadata(s)
<1>1. f = IF any # 0 THEN s[any] ELSE IF wheel # 0 THEN s[wheel] ELSE None
  BY DEF P!pickMetadata, P!SelectInSeq, P!Min, LeastOf
<1>2. A \in SUBSET Nat /\ W \in SUBSET Nat
  BY SeqOfItself
<1>3. (A # {} => LeastOf(A) \in A) /\ (W # {} => LeastOf(W) \in W)
  <2> HIDE DEF A, W
  <2>1. ASSUME NEW Y \in SUBSET Nat, Y # {} PROVE LeastOf(Y) \in Y
    <3>1. \E x \in Y : \A y \in Y : x <= y
      BY <2>1, Least
    <3> QED BY <3>1 DEF LeastOf
  <2> QED BY <1>2, <2>1
<1>4. (any # 0 => any \in A) /\ (wheel # 0 => wheel \in W)
  BY <1>3
<1> HIDE DEF any, wheel, f
<1>5. CASE any # 0
  BY <1>1, <1>4, <1>5, InSeq DEF f
<1>6. CASE any = 0 /\ wheel # 0
  BY <1>1, <1>4, <1>6, InSeq DEF f
<1>7. CASE any = 0 /\ wheel = 0
  BY <1>1, <1>7 DEF f
<1> QED BY <1>5, <1>6, <1>7

-----------------------------------------------------------------------------
(* Markers.  Of one atom, the comparison is looked at. *)
LEMMA AtomMeans ==
  ASSUME NEW a, NEW py, NEW plat
  PROVE  P!evalMarkerAtom(<<a>>, py, plat) <=> P!Compares(a, py, plat)
<1> DEFINE Keys == P!Keys
           atoms == <<a>>
           K == {k \in 1..Len(Keys) : \E i \in DOMAIN atoms : atoms[i].key = Keys[k]}
           F == {k \in 1..Len(atoms) : atoms[k].key \in P!ToSet(Keys)}
           key == IF K # {} THEN LeastOf(K) ELSE 0
           first == IF F # {} THEN LeastOf(F) ELSE 0
<1>1. P!evalMarkerAtom(atoms, py, plat) <=>
        (key # 0 /\ atoms[first].key = Keys[key] => P!Compares(atoms[first], py, plat))
  BY DEF P!evalMarkerAtom, P!SelectInSeq, P!Min, LeastOf
<1>2. Len(Keys) = 4 /\ DOMAIN Keys = 1..4
  BY DEF P!Keys
<1>3. Len(atoms) = 1 /\ atoms[1] = a /\ DOMAIN atoms = 1..1
  OBVIOUS
<1> HIDE DEF atoms, Keys
<1>4. K = {k \in 1..4 : a.key = Keys[k]}
  BY <1>2, <1>3
<1>5. F = IF a.key \in P!ToSet(Keys) THEN {1} ELSE {}
  BY <1>3
<1>6. a.key \in P!ToSet(Keys) <=> K # {}
  BY <1>2, <1>4 DEF P!ToSet
<1> HIDE DEF K, F
<1>7. CASE K = {}
  <2>1. a.key \notin {"python_version", "python_full_version"}
    <3>1. Keys[1] = "python_version" /\ Keys[2] = "python_full_version"
      BY DEF Keys, P!Keys
    <3> QED BY <1>4, <1>7, <3>1
  <2>2. P!Compares(a, py, plat)
    BY <1>6, <1>7, <2>1 DEF P!Compares, Keys
  <2> QED BY <1>1, <1>7, <2>2 DEF atoms
<1>8. CASE K # {}
  <2>1. K \in SUBSET Nat
    BY <1>4
  <2>2. LeastOf(K) \in K
    <3>1. \E x \in K : \A y \in K : x <= y
      BY <1>8, <2>1, Least
    <3> QED BY <3>1 DEF LeastOf
  <2>3. key # 0 /\ a.key = Keys[key]
    BY <1>4, <1>8, <2>2
  <2>4. LeastOf({1}) = 1
    BY LeastIs
  <2>5. first = 1
    BY <1>5, <1>6, <1>8, <2>4
  <2> HIDE DEF key, first
  <2>6. P!evalMarkerAtom(atoms, py, plat) <=> P!Compares(atoms[1], py, plat)
    BY <1>1, <1>3, <2>3, <2>5
  <2> QED BY <1>3, <2>6 DEF atoms
<1> QED BY <1>7, <1>8

(* Without "or", evalMarkerForPython decides what the marker says. *)
LEMMA MarkerMeans ==
  ASSUME NEW m, ~m.or, NEW py, NEW plat
  PROVE  P!evalMarkerForPython(m, py, plat) <=> P!Needed(m, py, plat)
BY AtomMeans DEF P!evalMarkerForPython, P!Needed
-----------------------------------------------------------------------------
(* The expansion of PyPI packages: its invariant *)

(* Without its first element *)
LEMMA TailOf ==
  ASSUME NEW q, IsSeq(q), q # <<>>
  PROVE  /\ IsSeq(Tail(q)) /\ Len(Tail(q)) = Len(q) - 1 /\ Head(q) = q[1]
         /\ Len(q) \in Nat \ {0} /\ 1 \in DOMAIN q
         /\ \A i \in 1..(Len(q) - 1) : Tail(q)[i] = q[i + 1]
<1>1. PICK S : q \in Seq(S)
  BY DEF IsSeq
<1>2. Tail(q) \in Seq(S)
  BY <1>1
<1> QED BY <1>1, <1>2 DEF IsSeq

-----------------------------------------------------------------------------
(* The invariant of PyPI's expansion *)
Names == DOMAIN world.index \cup {"win32"}
Resolved(t) ==
  /\ t.depth \in Nat /\ t.req.name \in DOMAIN world.index
  /\ t.files = P!resolvePackageFiles(t.req) \/ t.files = <<>>
  /\ t.deps = P!Dependencies(P!pickMetadata(t.files)) \/ t.deps = <<>>
Reached(name, most) ==
  \/ name \in {"win32"}
  \/ \E i \in DOMAIN taken : taken[i].req.name = name /\ taken[i].depth <= most
  \/ \E i \in DOMAIN pypiQueue : pypiQueue[i].req.name = name /\ pypiQueue[i].depth <= most

(* First come, first served: what waits is at most one deeper than the     *)
(* first, and nothing is nearer than what was taken before                 *)
NearestFirst ==
  /\ \A i, j \in DOMAIN taken : i < j => taken[i].depth <= taken[j].depth
  /\ \A i \in DOMAIN taken, j \in DOMAIN pypiQueue : taken[i].depth <= pypiQueue[j].depth
  /\ \A i, j \in DOMAIN pypiQueue : i < j => pypiQueue[i].depth <= pypiQueue[j].depth
  /\ \A i \in DOMAIN pypiQueue : pypiQueue[i].depth <= pypiQueue[1].depth + 1
OnlyRoot == taken = <<>> /\ Len(pypiQueue) = 1
RootFound == taken # <<>> /\ taken[1].files # <<>>
QueueIsReadable ==
  \A i \in DOMAIN pypiQueue : pypiQueue[i].depth # 0 => pypiQueue[i].req.readable

PypiInv ==
  /\ \E x \in Worlds : world = x[1] /\ item = x[2]
  /\ pypiResult \in {"running", "done", "error"}
  /\ IsSeq(pypiQueue) /\ IsSeq(taken) /\ IsSeq(files)
  /\ \A i \in DOMAIN pypiQueue : pypiQueue[i].depth \in Nat /\ pypiQueue[i].req.name \in Names
  /\ \A n \in DOMAIN taken : Resolved(taken[n])
  /\ pypiSeen = {taken[n].req.name : n \in DOMAIN taken}
  /\ \A i, j \in DOMAIN taken : i # j => taken[i].req.name # taken[j].req.name
  /\ NearestFirst
  /\ \A n \in DOMAIN taken : \A d \in P!ToSet(taken[n].deps) : Reached(d.name, taken[n].depth + 1)
  /\ P!IsInjective(files) /\ P!ToSet(files) = UNION {P!ToSet(taken[n].files) : n \in DOMAIN taken}
  /\ \A i \in DOMAIN pypiQueue : pypiQueue[i].depth = 0 => OnlyRoot
  /\ pypiResult = "running" => (OnlyRoot /\ pypiQueue[1].depth = 0) \/ RootFound
  /\ pypiResult = "done" => RootFound
  /\ pypiResult = "error" => Len(taken) <= 1
  /\ QueueIsReadable

(* The worlds are made of requirements whose packages have an index. *)
ProperLinks(links) ==
  /\ IsSeq(links)
  /\ \A f \in P!ToSet(links) : f.kind \in {"wheel", "none-any"} =>
       /\ IsSeq(world.requires[f.name][f.ver])
       /\ \A d \in P!ToSet(world.requires[f.name][f.ver]) : d.name \in Names

(* The index pages of every world are as the parameters are assumed to be. *)
LEMMA WorldIsProper ==
  ASSUME \E x \in Worlds : world = x[1] /\ item = x[2]
  PROVE  item.name \in Names /\ \A p \in DOMAIN world.index : ProperLinks(world.index[p])
<1>1. PICK x \in Worlds : world = x[1] /\ item = x[2]
  OBVIOUS
<1>2. item.name \in Names
  BY <1>1, WorldConstants DEF P!WorldConstants, Names
<1>3. ASSUME NEW p \in DOMAIN world.index
      PROVE  ProperLinks(world.index[p])
  <2>1. /\ world.index[p] \in Seq(P!ToSet(world.index[p]))
        /\ \A f \in {g \in P!ToSet(world.index[p]) : g.kind \in {"wheel", "none-any"}} :
             /\ world.requires[f.name][f.ver] \in Seq(P!ToSet(world.requires[f.name][f.ver]))
             /\ \A d \in P!ToSet(world.requires[f.name][f.ver]) : d.name \in Names
    BY <1>1, WorldConstants DEF P!WorldConstants, Names
  <2> QED BY <2>1 DEF ProperLinks, IsSeq
<1> QED BY <1>2, <1>3

(* What a package needs are some of the requirements of its wheel. *)
LEMMA DependenciesAre ==
  ASSUME NEW links, ProperLinks(links), NEW s, IsSeq(s), P!ToSet(s) \subseteq P!ToSet(links)
  PROVE  LET file0 == P!pickMetadata(s)
             deps == P!Dependencies(file0)
         IN /\ IsSeq(deps) /\ \A d \in P!ToSet(deps) : d.name \in Names /\ d.readable
            /\ deps # <<>> =>
                 \A d \in P!ToSet(world.requires[file0.name][file0.ver]) :
                   d \in P!ToSet(deps) <=> d.readable /\ P!EvalMarker(d.marker, world.targets)
<1> DEFINE f == P!pickMetadata(s)
           deps == P!Dependencies(f)
           requires == world.requires[f.name][f.ver]
           good == {d \in P!ToSet(requires) :
                    d.readable /\ P!EvalMarker(d.marker, world.targets)}
<1>1. f = None \/ (f \in P!ToSet(links) /\ f.kind \in {"wheel", "none-any"})
  BY MetadataIsOfWheel
<1> HIDE DEF f
<1>2. CASE f = None
  <2>1. deps = <<>>
    BY <1>2 DEF P!Dependencies
  <2> QED BY <2>1, EmptySeq DEF f
<1>3. CASE f # None
  <2>1. deps = P!Where(requires, good)
    BY <1>3 DEF P!Dependencies
  <2>2. IsSeq(requires) /\ \A d \in P!ToSet(requires) : d.name \in Names
    BY <1>1, <1>3 DEF ProperLinks
  <2>3. \A d : d \in good <=>
               d \in P!ToSet(requires) /\ d.readable /\ P!EvalMarker(d.marker, world.targets)
    OBVIOUS
  <2> HIDE DEF requires, good, deps
  <2>4. IsSeq(deps) /\ P!ToSet(deps) = P!ToSet(requires) \cap good
    BY <2>1, <2>2, WhereElements
  <2> QED BY <2>2, <2>3, <2>4 DEF f, deps, requires
<1> QED BY <1>2, <1>3

(* The files and the dependencies of what was taken *)
LEMMA ResolvedIsProper ==
  ASSUME \E x \in Worlds : world = x[1] /\ item = x[2], NEW t, Resolved(t)
  PROVE  /\ IsSeq(t.files) /\ P!ToSet(t.files) \subseteq P!ToSet(world.index[t.req.name])
         /\ IsSeq(t.deps) /\ \A d \in P!ToSet(t.deps) : d.name \in Names /\ d.readable
         /\ LET file0 == P!pickMetadata(t.files) IN
            t.deps # <<>> =>
              \A d \in P!ToSet(world.requires[file0.name][file0.ver]) :
                d \in P!ToSet(t.deps) <=> d.readable /\ P!EvalMarker(d.marker, world.targets)
<1>1. ProperLinks(world.index[t.req.name])
  BY WorldIsProper DEF Resolved
<1>2. IsSeq(t.files) /\ P!ToSet(t.files) \subseteq P!ToSet(world.index[t.req.name])
  <2>1. IsSeq(world.index[t.req.name])
    BY <1>1 DEF ProperLinks
  <2>2. /\ IsSeq(P!resolvePackageFiles(t.req))
        /\ P!ToSet(P!resolvePackageFiles(t.req)) \subseteq P!ToSet(world.index[t.req.name])
    BY <2>1, ResolvedFiles
  <2> QED BY <2>2, EmptySeq DEF Resolved
<1>3. CASE t.deps = <<>>
  BY <1>2, <1>3, EmptySeq
<1>4. CASE t.deps # <<>>
  <2>1. t.deps = P!Dependencies(P!pickMetadata(t.files))
    BY <1>4 DEF Resolved
  <2> QED BY <1>1, <1>2, <1>4, <2>1, DependenciesAre
<1> QED BY <1>3, <1>4
-----------------------------------------------------------------------------
(* The expansion of PyPI packages: the steps *)

(* At first only the package that was asked for waits. *)
LEMMA PypiBegins ==
  ASSUME P!Init
  PROVE  PypiInv
<1>1. \E x \in Worlds : world = x[1] /\ item = x[2]
  BY DEF P!Init
<1> DEFINE node == [req |-> item, depth |-> 0]
<1>2. /\ pypiQueue = <<node>> /\ pypiSeen = {} /\ files = <<>> /\ pypiResult = "running"
             /\ taken = <<>>
  BY DEF P!Init
<1>3. node.req = item /\ node.depth = 0
  OBVIOUS
<1> HIDE DEF node
<1>4. /\ IsSeq(pypiQueue) /\ DOMAIN pypiQueue = {1} /\ Len(pypiQueue) = 1 /\ pypiQueue[1] = node
      /\ DOMAIN taken = {} /\ Len(taken) = 0 /\ IsSeq(taken) /\ IsSeq(files)
      /\ P!IsInjective(files) /\ P!ToSet(files) = {}
  <2>1. <<node>> \in Seq({node})
    OBVIOUS
  <2>2. IsSeq(pypiQueue)
    BY <1>2, <2>1 DEF IsSeq
  <2> QED BY <1>2, <2>2, EmptySeq
<1>5. item.name \in Names
  BY <1>1, WorldIsProper
<1>6. NearestFirst
  BY <1>3, <1>4 DEF NearestFirst
<1>7. OnlyRoot
  BY <1>2, <1>4 DEF OnlyRoot
<1>8. QueueIsReadable
  BY <1>3, <1>4 DEF QueueIsReadable
<1> QED BY <1>1, <1>2, <1>3, <1>4, <1>5, <1>6, <1>7, <1>8 DEF PypiInv

(* A world that stays: what was resolved stays so. *)
LEMMA StaysResolved ==
  ASSUME world' = world
  PROVE  Names' = Names /\ \A t : Resolved(t)' <=> Resolved(t)
<1>1. \A t : /\ P!resolvePackageFiles(t.req)' = P!resolvePackageFiles(t.req)
             /\ P!Dependencies(P!pickMetadata(t.files))' = P!Dependencies(P!pickMetadata(t.files))
  BY DEF P!resolvePackageFiles, P!Dependencies
<1> QED BY <1>1 DEF Resolved, Names

(* A package that was seen before, or of no such platform, is passed over. *)
LEMMA PypiSkips ==
  ASSUME PypiInv, P!Skip
  PROVE  PypiInv'
<1> DEFINE cur == pypiQueue[1]
<1>1. /\ pypiResult = "running" /\ pypiQueue # <<>>
      /\ cur.depth # 0 => cur.req.name \in {"win32"} \cup pypiSeen
      /\ pypiResult' = IF cur.depth = 0 THEN "error" ELSE pypiResult
      /\ pypiQueue' = Tail(pypiQueue)
      /\ UNCHANGED <<world, item, pypiSeen, files, taken>>
  <2>1. Head(pypiQueue) = cur /\ 1 \in DOMAIN pypiQueue
    BY TailOf DEF P!Skip, PypiInv
  <2>2. cur.depth # 0 => cur.req.readable
    BY <2>1 DEF PypiInv, QueueIsReadable
  <2> QED BY <2>1, <2>2 DEF P!Skip, P!Fresh, P!cur
<1>2. /\ IsSeq(pypiQueue') /\ Len(pypiQueue') = Len(pypiQueue) - 1
      /\ Len(pypiQueue) \in Nat \ {0} /\ 1 \in DOMAIN pypiQueue
      /\ DOMAIN pypiQueue = 1..Len(pypiQueue) /\ DOMAIN pypiQueue' = 1..(Len(pypiQueue) - 1)
      /\ \A i \in 1..(Len(pypiQueue) - 1) : pypiQueue'[i] = pypiQueue[i + 1]
          /\ i + 1 \in DOMAIN pypiQueue
  <2>1. IsSeq(pypiQueue)
    BY DEF PypiInv
  <2>2. /\ IsSeq(Tail(pypiQueue)) /\ Len(Tail(pypiQueue)) = Len(pypiQueue) - 1
        /\ Len(pypiQueue) \in Nat \ {0} /\ 1 \in DOMAIN pypiQueue
        /\ \A i \in 1..(Len(pypiQueue) - 1) : Tail(pypiQueue)[i] = pypiQueue[i + 1]
    BY <1>1, <2>1, TailOf
  <2>3. DOMAIN pypiQueue = 1..Len(pypiQueue) /\ DOMAIN Tail(pypiQueue) = 1..(Len(pypiQueue) - 1)
    BY <2>1, <2>2, SeqOfItself
  <2>4. \A i \in 1..(Len(pypiQueue) - 1) : i + 1 \in DOMAIN pypiQueue
    BY <2>2, <2>3
  <2> QED BY <1>1, <2>2, <2>3, <2>4
<1> HIDE DEF cur
<1>3. \A i \in DOMAIN pypiQueue : pypiQueue[i].depth \in Nat /\ pypiQueue[i].req.name \in Names
  BY DEF PypiInv
<1>4. \A i \in DOMAIN pypiQueue' : pypiQueue'[i].depth \in Nat /\ pypiQueue'[i].req.name \in Names
  BY <1>2, <1>3
<1>5. \A n \in DOMAIN taken : Resolved(taken[n])' /\ taken[n].depth \in Nat
  BY <1>1, StaysResolved DEF PypiInv, Resolved
<1>6. NearestFirst'
  <2>1. NearestFirst
    BY DEF PypiInv
  <2>2. \A i, j \in DOMAIN pypiQueue' : i < j => pypiQueue'[i].depth <= pypiQueue'[j].depth
    <3>1. \A i, j \in DOMAIN pypiQueue' : i < j => i + 1 < j + 1
      BY <1>2
    <3> QED BY <1>2, <2>1, <3>1 DEF NearestFirst
  <2>3. \A i \in DOMAIN pypiQueue' : pypiQueue'[i].depth <= pypiQueue'[1].depth + 1
    <3> SUFFICES ASSUME NEW i \in DOMAIN pypiQueue'
                 PROVE  pypiQueue'[i].depth <= pypiQueue'[1].depth + 1
      OBVIOUS
    <3>1. 1 \in DOMAIN pypiQueue' /\ pypiQueue'[1] = pypiQueue[2] /\ 2 \in DOMAIN pypiQueue
      BY <1>2
    <3>2. pypiQueue'[i] = pypiQueue[i + 1] /\ i + 1 \in DOMAIN pypiQueue
      BY <1>2
    <3>3. pypiQueue[1].depth <= pypiQueue[2].depth
      BY <1>2, <2>1, <3>1 DEF NearestFirst
    <3>4. pypiQueue[i + 1].depth <= pypiQueue[1].depth + 1
      BY <2>1, <3>2 DEF NearestFirst
    <3>5. /\ pypiQueue[1].depth \in Nat /\ pypiQueue[2].depth \in Nat
          /\ pypiQueue[i + 1].depth \in Nat
      BY <1>2, <1>3, <3>1, <3>2
    <3>6. pypiQueue[i + 1].depth <= pypiQueue[2].depth + 1
      BY <3>3, <3>4, <3>5
    <3> QED BY <3>1, <3>2, <3>6
  <2>4. \A i \in DOMAIN taken, j \in DOMAIN pypiQueue' : taken[i].depth <= pypiQueue'[j].depth
    BY <1>2, <2>1 DEF NearestFirst
  <2>5. \A i, j \in DOMAIN taken : i < j => taken[i].depth <= taken[j].depth
    BY <2>1 DEF NearestFirst
  <2> QED BY <1>1, <2>2, <2>3, <2>4, <2>5 DEF NearestFirst
<1>7. ASSUME NEW n \in DOMAIN taken, NEW d \in P!ToSet(taken[n].deps)
      PROVE  Reached(d.name, taken[n].depth + 1)'
  <2>1. Reached(d.name, taken[n].depth + 1)
    BY DEF PypiInv
  <2>2. CASE d.name \in {"win32"}
    BY <2>2 DEF Reached
  <2>3. CASE \E i \in DOMAIN taken : taken[i].req.name = d.name
            /\ taken[i].depth <= taken[n].depth + 1
    BY <1>1, <2>3 DEF Reached
  <2>4. CASE /\ d.name \notin {"win32"}
             /\ \E i \in DOMAIN pypiQueue :
                  pypiQueue[i].req.name = d.name /\ pypiQueue[i].depth <= taken[n].depth + 1
    <3>1. PICK i \in DOMAIN pypiQueue :
                 pypiQueue[i].req.name = d.name /\ pypiQueue[i].depth <= taken[n].depth + 1
      BY <2>4
    <3>2. CASE i = 1
      <4>0. cur.depth # 0
        <5>1. cur.depth = 0 => taken = <<>>
          BY <1>2 DEF PypiInv, OnlyRoot, cur
        <5>2. DOMAIN <<>> = {}
          OBVIOUS
        <5> QED BY <5>1, <5>2
      <4>1. d.name \in pypiSeen
        BY <1>1, <2>4, <3>1, <3>2, <4>0 DEF cur
      <4>2. PICK k \in DOMAIN taken : taken[k].req.name = d.name
        BY <4>1 DEF PypiInv
      <4>3. taken[k].depth <= pypiQueue[1].depth
        BY <1>2 DEF PypiInv, NearestFirst
      <4>4. taken[k].depth \in Nat /\ taken[n].depth \in Nat /\ pypiQueue[1].depth \in Nat
        BY <1>2, <1>3, <1>5
      <4>5. taken[k].depth <= taken[n].depth + 1
        BY <3>1, <3>2, <4>3, <4>4
      <4> QED BY <1>1, <4>2, <4>5 DEF Reached
    <3>3. CASE i # 1
      <4>1. i - 1 \in 1..(Len(pypiQueue) - 1) /\ (i - 1) + 1 = i
        BY <1>2, <3>1, <3>3
      <4>2. i - 1 \in DOMAIN pypiQueue' /\ pypiQueue'[i - 1] = pypiQueue[i]
        BY <1>2, <4>1
      <4> QED BY <1>1, <3>1, <4>2 DEF Reached
    <3> QED BY <3>2, <3>3
  <2> QED BY <2>1, <2>2, <2>3, <2>4 DEF Reached
<1>8. \A i \in DOMAIN pypiQueue : pypiQueue[i].depth = 0 => OnlyRoot
  BY DEF PypiInv
<1>9. \A i \in DOMAIN pypiQueue' : pypiQueue'[i].depth # 0
  <2> SUFFICES ASSUME NEW i \in DOMAIN pypiQueue', pypiQueue'[i].depth = 0 PROVE FALSE
    OBVIOUS
  <2>1. OnlyRoot
    BY <1>2, <1>8
  <2> QED BY <1>2, <2>1 DEF OnlyRoot
<1>10. /\ pypiResult' \in {"running", "error"}
       /\ pypiResult' = "running" => RootFound'
       /\ pypiResult' = "error" => Len(taken') <= 1
  <2>1. (OnlyRoot /\ pypiQueue[1].depth = 0) \/ RootFound
    BY <1>1 DEF PypiInv
  <2>2. CASE cur.depth = 0
    <3>1. OnlyRoot
      BY <1>2, <1>8, <2>2 DEF cur
    <3> QED BY <1>1, <2>2, <3>1 DEF OnlyRoot
  <2>3. CASE cur.depth # 0
    <3>1. RootFound
      BY <2>1, <2>3 DEF cur
    <3> QED BY <1>1, <2>3, <3>1 DEF RootFound
  <2> QED BY <2>2, <2>3
<1>11. /\ \E x \in Worlds : world' = x[1] /\ item' = x[2]
       /\ IsSeq(taken') /\ IsSeq(files')
       /\ pypiSeen' = {taken'[n].req.name : n \in DOMAIN taken'}
       /\ \A i, j \in DOMAIN taken' : i # j => taken'[i].req.name # taken'[j].req.name
       /\ P!IsInjective(files')
           /\ P!ToSet(files') = UNION {P!ToSet(taken'[n].files) : n \in DOMAIN taken'}
  BY <1>1 DEF PypiInv
<1>12. IsSeq(pypiQueue)' /\ IsSeq(taken)' /\ IsSeq(files)' /\ P!IsInjective(files)'
           /\ Names' = Names
  BY <1>1, <1>2, <1>11, StaysResolved DEF IsSeq, P!IsInjective
<1>13. \A n \in DOMAIN taken' : \A d \in P!ToSet(taken'[n].deps) :
         Reached(d.name, taken[n].depth + 1)'
  BY <1>1, <1>7
<1>14. \A n \in DOMAIN taken' : Resolved(taken[n])'
  BY <1>1, <1>5
<1>15. QueueIsReadable'
  <2>1. QueueIsReadable
    BY DEF PypiInv
  <2> QED BY <1>2, <2>1 DEF QueueIsReadable
<1> QED BY <1>4, <1>6, <1>9, <1>10, <1>11, <1>12, <1>13, <1>14, <1>15 DEF PypiInv

(* A package is taken from the queue and its dependencies wait behind it. *)
Takes(q, p, deps, depth) ==
  /\ IsSeq(p) /\ Len(q) \in Nat \ {0} /\ DOMAIN q = 1..Len(q)
  /\ DOMAIN p = 1..(Len(q) - 1 + Len(deps)) /\ Len(deps) \in Nat
  /\ \A i \in 1..(Len(q) - 1) : p[i] = q[i + 1]
  /\ \A i \in 1..Len(deps) : p[Len(q) - 1 + i].req = deps[i] /\ p[Len(q) - 1 + i].depth = depth

(* Dependencies are appended behind the rest of the queue, in their order. *)
LEMMA TakesFirst ==
  ASSUME NEW q, IsSeq(q), q # <<>>, NEW deps, IsSeq(deps), NEW depth
  PROVE  Takes(q, Tail(q) \o [i \in DOMAIN deps |-> [req |-> deps[i], depth |-> depth]], deps,
      depth)
<1> DEFINE fresh == [i \in DOMAIN deps |-> [req |-> deps[i], depth |-> depth]]
           p == Tail(q) \o fresh
<1>1. /\ IsSeq(Tail(q)) /\ Len(Tail(q)) = Len(q) - 1
      /\ Len(q) \in Nat \ {0} /\ DOMAIN q = 1..Len(q)
      /\ \A i \in 1..(Len(q) - 1) : Tail(q)[i] = q[i + 1]
  BY TailOf, SeqOfItself
<1>2. DOMAIN deps = 1..Len(deps) /\ Len(deps) \in Nat
  BY SeqOfItself
<1>3. /\ IsSeq(fresh) /\ Len(fresh) = Len(deps)
      /\ \A i \in 1..Len(deps) : fresh[i].req = deps[i] /\ fresh[i].depth = depth
  <2> DEFINE nodes == {[req |-> d, depth |-> depth] : d \in P!ToSet(deps)}
  <2>1. fresh \in Seq(nodes) /\ Len(fresh) = Len(deps)
    <3>1. \A i \in 1..Len(deps) : [req |-> deps[i], depth |-> depth] \in nodes
      BY InSeq
    <3> HIDE DEF nodes
    <3> QED BY <1>2, <3>1
  <2> QED BY <1>2, <2>1 DEF IsSeq
<1> HIDE DEF fresh
<1>4. /\ IsSeq(p) /\ Len(p) = Len(q) - 1 + Len(deps)
      /\ \A i \in 1..(Len(q) - 1) : p[i] = Tail(q)[i]
      /\ \A i \in 1..Len(deps) : p[Len(q) - 1 + i] = fresh[i]
  <2> DEFINE t == Tail(q)
  <2>1. IsSeq(t) /\ Len(t) = Len(q) - 1
    BY <1>1
  <2> HIDE DEF t
  <2>2. Joins(t \o fresh, t, fresh)
    BY <1>3, <2>1, Concatenated
  <2>3. Joins(p, t, fresh)
    BY <2>2 DEF p, t
  <2> HIDE DEF p
  <2>4. /\ IsSeq(p) /\ Len(p) = Len(q) - 1 + Len(deps)
        /\ \A i \in 1..(Len(q) - 1) : p[i] = t[i]
        /\ \A i \in 1..Len(deps) : p[Len(q) - 1 + i] = fresh[i]
    BY <1>3, <2>1, <2>3 DEF Joins
  <2> QED BY <2>4 DEF t
<1> HIDE DEF p
<1>5. DOMAIN p = 1..(Len(q) - 1 + Len(deps))
  BY <1>4, SeqOfItself
<1>6. Takes(q, p, deps, depth)
  BY <1>1, <1>2, <1>3, <1>4, <1>5 DEF Takes
<1> QED BY <1>6 DEF p, fresh

(* Expanding the first of the queue keeps the invariant. *)
LEMMA PypiExpands ==
  ASSUME PypiInv, P!Expand
  PROVE  PypiInv'
<1> DEFINE cur == pypiQueue[1]
<1>1. PICK files0, deps0 :
         /\ pypiResult = "running" /\ pypiQueue # <<>>
         /\ cur.req.name \notin {"win32"} \cup pypiSeen
         /\ files0 = P!resolvePackageFiles(cur.req) \/ files0 = <<>>
         /\ deps0 = P!Dependencies(P!pickMetadata(files0)) \/ deps0 = <<>>
         /\ pypiSeen' = pypiSeen \cup {cur.req.name}
         /\ files' = P!Distinct(files \o files0)
         /\ pypiQueue' = Tail(pypiQueue) \o
              [i \in DOMAIN deps0 |-> [req |-> deps0[i], depth |-> cur.depth + 1]]
         /\ taken' = Append(taken, [req |-> cur.req, depth |-> cur.depth, files |-> files0,
             deps |-> deps0])
         /\ pypiResult' = IF files0 = <<>> /\ cur.depth = 0 THEN "error" ELSE "running"
         /\ UNCHANGED <<world, item>>
  <2>1. Head(pypiQueue) = cur
    BY TailOf DEF P!Expand, PypiInv
  <2> QED BY <2>1 DEF P!Expand, P!Fresh, P!cur
<1> DEFINE e == [req |-> cur.req, depth |-> cur.depth, files |-> files0, deps |-> deps0]
           q == pypiQueue
           p == pypiQueue'
           reach == Len(pypiQueue)
<1>2. e.req = cur.req /\ e.depth = cur.depth /\ e.files = files0 /\ e.deps = deps0
  OBVIOUS
<1>3. taken' = Append(taken, e)
  BY <1>1
<1> HIDE DEF e
<1>4. IsSeq(q) /\ reach \in Nat \ {0} /\ DOMAIN q = 1..reach /\ 1 \in DOMAIN q
  BY <1>1, TailOf, SeqOfItself DEF PypiInv
<1>5. \A i \in DOMAIN q : q[i].depth \in Nat /\ q[i].req.name \in Names
  BY DEF PypiInv
<1>6. cur.depth \in Nat /\ cur.req.name \in DOMAIN world.index
  BY <1>1, <1>4, <1>5 DEF Names
<1>7. Resolved(e)
  BY <1>1, <1>2, <1>6 DEF Resolved
<1>8. IsSeq(files0) /\ IsSeq(deps0) /\ \A d \in P!ToSet(deps0) : d.name \in Names /\ d.readable
  <2>1. \E x \in Worlds : world = x[1] /\ item = x[2]
    BY DEF PypiInv
  <2> QED BY <1>2, <1>7, <2>1, ResolvedIsProper
<1>9. Takes(q, p, deps0, cur.depth + 1)
  <2> DEFINE depth == cur.depth + 1
  <2> HIDE DEF depth
  <2>1. p = Tail(q) \o [i \in DOMAIN deps0 |-> [req |-> deps0[i], depth |-> depth]]
    BY <1>1 DEF depth
  <2>2. Takes(q, p, deps0, depth)
    BY <1>1, <1>4, <1>8, <2>1, TakesFirst
  <2> QED BY <2>2 DEF depth
<1> DEFINE size == Len(taken)
<1>10. /\ IsSeq(taken) /\ IsSeq(taken') /\ DOMAIN taken = 1..size /\ DOMAIN taken' = 1..(size + 1)
       /\ Len(taken') = size + 1 /\ size \in Nat
       /\ \A n \in 1..size : taken'[n] = taken[n]
       /\ taken'[size + 1] = e
  <2>1. IsSeq(taken)
    BY DEF PypiInv
  <2> QED BY <1>3, <2>1, Appended, SeqOfItself
<1> HIDE DEF cur
<1>11. \A n \in DOMAIN taken' : (n \in DOMAIN taken /\ n # size + 1) \/ n = size + 1
  BY <1>10
<1>12. \A i \in DOMAIN p :
          \/ i \in 1..(reach - 1) /\ p[i] = q[i + 1] /\ i + 1 \in DOMAIN q
          \/ /\ i > reach - 1 /\ p[i].depth = cur.depth + 1
             /\ \E k \in 1..Len(deps0) : p[i].req = deps0[k]
  <2> SUFFICES ASSUME NEW i \in DOMAIN p, i \notin 1..(reach - 1)
               PROVE  /\ i > reach - 1 /\ p[i].depth = cur.depth + 1
                      /\ \E k \in 1..Len(deps0) : p[i].req = deps0[k]
    <3>1. \A i \in 1..(reach - 1) : p[i] = q[i + 1] /\ i + 1 \in DOMAIN q
      BY <1>4, <1>9 DEF Takes
    <3> QED BY <3>1
  <2>1. /\ reach \in Nat \ {0} /\ Len(deps0) \in Nat /\ i \in 1..(reach - 1 + Len(deps0))
    BY <1>9 DEF Takes
  <2>2. i - (reach - 1) \in 1..Len(deps0) /\ reach - 1 + (i - (reach - 1)) = i /\ i > reach - 1
    BY <2>1
  <2>3. p[i].req = deps0[i - (reach - 1)] /\ p[i].depth = cur.depth + 1
    BY <1>9, <2>2 DEF Takes
  <2> QED BY <2>2, <2>3
<1>13. \A i \in DOMAIN p : p[i].depth \in Nat /\ p[i].req.name \in Names
  <2> SUFFICES ASSUME NEW i \in DOMAIN p PROVE p[i].depth \in Nat /\ p[i].req.name \in Names
    OBVIOUS
  <2>1. CASE p[i] = q[i + 1] /\ i + 1 \in DOMAIN q
    BY <1>5, <2>1
  <2>2. CASE p[i].depth = cur.depth + 1 /\ \E k \in 1..Len(deps0) : p[i].req = deps0[k]
    <3>1. PICK k \in 1..Len(deps0) : p[i].req = deps0[k]
      BY <2>2
    <3>2. deps0[k] \in P!ToSet(deps0)
      BY <1>8, InSeq
    <3> QED BY <1>6, <1>8, <2>2, <3>1, <3>2
  <2> QED BY <1>12, <2>1, <2>2
<1>14. \A n \in DOMAIN taken' : Resolved(taken'[n]) /\ taken'[n].depth \in Nat
  BY <1>7, <1>10, <1>11 DEF PypiInv, Resolved
<1>15. pypiSeen' = {taken'[n].req.name : n \in DOMAIN taken'}
  <2>1. pypiSeen = {taken[n].req.name : n \in DOMAIN taken}
    BY DEF PypiInv
  <2>2. \A x : x \in pypiSeen' <=> x \in pypiSeen \/ x = cur.req.name
    BY <1>1
  <2>3. \A x : x \in {taken'[n].req.name : n \in DOMAIN taken'}
            <=> x \in pypiSeen \/ x = cur.req.name
    <3> TAKE x
    <3>1. ASSUME x \in {taken'[n].req.name : n \in DOMAIN taken'}
              PROVE x \in pypiSeen \/ x = cur.req.name
      <4>1. PICK n \in DOMAIN taken' : x = taken'[n].req.name
        BY <3>1
      <4> QED BY <1>2, <1>10, <1>11, <2>1, <4>1
    <3>2. ASSUME x \in pypiSeen PROVE x \in {taken'[n].req.name : n \in DOMAIN taken'}
      <4>1. PICK n \in DOMAIN taken : x = taken[n].req.name
        BY <2>1, <3>2
      <4>2. n \in DOMAIN taken' /\ x = taken'[n].req.name
        BY <1>10, <4>1
      <4> QED BY <4>2
    <3>3. cur.req.name \in {taken'[n].req.name : n \in DOMAIN taken'}
      <4>1. size + 1 \in DOMAIN taken' /\ taken'[size + 1].req.name = cur.req.name
        BY <1>2, <1>10
      <4> QED BY <4>1
    <3> QED BY <3>1, <3>2, <3>3
  <2> QED BY <2>2, <2>3
<1>16. \A i, j \in DOMAIN taken' : i # j => taken'[i].req.name # taken'[j].req.name
  <2>1. \A n \in DOMAIN taken : taken'[n].req.name \in pypiSeen
    BY <1>10 DEF PypiInv
  <2>2. taken'[size + 1].req.name \notin pypiSeen
    BY <1>1, <1>2, <1>10
  <2>3. \A i, j \in DOMAIN taken : i # j => taken'[i].req.name # taken'[j].req.name
    BY <1>10 DEF PypiInv
  <2> QED BY <1>11, <2>1, <2>2, <2>3
<1>17. NearestFirst'
  <2>0. /\ NearestFirst /\ reach - 1 \in Nat
        /\ \A i \in DOMAIN taken : taken[i].depth \in Nat
    BY <1>4 DEF PypiInv, Resolved
  <2>1. \A i \in DOMAIN q : cur.depth <= q[i].depth /\ q[i].depth <= cur.depth + 1
    <3> SUFFICES ASSUME NEW i \in DOMAIN q
            PROVE cur.depth <= q[i].depth /\ q[i].depth <= cur.depth + 1
      OBVIOUS
    <3>1. cur = q[1]
      BY DEF cur
    <3>2. i = 1 \/ 1 < i
      BY <1>4
    <3>3. 1 < i => cur.depth <= q[i].depth
      BY <1>4, <2>0, <3>1 DEF NearestFirst
    <3>4. q[i].depth <= cur.depth + 1
      BY <2>0, <3>1 DEF NearestFirst
    <3> QED BY <1>6, <3>1, <3>2, <3>3, <3>4
  <2>2. \A i \in DOMAIN p : cur.depth <= p[i].depth /\ p[i].depth <= cur.depth + 1
    BY <1>6, <1>12, <2>1
  <2>3. \A i \in DOMAIN p : p[i].depth <= p[1].depth + 1
    <3> SUFFICES ASSUME NEW i \in DOMAIN p PROVE p[i].depth <= p[1].depth + 1
      OBVIOUS
    <3>1. 1 \in DOMAIN p
      BY <1>9 DEF Takes
    <3>2. p[1].depth \in Nat /\ p[i].depth \in Nat
      BY <1>13, <3>1
    <3> QED BY <1>6, <2>2, <3>1, <3>2
  <2>4. \A i, j \in DOMAIN p : i < j => p[i].depth <= p[j].depth
    <3> SUFFICES ASSUME NEW i \in DOMAIN p, NEW j \in DOMAIN p, i < j PROVE p[i].depth <= p[j].depth
      OBVIOUS
    <3>0. i \in Nat /\ j \in Nat /\ reach \in Nat
      BY <1>4, <1>9 DEF Takes
    <3>1. CASE j > reach - 1 /\ p[j].depth = cur.depth + 1
      BY <2>2, <3>1
    <3>2. CASE j \in 1..(reach - 1)
      <4>1. i \in 1..(reach - 1) /\ i + 1 < j + 1
        BY <1>9, <3>0, <3>2 DEF Takes
      <4>2. p[i] = q[i + 1] /\ p[j] = q[j + 1] /\ i + 1 \in DOMAIN q /\ j + 1 \in DOMAIN q
        BY <1>4, <1>9, <3>2, <4>1 DEF Takes
      <4> QED BY <2>0, <4>1, <4>2 DEF NearestFirst
    <3> QED BY <1>12, <3>1, <3>2
  <2>5. \A n \in DOMAIN taken : taken[n].depth <= cur.depth
    BY <1>4, <2>0 DEF NearestFirst, cur
  <2>6. \A n \in DOMAIN taken' : taken'[n].depth <= cur.depth
    BY <1>2, <1>6, <1>10, <1>11, <2>5
  <2>7. \A n \in DOMAIN taken', i \in DOMAIN p : taken'[n].depth <= p[i].depth
    <3> SUFFICES ASSUME NEW n \in DOMAIN taken', NEW i \in DOMAIN p
            PROVE taken'[n].depth <= p[i].depth
      OBVIOUS
    <3> taken'[n].depth \in Nat /\ p[i].depth \in Nat
      BY <1>13, <1>14
    <3> QED BY <1>6, <2>2, <2>6
  <2>8. \A i, j \in DOMAIN taken' : i < j => taken'[i].depth <= taken'[j].depth
    <3> SUFFICES ASSUME NEW i \in DOMAIN taken', NEW j \in DOMAIN taken', i < j
                 PROVE  taken'[i].depth <= taken'[j].depth
      OBVIOUS
    <3>1. CASE j = size + 1
      BY <1>2, <1>10, <2>6, <3>1
    <3>2. CASE j # size + 1
      <4>1. i \in DOMAIN taken /\ j \in DOMAIN taken
        BY <1>10, <3>2
      <4>2. taken[i].depth <= taken[j].depth
        BY <2>0, <4>1 DEF NearestFirst
      <4> QED BY <1>10, <4>1, <4>2
    <3> QED BY <3>1, <3>2
  <2> HIDE DEF p
  <2> QED BY <2>3, <2>4, <2>7, <2>8 DEF NearestFirst, p
<1>18. ASSUME NEW n \in DOMAIN taken', NEW d \in P!ToSet(taken'[n].deps)
       PROVE  Reached(d.name, taken[n].depth + 1)'
  <2>1. CASE n = size + 1
    <3>1. taken'[n] = e /\ d \in P!ToSet(deps0)
      BY <1>2, <1>10, <2>1
    <3>2. PICK k \in 1..Len(deps0) : d = deps0[k]
      BY <1>8, <3>1, InSeq
    <3>3. /\ reach - 1 + k \in DOMAIN p
          /\ p[reach - 1 + k].req = deps0[k] /\ p[reach - 1 + k].depth = cur.depth + 1
      BY <1>9 DEF Takes
    <3>4. p[reach - 1 + k].req.name = d.name /\ p[reach - 1 + k].depth <= taken'[n].depth + 1
      BY <1>2, <1>6, <3>1, <3>2, <3>3
    <3> QED BY <3>3, <3>4 DEF Reached
  <2>2. CASE n \in DOMAIN taken
    <3>1. taken'[n] = taken[n] /\ n \in DOMAIN taken
      BY <1>10, <2>2
    <3>2. Reached(d.name, taken[n].depth + 1)
      BY <3>1 DEF PypiInv
    <3>3. CASE d.name \in {"win32"}
      BY <3>3 DEF Reached
    <3>4. CASE \E i \in DOMAIN taken : taken[i].req.name = d.name
              /\ taken[i].depth <= taken[n].depth + 1
      <4>1. PICK i \in DOMAIN taken : taken[i].req.name = d.name
                /\ taken[i].depth <= taken[n].depth + 1
        BY <3>4
      <4>2. i \in DOMAIN taken' /\ taken'[i] = taken[i]
        BY <1>10, <4>1
      <4> QED BY <3>1, <4>1, <4>2 DEF Reached
    <3>5. CASE \E i \in DOMAIN q : q[i].req.name = d.name /\ q[i].depth <= taken[n].depth + 1
      <4>1. PICK i \in DOMAIN q : q[i].req.name = d.name /\ q[i].depth <= taken[n].depth + 1
        BY <3>5
      <4>2. CASE i = 1
        <5>1. size + 1 \in DOMAIN taken' /\ taken'[size + 1].req.name = d.name
              /\ taken'[size + 1].depth <= taken'[n].depth + 1
          BY <1>2, <1>10, <3>1, <4>1, <4>2 DEF cur
        <5> QED BY <5>1 DEF Reached
      <4>3. CASE i # 1
        <5>1. i - 1 \in 1..(reach - 1) /\ (i - 1) + 1 = i
          BY <1>4, <4>1, <4>3
        <5>2. i - 1 \in DOMAIN p /\ p[i - 1] = q[i]
          BY <1>9, <5>1 DEF Takes
        <5> QED BY <3>1, <4>1, <5>2 DEF Reached
      <4> QED BY <4>2, <4>3
    <3> QED BY <3>2, <3>3, <3>4, <3>5 DEF Reached
  <2> QED BY <1>11, <2>1, <2>2
<1>19. /\ IsSeq(files') /\ P!IsInjective(files')
       /\ P!ToSet(files') = P!ToSet(files) \cup P!ToSet(files0)
  <2> DEFINE both == files \o files0
  <2>1. Joins(both, files, files0)
    BY <1>8, Concatenated DEF PypiInv
  <2>2. files' = P!Distinct(both)
    BY <1>1
  <2> HIDE DEF both
  <2> QED BY <2>1, <2>2, DistinctElements DEF Joins
<1>20. P!ToSet(files') = UNION {P!ToSet(taken'[n].files) : n \in DOMAIN taken'}
  <2>1. P!ToSet(files) = UNION {P!ToSet(taken[n].files) : n \in DOMAIN taken}
    BY DEF PypiInv
  <2>2. \A x : x \in P!ToSet(files') <=> \E n \in DOMAIN taken' : x \in P!ToSet(taken'[n].files)
    <3> TAKE x
    <3>1. ASSUME x \in P!ToSet(files) PROVE \E n \in DOMAIN taken' : x \in P!ToSet(taken'[n].files)
      <4>1. PICK n \in DOMAIN taken : x \in P!ToSet(taken[n].files)
        BY <2>1, <3>1
      <4>2. n \in DOMAIN taken' /\ taken'[n] = taken[n]
        BY <1>10, <4>1
      <4> QED BY <4>1, <4>2
    <3>2. ASSUME x \in P!ToSet(files0) PROVE \E n \in DOMAIN taken' : x \in P!ToSet(taken'[n].files)
      <4>1. size + 1 \in DOMAIN taken' /\ taken'[size + 1].files = files0
        BY <1>2, <1>10
      <4> QED BY <3>2, <4>1
    <3>3. ASSUME NEW n \in DOMAIN taken', x \in P!ToSet(taken'[n].files)
          PROVE  x \in P!ToSet(files) \/ x \in P!ToSet(files0)
      <4>1. CASE n = size + 1
        BY <1>2, <1>10, <3>3, <4>1
      <4>2. CASE n \in DOMAIN taken
        <5>1. taken'[n] = taken[n]
          BY <1>10, <4>2
        <5> QED BY <2>1, <3>3, <4>2, <5>1
      <4> QED BY <1>11, <4>1, <4>2
    <3> QED BY <1>19, <3>1, <3>2, <3>3
  <2> QED BY <2>2
<1>21. \A i \in DOMAIN p : p[i].depth # 0
  <2> SUFFICES ASSUME NEW i \in DOMAIN p, p[i].depth = 0 PROVE FALSE
    OBVIOUS
  <2>1. i \in 1..(reach - 1) /\ p[i] = q[i + 1] /\ i + 1 \in DOMAIN q
    BY <1>6, <1>12
  <2>2. OnlyRoot
    BY <2>1 DEF PypiInv
  <2> QED BY <2>1, <2>2 DEF OnlyRoot
<1>22. /\ pypiResult' \in {"running", "error"}
       /\ pypiResult' = "running" => RootFound'
       /\ pypiResult' = "error" => Len(taken') <= 1
  <2>1. (OnlyRoot /\ q[1].depth = 0) \/ RootFound
    BY <1>1 DEF PypiInv
  <2>2. 1 \in DOMAIN taken' /\ taken' # <<>>
    <3>1. 1 \in DOMAIN taken'
      BY <1>10
    <3>2. DOMAIN <<>> = {}
      OBVIOUS
    <3> QED BY <3>1, <3>2
  <2>3. CASE OnlyRoot /\ cur.depth = 0
    <3>1. size = 0
      BY <2>3 DEF OnlyRoot
    <3>2. taken'[1].files = files0 /\ Len(taken') = 1
      BY <1>2, <1>10, <3>1
    <3> QED BY <1>1, <2>2, <2>3, <3>2 DEF RootFound
  <2>4. CASE RootFound
    <3>1. cur.depth # 0
      <4> SUFFICES ASSUME cur.depth = 0 PROVE FALSE
        OBVIOUS
      <4>1. OnlyRoot
        BY <1>4 DEF PypiInv, cur
      <4> QED BY <2>4, <4>1 DEF OnlyRoot, RootFound
    <3>2. 1 \in DOMAIN taken
      <4>1. taken # <<>> /\ IsSeq(taken)
        BY <1>10, <2>4 DEF RootFound
      <4> QED BY <4>1, TailOf
    <3>3. taken'[1] = taken[1]
      BY <1>10, <3>2
    <3> QED BY <1>1, <2>2, <2>4, <3>1, <3>3 DEF RootFound
  <2> QED BY <2>1, <2>3, <2>4 DEF cur
<1>23. \E x \in Worlds : world' = x[1] /\ item' = x[2]
  BY <1>1 DEF PypiInv
<1>24. \A n \in DOMAIN taken' : Resolved(taken[n])'
  <2>1. \A t : Resolved(t)' <=> Resolved(t)
    BY <1>1, StaysResolved
  <2>2. \A n : Resolved(taken[n])' <=> Resolved(taken'[n])
    BY <1>1, StaysResolved DEF Resolved, P!resolvePackageFiles, P!Dependencies
  <2> QED BY <1>14, <2>2
<1>25. /\ IsSeq(pypiQueue)' /\ IsSeq(taken)' /\ IsSeq(files)' /\ P!IsInjective(files)'
       /\ Names' = Names
  BY <1>1, <1>9, <1>10, <1>19, StaysResolved DEF IsSeq, P!IsInjective, Takes
<1>26. QueueIsReadable'
  <2> SUFFICES ASSUME NEW i \in DOMAIN p, p[i].depth # 0 PROVE p[i].req.readable
    BY DEF QueueIsReadable
  <2>1. CASE p[i] = q[i + 1] /\ i + 1 \in DOMAIN q
    BY <2>1 DEF PypiInv, QueueIsReadable
  <2>2. CASE \E k \in 1..Len(deps0) : p[i].req = deps0[k]
    <3>1. PICK k \in 1..Len(deps0) : p[i].req = deps0[k]
      BY <2>2
    <3>2. deps0[k] \in P!ToSet(deps0)
      BY <1>8, InSeq
    <3> QED BY <1>8, <3>1, <3>2
  <2> QED BY <1>12, <2>1, <2>2
<1> HIDE DEF q
<1> QED
  BY <1>13, <1>15, <1>16, <1>17, <1>18, <1>20, <1>21, <1>22, <1>23, <1>24, <1>25, <1>26
  DEF PypiInv

(* Every step of the PyPI expansion keeps its invariant. *)
LEMMA PypiStep ==
  ASSUME PypiInv, P!Next
  PROVE  PypiInv'
<1>1. CASE P!Finish
  <2>1. /\ pypiResult = "running" /\ pypiQueue = <<>> /\ pypiResult' = "done"
        /\ UNCHANGED <<world, item, pypiQueue, pypiSeen, files, taken>>
    BY <1>1 DEF P!Finish
  <2>2. RootFound
    BY <2>1 DEF PypiInv, OnlyRoot
  <2>3. Names' = Names /\ \A t : Resolved(t)' <=> Resolved(t)
    BY <2>1, StaysResolved
  <2>4. /\ NearestFirst' = NearestFirst /\ RootFound' = RootFound /\ OnlyRoot' = OnlyRoot
        /\ IsSeq(pypiQueue)' = IsSeq(pypiQueue) /\ IsSeq(taken)' = IsSeq(taken)
        /\ IsSeq(files)' = IsSeq(files) /\ P!IsInjective(files)' = P!IsInjective(files)
    BY <2>1 DEF NearestFirst, RootFound, OnlyRoot, IsSeq, P!IsInjective
  <2>5. \A n, m : Reached(n, m)' <=> Reached(n, m)
    BY <2>1 DEF Reached
  <2>6. \A n \in DOMAIN taken' : Resolved(taken[n])'
    BY <2>1, <2>3 DEF PypiInv
  <2>7. \A n \in DOMAIN taken' : \A d \in P!ToSet(taken'[n].deps) : Reached(d.name,
            taken[n].depth + 1)'
    BY <2>1, <2>5 DEF PypiInv
  <2>8. QueueIsReadable' = QueueIsReadable
    BY <2>1 DEF QueueIsReadable
  <2> QED BY <2>1, <2>2, <2>3, <2>4, <2>6, <2>7, <2>8 DEF PypiInv
<1> QED BY <1>1, PypiSkips, PypiExpands DEF P!Next
-----------------------------------------------------------------------------
(* The expansion of PyPI packages: what it reaches *)

(* A function over the first numbers is a sequence. *)
LEMMA FunctionIsSeq ==
  ASSUME NEW n \in Nat, NEW f, f = [i \in 1..n |-> f[i]]
  PROVE  IsSeq(f) /\ Len(f) = n
<1> DEFINE S == {f[i] : i \in 1..n}
<1>1. \A i \in 1..n : f[i] \in S
  OBVIOUS
<1> HIDE DEF S
<1>2. f \in [1..n -> S]
  BY <1>1
<1>3. f \in Seq(S) /\ Len(f) = n
  BY <1>2
<1> QED BY <1>3 DEF IsSeq

(* Nothing that is needed and can be read is missing. *)
LEMMA PypiIsPrefetched ==
  ASSUME PypiInv
  PROVE  P!TypeOK /\ P!ClosureIsPrefetched
<1>1. P!TypeOK
  <2>1. pypiSeen \subseteq DOMAIN world.index
    BY DEF PypiInv, Resolved
  <2> QED BY <2>1 DEF PypiInv, P!TypeOK, P!IsInjective
<1> DEFINE first == [n \in DOMAIN taken |-> [req |-> taken[n].req, depth |-> taken[n].depth]]
           nodes == first \o pypiQueue
           size == Len(taken)
           Q == Len(pypiQueue)
<1>2. /\ IsSeq(taken) /\ IsSeq(pypiQueue) /\ DOMAIN taken = 1..size /\ DOMAIN pypiQueue = 1..Q
      /\ size \in Nat /\ Q \in Nat
  BY SeqOfItself DEF PypiInv
<1>3. IsSeq(first) /\ Len(first) = size /\ \A n \in 1..size : first[n].req = taken[n].req
          /\ first[n].depth = taken[n].depth
  <2>1. first = [i \in 1..size |-> first[i]]
    BY <1>2
  <2>2. \A n \in 1..size : first[n].req = taken[n].req /\ first[n].depth = taken[n].depth
    BY <1>2
  <2> HIDE DEF first
  <2> QED BY <1>2, <2>1, <2>2, FunctionIsSeq
<1> HIDE DEF first
<1>4. Joins(nodes, first, pypiQueue)
  BY <1>2, <1>3, Concatenated
<1> HIDE DEF nodes
<1>5. /\ DOMAIN nodes = 1..(size + Q)
      /\ \A n \in 1..size : nodes[n].req = taken[n].req /\ nodes[n].depth = taken[n].depth
      /\ \A i \in 1..Q : nodes[size + i] = pypiQueue[i]
  BY <1>3, <1>4, SeqOfItself DEF Joins
<1>6. \A i \in DOMAIN nodes : i \in 1..size \/ (i - size \in 1..Q /\ size + (i - size) = i)
  BY <1>2, <1>5
<1>7. \A i, j \in DOMAIN nodes : i < j => nodes[i].depth <= nodes[j].depth
  <2> SUFFICES ASSUME NEW i \in DOMAIN nodes, NEW j \in DOMAIN nodes, i < j
               PROVE  nodes[i].depth <= nodes[j].depth
    OBVIOUS
  <2>0. NearestFirst
    BY DEF PypiInv
  <2>1. CASE i \in 1..size /\ j \in 1..size
    BY <1>2, <1>5, <2>0, <2>1 DEF NearestFirst
  <2>2. CASE i \in 1..size /\ j - size \in 1..Q
    <3>1. nodes[j] = pypiQueue[j - size]
      BY <1>5, <1>6, <2>2
    <3> QED BY <1>2, <1>5, <2>0, <2>2, <3>1 DEF NearestFirst
  <2>3. CASE i - size \in 1..Q /\ j - size \in 1..Q
    <3>1. nodes[j] = pypiQueue[j - size] /\ nodes[i] = pypiQueue[i - size] /\ i - size < j - size
      BY <1>2, <1>5, <1>6, <2>3
    <3> QED BY <1>2, <2>0, <2>3, <3>1 DEF NearestFirst
  <2>4. ~(j \in 1..size /\ i - size \in 1..Q)
    BY <1>2, <1>5
  <2> QED BY <1>6, <2>1, <2>2, <2>3, <2>4
<1>8. ASSUME NEW n \in DOMAIN taken, taken[n].deps # <<>>,
             NEW d \in P!ToSet(world.requires[P!pickMetadata(taken[n].files).name]
                                             [P!pickMetadata(taken[n].files).ver]),
             ~d.marker.or
      PROVE  (d \in P!ToSet(taken[n].deps)) <=>
               (d.readable /\ P!NeededSomewhere(d.marker))
  <2>1. Resolved(taken[n]) /\ \E x \in Worlds : world = x[1] /\ item = x[2]
    BY DEF PypiInv
  <2>2. d \in P!ToSet(taken[n].deps) <=> d.readable /\ P!EvalMarker(d.marker, world.targets)
    BY <1>8, <2>1, ResolvedIsProper
  <2>3. P!EvalMarker(d.marker, world.targets) <=> P!NeededSomewhere(d.marker)
    BY <1>8, MarkerMeans DEF P!EvalMarker, P!NeededSomewhere
  <2> QED BY <2>2, <2>3
<1>9. ASSUME NEW n \in DOMAIN taken, NEW d \in P!ToSet(taken[n].deps)
      PROVE  d.name \in {"win32"} \/ \E i \in DOMAIN nodes :
               nodes[i].req.name = d.name /\ nodes[i].depth <= taken[n].depth + 1
  <2>1. Reached(d.name, taken[n].depth + 1)
    BY DEF PypiInv
  <2>2. CASE \E i \in DOMAIN taken : taken[i].req.name = d.name
            /\ taken[i].depth <= taken[n].depth + 1
    <3>1. PICK i \in DOMAIN taken : taken[i].req.name = d.name
              /\ taken[i].depth <= taken[n].depth + 1
      BY <2>2
    <3>2. i \in DOMAIN nodes /\ nodes[i].req = taken[i].req /\ nodes[i].depth = taken[i].depth
      BY <1>2, <1>5, <3>1
    <3> QED BY <3>1, <3>2
  <2>3. CASE \E i \in DOMAIN pypiQueue : pypiQueue[i].req.name = d.name
            /\ pypiQueue[i].depth <= taken[n].depth + 1
    <3>1. PICK i \in DOMAIN pypiQueue : pypiQueue[i].req.name = d.name
              /\ pypiQueue[i].depth <= taken[n].depth + 1
      BY <2>3
    <3>2. size + i \in DOMAIN nodes /\ nodes[size + i] = pypiQueue[i]
      BY <1>2, <1>5, <3>1
    <3> QED BY <3>1, <3>2
  <2> QED BY <2>1, <2>2, <2>3 DEF Reached
<1>10. pypiResult = "done" => files # <<>>
  <2> SUFFICES ASSUME pypiResult = "done" PROVE files # <<>>
    OBVIOUS
  <2>1. taken # <<>> /\ taken[1].files # <<>>
    BY DEF PypiInv, RootFound
  <2>2. 1 \in DOMAIN taken
    BY <1>2, <2>1, TailOf
  <2>3. IsSeq(taken[1].files)
    BY <2>2, ResolvedIsProper DEF PypiInv
  <2>4. 1 \in DOMAIN taken[1].files
    BY <2>1, <2>3, TailOf
  <2>5. taken[1].files[1] \in P!ToSet(taken[1].files)
    BY <2>4 DEF P!ToSet
  <2>6. taken[1].files[1] \in P!ToSet(files)
    BY <2>2, <2>5 DEF PypiInv
  <2> QED BY <2>6, EmptySeq
<1>11. P!ToSet(files) = UNION {P!ToSet(taken[n].files) : n \in DOMAIN taken}
  BY DEF PypiInv
<1>12. /\ \A i, j \in DOMAIN taken : i # j => taken[i].req.name # taken[j].req.name
       /\ pypiResult = "error" => Len(taken) <= 1
  BY DEF PypiInv
<1>13. P!ClosureIsPrefetched
  BY <1>7, <1>8, <1>9, <1>10, <1>11, <1>12 DEF P!ClosureIsPrefetched, nodes, first
<1> QED BY <1>1, <1>13

-----------------------------------------------------------------------------
ExpansionInv ==
  /\ part = "npm" => NpmInv
  /\ part = "pypi" => PypiInv

(* The invariants of the NPM and the PyPI expansion hold of every execution. *)
LEMMA ExpansionHolds == Spec => []ExpansionInv
<1>1. Init => ExpansionInv
  BY NpmBegins, PypiBegins DEF Init, ExpansionInv
<1>2. ASSUME ExpansionInv, [Next]_vars
      PROVE  ExpansionInv'
  <2>1. CASE UNCHANGED vars
    <3>1. /\ UNCHANGED <<registry, npmItem, npmQueue, npmSeen, tarballs, packuments, npmResult,
                 npmTaken>>
          /\ UNCHANGED <<world, item, pypiQueue, pypiSeen, files, pypiResult, taken>>
          /\ UNCHANGED part
      BY <2>1 DEF vars, npm, pypi
    <3>2. NpmInv => NpmInv'
      <4>1. /\ \A t : Needs(t)' = Needs(t) /\ Found(t)' = Found(t)
            /\ NamesWaiting' = NamesWaiting /\ IsQueue(npmQueue)' = IsQueue(npmQueue)
        BY <3>1 DEF Needs, Found, NamesWaiting, IsQueue
      <4>2. \A t : Wanted(t)' = Wanted(t) /\ LookedUp(t)' = LookedUp(t)
                /\ Expanded(t)' = Expanded(t)
        BY <3>1, <4>1 DEF Wanted, LookedUp, Expanded
      <4> QED BY <3>1, <4>1, <4>2 DEF NpmInv
    <3>3. PypiInv => PypiInv'
      <4>1. Names' = Names /\ \A t : Resolved(t)' <=> Resolved(t)
        BY <3>1, StaysResolved
      <4>2. /\ NearestFirst' = NearestFirst /\ RootFound' = RootFound /\ OnlyRoot' = OnlyRoot
            /\ IsSeq(pypiQueue)' = IsSeq(pypiQueue) /\ IsSeq(taken)' = IsSeq(taken)
            /\ IsSeq(files)' = IsSeq(files) /\ P!IsInjective(files)' = P!IsInjective(files)
            /\ QueueIsReadable' = QueueIsReadable
        BY <3>1 DEF NearestFirst, RootFound, OnlyRoot, IsSeq, P!IsInjective, QueueIsReadable
      <4>3. \A n, m : Reached(n, m)' <=> Reached(n, m)
        BY <3>1 DEF Reached
      <4> QED BY <3>1, <4>1, <4>2, <4>3 DEF PypiInv
    <3> QED BY <1>2, <3>1, <3>2, <3>3 DEF ExpansionInv
  <2>2. CASE Only("npm", J!Next)
    <3>1. part = "npm" /\ part' = part /\ J!Next
      BY <2>2 DEF Only
    <3> QED BY <1>2, <3>1, NpmStep DEF ExpansionInv
  <2>3. CASE Only("pypi", P!Next)
    <3>1. part = "pypi" /\ part' = part /\ P!Next
      BY <2>3 DEF Only
    <3> QED BY <1>2, <3>1, PypiStep DEF ExpansionInv
  <2>4. CASE \/ Only("update", U!Next) \/ Only("lease", L!Next) \/ Only("token", T!Next)
             \/ Only("config", C!Next) \/ Only("catalog", G!Next) \/ Only("maven", M!Next)
    <3>1. part' = part /\ part \notin {"npm", "pypi"}
      BY <2>4 DEF Only
    <3> QED BY <3>1 DEF ExpansionInv
  <2> QED BY <1>2, <2>1, <2>2, <2>3, <2>4 DEF Next
<1> QED BY <1>1, <1>2, PTL DEF Spec

(* Every dependency that the metadata of a prefetched package names, and that the *)
(* platforms asked for need, is prefetched too (PyPI to its depth, NPM whatever it *)
(* takes), when the expansion ends without an error. *)
THEOREM ClosureIsPrefetchedHolds == Spec => []ClosureIsPrefetched
<1>1. ExpansionInv => ClosureIsPrefetched
  BY NpmIsPrefetched, PypiIsPrefetched DEF ExpansionInv, ClosureIsPrefetched
<1> QED BY <1>1, ExpansionHolds, PTL
-----------------------------------------------------------------------------
(* The order of versions: releases *)

-----------------------------------------------------------------------------
FirstDiffers(f, n, i) == i \in 1..n /\ f[i] # 0 /\ \A j \in 1..n : j < i => f[j] = 0

(* The first comparison that decides is found. *)
LEMMA DecidedIs ==
  ASSUME NEW n \in Nat, NEW f, f = [i \in 1..n |-> f[i]]
  PROVE  /\ (\A i \in 1..n : f[i] = 0) => P!Decided(f) = 0
         /\ \A i : FirstDiffers(f, n, i) => P!Decided(f) = f[i]
         /\ (\A i \in 1..n : f[i] = 0) \/ \E i : FirstDiffers(f, n, i)
<1> DEFINE I == {k \in 1..Len(f) : f[k] # 0}
           first == IF I # {} THEN LeastOf(I) ELSE 0
<1>1. P!Decided(f) = IF first = 0 THEN 0 ELSE f[first]
  BY DEF P!Decided, P!SelectInSeq, P!Min, LeastOf
<1>2. I = {k \in 1..n : f[k] # 0}
  BY FunctionIsSeq
<1> HIDE DEF I
<1>3. I \in SUBSET Nat
  BY <1>2
<1>4. ASSUME NEW i, FirstDiffers(f, n, i)
      PROVE  first = i /\ i # 0
  <2>1. i \in I /\ i \in Nat \ {0} /\ \A j \in I : i <= j
    BY <1>2, <1>4 DEF FirstDiffers
  <2> QED BY <1>3, <2>1, LeastIs
<1>5. (\A i \in 1..n : f[i] = 0) => I = {}
  BY <1>2
<1>6. ASSUME ~(\A i \in 1..n : f[i] = 0) PROVE \E i : FirstDiffers(f, n, i)
  <2>1. I # {}
    BY <1>2, <1>6
  <2>2. PICK i \in I : \A j \in I : i <= j
    BY <1>3, <2>1, Least
  <2>3. FirstDiffers(f, n, i)
    BY <1>2, <2>2 DEF FirstDiffers
  <2> QED BY <2>3
<1>7. (\A i \in 1..n : f[i] = 0) => first = 0
  BY <1>5
<1> HIDE DEF first
<1> QED BY <1>1, <1>4, <1>6, <1>7

-----------------------------------------------------------------------------
(* Releases, followed by zeros *)
At(r, i) == P!At(r, i)
AtLess(a, b) ==
  \E i \in Nat \ {0} : At(a, i) < At(b, i) /\ \A j \in 1..(i - 1) : At(a, j) = At(b, j)
AtSame(a, b) == \A i \in Nat \ {0} : At(a, i) = At(b, i)

(* A component of a release is a number, 0 behind its end. *)
LEMMA AtIsNat ==
  ASSUME NEW r \in Seq(Nat), NEW i \in Nat \ {0}
  PROVE  At(r, i) \in Nat
<1>1. CASE i <= Len(r)
  <2>1. i \in 1..Len(r)
    BY <1>1
  <2>2. r[i] \in Nat
    BY <2>1
  <2> QED BY <1>1, <2>2 DEF At, P!At
<1>2. CASE ~(i <= Len(r))
  BY <1>2 DEF At, P!At
<1> QED BY <1>1, <1>2

(* The code's comparison of releases decides among the three. *)
LEMMA ReleaseDecides ==
  ASSUME NEW a \in Seq(Nat), NEW b \in Seq(Nat)
  PROVE  \/ P!cmpRelease(a, b) = -1 /\ AtLess(a, b)
         \/ P!cmpRelease(a, b) = 0 /\ AtSame(a, b)
         \/ P!cmpRelease(a, b) = 1 /\ AtLess(b, a)
<1> DEFINE n == IF Len(a) < Len(b) THEN Len(b) ELSE Len(a)
           f == [i \in 1..n |-> P!cmpInt(At(a, i), At(b, i))]
           cmp == P!cmpRelease(a, b)
<1>1. cmp = P!Decided(f)
  BY DEF P!cmpRelease, At
<1>2. n \in Nat /\ Len(a) <= n /\ Len(b) <= n /\ Len(a) \in Nat /\ Len(b) \in Nat
  OBVIOUS
<1>3. f = [i \in 1..n |-> f[i]]
  OBVIOUS
<1>4. \A i \in 1..n : f[i] = P!cmpInt(At(a, i), At(b, i))
  OBVIOUS
<1> HIDE DEF n, f, cmp
<1>5. /\ (\A i \in 1..n : f[i] = 0) => cmp = 0
      /\ \A i : FirstDiffers(f, n, i) => cmp = f[i]
      /\ (\A i \in 1..n : f[i] = 0) \/ \E i : FirstDiffers(f, n, i)
  BY <1>1, <1>2, <1>3, DecidedIs
<1>6. ASSUME NEW i \in 1..n
      PROVE  /\ f[i] = 0 <=> At(a, i) = At(b, i)
             /\ f[i] # 0 => \/ f[i] = -1 /\ At(a, i) < At(b, i)
                            \/ f[i] = 1 /\ At(b, i) < At(a, i)
  <2>1. i \in Nat \ {0} /\ At(a, i) \in Nat /\ At(b, i) \in Nat
    BY <1>2, AtIsNat
  <2> QED BY <1>4, <2>1 DEF P!cmpInt
<1>7. CASE \A i \in 1..n : f[i] = 0
  <2>1. ASSUME NEW i \in Nat \ {0} PROVE At(a, i) = At(b, i)
    <3>1. CASE i <= n
      BY <1>2, <1>6, <1>7, <3>1
    <3>2. CASE ~(i <= n)
      BY <1>2, <3>2 DEF At, P!At
    <3> QED BY <3>1, <3>2
  <2> QED BY <1>5, <1>7, <2>1 DEF AtSame, cmp
<1>8. CASE \E i : FirstDiffers(f, n, i)
  <2>1. PICK i : FirstDiffers(f, n, i)
    BY <1>8
  <2>2. i \in 1..n /\ i \in Nat \ {0} /\ f[i] # 0 /\ cmp = f[i]
    BY <1>2, <1>5, <2>1 DEF FirstDiffers
  <2>3. ASSUME NEW j \in 1..(i - 1) PROVE At(a, j) = At(b, j)
    <3>1. j \in 1..n /\ j < i
      BY <1>2, <2>2
    <3> QED BY <1>6, <2>1, <3>1 DEF FirstDiffers
  <2>4. CASE f[i] = -1 /\ At(a, i) < At(b, i)
    <3>1. AtLess(a, b)
      BY <2>2, <2>3, <2>4 DEF AtLess
    <3> QED BY <2>2, <2>4, <3>1 DEF cmp
  <2>5. CASE f[i] = 1 /\ At(b, i) < At(a, i)
    <3>1. AtLess(b, a)
      BY <2>2, <2>3, <2>5 DEF AtLess
    <3> QED BY <2>2, <2>5, <3>1 DEF cmp
  <2> QED BY <1>6, <2>2, <2>4, <2>5
<1> QED BY <1>5, <1>7, <1>8

(* An order: strict, total up to zeros, transitive. *)
LEMMA AtOrder ==
  ASSUME NEW a \in Seq(Nat), NEW b \in Seq(Nat), NEW c \in Seq(Nat)
  PROVE  /\ ~(AtLess(a, b) /\ AtLess(b, a)) /\ ~(AtLess(a, b) /\ AtSame(a, b))
         /\ AtSame(a, b) => AtSame(b, a)
         /\ AtLess(a, b) /\ AtLess(b, c) => AtLess(a, c)
         /\ AtLess(a, b) /\ AtSame(b, c) => AtLess(a, c)
         /\ AtSame(a, b) /\ AtLess(b, c) => AtLess(a, c)
         /\ AtSame(a, b) /\ AtSame(b, c) => AtSame(a, c)
<1>1. \A i \in Nat \ {0} : At(a, i) \in Nat /\ At(b, i) \in Nat /\ At(c, i) \in Nat
  BY AtIsNat
<1>2. ~(AtLess(a, b) /\ AtSame(a, b)) /\ (AtSame(a, b) => AtSame(b, a))
  BY <1>1 DEF AtLess, AtSame
<1>3. ASSUME AtLess(a, b), AtLess(b, a) PROVE FALSE
  <2>1. PICK i \in Nat \ {0} : At(a, i) < At(b, i) /\ \A j \in 1..(i - 1) : At(a, j) = At(b, j)
    BY <1>3 DEF AtLess
  <2>2. PICK k \in Nat \ {0} : At(b, k) < At(a, k) /\ \A j \in 1..(k - 1) : At(b, j) = At(a, j)
    BY <1>3 DEF AtLess
  <2>3. i < k \/ i = k \/ k < i
    OBVIOUS
  <2>4. (i < k => i \in 1..(k - 1)) /\ (k < i => k \in 1..(i - 1))
    OBVIOUS
  <2>5. At(a, i) \in Nat /\ At(b, i) \in Nat /\ At(a, k) \in Nat /\ At(b, k) \in Nat
    BY <1>1
  <2>6. CASE i < k
    <3>1. At(b, i) = At(a, i)
      BY <2>2, <2>4, <2>6
    <3> QED BY <2>1, <2>5, <3>1
  <2>7. CASE i = k
    BY <2>1, <2>2, <2>5, <2>7
  <2>8. CASE k < i
    <3>1. At(a, k) = At(b, k)
      BY <2>1, <2>4, <2>8
    <3> QED BY <2>2, <2>5, <3>1
  <2> QED BY <2>3, <2>6, <2>7, <2>8
<1>4. ASSUME AtLess(a, b), AtLess(b, c) PROVE AtLess(a, c)
  <2>1. PICK i \in Nat \ {0} : At(a, i) < At(b, i) /\ \A j \in 1..(i - 1) : At(a, j) = At(b, j)
    BY <1>4 DEF AtLess
  <2>2. PICK k \in Nat \ {0} : At(b, k) < At(c, k) /\ \A j \in 1..(k - 1) : At(b, j) = At(c, j)
    BY <1>4 DEF AtLess
  <2>3. CASE i <= k
    <3>1. At(b, i) <= At(c, i)
      <4>1. i = k \/ i \in 1..(k - 1)
        BY <2>3
      <4> QED BY <1>1, <2>2, <4>1
    <3>2. At(a, i) < At(c, i)
      BY <1>1, <2>1, <3>1
    <3>3. ASSUME NEW j \in 1..(i - 1) PROVE At(a, j) = At(c, j)
      <4>1. j \in 1..(k - 1)
        BY <2>3
      <4> QED BY <2>1, <2>2, <4>1
    <3> QED BY <3>2, <3>3 DEF AtLess
  <2>4. CASE k < i
    <3>1. k \in 1..(i - 1)
      BY <2>4
    <3>2. At(a, k) < At(c, k)
      BY <2>1, <2>2, <3>1
    <3>3. ASSUME NEW j \in 1..(k - 1) PROVE At(a, j) = At(c, j)
      <4>1. j \in 1..(i - 1)
        BY <2>4
      <4> QED BY <2>1, <2>2, <4>1
    <3> QED BY <3>2, <3>3 DEF AtLess
  <2> QED BY <2>3, <2>4
<1>5. \A i \in Nat \ {0} : \A j \in 1..(i - 1) : j \in Nat \ {0}
  OBVIOUS
<1>6. AtSame(a, b) /\ AtSame(b, c) => AtSame(a, c)
  BY DEF AtSame
<1>7. ASSUME AtLess(a, b), AtSame(b, c) PROVE AtLess(a, c)
  <2>1. PICK i \in Nat \ {0} : At(a, i) < At(b, i) /\ \A j \in 1..(i - 1) : At(a, j) = At(b, j)
    BY <1>7 DEF AtLess
  <2>2. At(a, i) < At(c, i) /\ \A j \in 1..(i - 1) : At(a, j) = At(c, j)
    BY <1>5, <1>7, <2>1 DEF AtSame
  <2> QED BY <2>2 DEF AtLess
<1>8. ASSUME AtSame(a, b), AtLess(b, c) PROVE AtLess(a, c)
  <2>1. PICK i \in Nat \ {0} : At(b, i) < At(c, i) /\ \A j \in 1..(i - 1) : At(b, j) = At(c, j)
    BY <1>8 DEF AtLess
  <2>2. At(a, i) < At(c, i) /\ \A j \in 1..(i - 1) : At(a, j) = At(c, j)
    BY <1>5, <1>8, <2>1 DEF AtSame
  <2> QED BY <2>2 DEF AtLess
<1> QED BY <1>2, <1>3, <1>4, <1>6, <1>7, <1>8
-----------------------------------------------------------------------------
(* The order of versions: trailing zeros *)

-----------------------------------------------------------------------------
(* PEP 440's order of releases *)
Trimmed(s) == s \in Seq(Nat) /\ (s # <<>> => s[Len(s)] # 0)

(* Without its trailing zeros, a release is the same. *)
LEMMA SignificantIs ==
  ASSUME NEW r \in Seq(Nat)
  PROVE  Trimmed(P!Significant(r)) /\ AtSame(P!Significant(r), r)
<1> DEFINE I == {i \in DOMAIN r : r[i] # 0}
           m == IF I = {} THEN 0 ELSE CHOOSE i \in I : \A j \in I : j <= i
           s == P!Significant(r)
<1>1. s = SubSeq(r, 1, m)
  BY DEF P!Significant
<1>2. I \in SUBSET (1..Len(r)) /\ Len(r) \in Nat
  OBVIOUS
<1>3. /\ m \in 0..Len(r) /\ (m # 0 => r[m] # 0)
      /\ \A i \in 1..Len(r) : m < i => r[i] = 0
  <2>1. CASE I = {}
    BY <1>2, <2>1
  <2>2. CASE I # {}
    <3>1. \A i : i \in I <=> i \in 1..Len(r) /\ r[i] # 0
      OBVIOUS
    <3> HIDE DEF I
    <3>2. LargestOf(I) \in I /\ \A j \in I : j <= LargestOf(I)
      BY <1>2, <2>2, Largest
    <3>3. m \in I /\ \A j \in I : j <= m
      BY <2>2, <3>2
    <3> HIDE DEF m
    <3> QED BY <1>2, <3>1, <3>3
  <2> QED BY <2>1, <2>2
<1> HIDE DEF m, s, I
<1>4. s \in Seq(Nat) /\ Len(s) = m /\ \A i \in 1..m : s[i] = r[i]
  BY <1>1, <1>3
<1>5. Trimmed(s)
  <2>1. ASSUME s # <<>> PROVE s[Len(s)] # 0
    <3>1. Len(s) # 0
      BY <1>4, <2>1
    <3>2. m \in 1..m
      BY <1>3, <1>4, <3>1
    <3> QED BY <1>3, <1>4, <3>1, <3>2
  <2> QED BY <1>4, <2>1 DEF Trimmed
<1>6. ASSUME NEW i \in Nat \ {0} PROVE At(s, i) = At(r, i)
  <2>1. CASE i <= m
    <3>1. i \in 1..m /\ i <= Len(r)
      BY <1>2, <1>3, <2>1
    <3> QED BY <1>4, <3>1 DEF At, P!At
  <2>2. CASE ~(i <= m) /\ i <= Len(r)
    <3>1. i \in 1..Len(r) /\ m < i
      BY <1>2, <1>3, <2>2
    <3> QED BY <1>3, <1>4, <2>2, <3>1 DEF At, P!At
  <2>3. CASE ~(i <= m) /\ ~(i <= Len(r))
    BY <1>4, <2>3 DEF At, P!At
  <2> QED BY <2>1, <2>2, <2>3
<1>7. AtSame(s, r)
  BY <1>6 DEF AtSame
<1> QED BY <1>5, <1>7 DEF s

(* Sequences without trailing zeros *)
LEMMA TrimmedOrder ==
  ASSUME NEW s, Trimmed(s), NEW t, Trimmed(t)
  PROVE  /\ AtSame(s, t) => s = t
         /\ AtLess(s, t) => P!Before(s, t)
<1>1. /\ s \in Seq(Nat) /\ t \in Seq(Nat) /\ Len(s) \in Nat /\ Len(t) \in Nat
      /\ DOMAIN s = 1..Len(s) /\ DOMAIN t = 1..Len(t)
  BY DEF Trimmed
<1>2. /\ \A i \in Nat \ {0} : At(s, i) = IF i <= Len(s) THEN s[i] ELSE 0
      /\ \A i \in Nat \ {0} : At(t, i) = IF i <= Len(t) THEN t[i] ELSE 0
  BY DEF At, P!At
<1>3. (Len(s) # 0 => s[Len(s)] # 0) /\ (Len(t) # 0 => t[Len(t)] # 0)
  BY <1>1 DEF Trimmed
<1>4. ASSUME AtSame(s, t) PROVE s = t
  <2>1. Len(s) = Len(t)
    <3>1. CASE Len(s) < Len(t)
      <4>1. Len(t) \in Nat \ {0} /\ ~(Len(t) <= Len(s))
        BY <1>1, <3>1
      <4>2. At(s, Len(t)) = 0 /\ At(t, Len(t)) = t[Len(t)]
        BY <1>2, <4>1
      <4> QED BY <1>3, <1>4, <4>1, <4>2 DEF AtSame
    <3>2. CASE Len(t) < Len(s)
      <4>1. Len(s) \in Nat \ {0} /\ ~(Len(s) <= Len(t))
        BY <1>1, <3>2
      <4>2. At(t, Len(s)) = 0 /\ At(s, Len(s)) = s[Len(s)]
        BY <1>2, <4>1
      <4> QED BY <1>3, <1>4, <4>1, <4>2 DEF AtSame
    <3>3. Len(s) < Len(t) \/ Len(t) < Len(s) \/ Len(s) = Len(t)
      <4>1. Len(s) \in Nat /\ Len(t) \in Nat
        BY <1>1
      <4> QED BY <4>1
    <3> QED BY <3>1, <3>2, <3>3
  <2>2. ASSUME NEW i \in 1..Len(s) PROVE s[i] = t[i]
    <3>1. i \in Nat \ {0} /\ i <= Len(s) /\ i <= Len(t)
      BY <1>1, <2>1
    <3> QED BY <1>2, <1>4, <3>1 DEF AtSame
  <2> QED BY <1>1, <2>1, <2>2
<1>5. ASSUME AtLess(s, t) PROVE P!Before(s, t)
  <2>1. PICK i \in Nat \ {0} : At(s, i) < At(t, i) /\ \A j \in 1..(i - 1) : At(s, j) = At(t, j)
    BY <1>5 DEF AtLess
  <2>2. i <= Len(t)
    <3>1. At(s, i) \in Nat
      BY <1>1, AtIsNat
    <3> QED BY <1>2, <2>1, <3>1
  <2>3. CASE i <= Len(s)
    <3>1. i \in DOMAIN s \cap DOMAIN t /\ s[i] < t[i]
      BY <1>1, <1>2, <2>1, <2>2, <2>3
    <3>2. ASSUME NEW j \in 1..(i - 1) PROVE s[j] = t[j]
      <4>1. j \in Nat \ {0} /\ j <= Len(s) /\ j <= Len(t)
        BY <1>1, <2>2, <2>3
      <4> QED BY <1>2, <2>1, <4>1
    <3> QED BY <3>1, <3>2 DEF P!Before
  <2>4. CASE ~(i <= Len(s))
    <3>1. Len(s) < Len(t) /\ Len(s) <= i - 1
      BY <1>1, <2>2, <2>4
    <3>2. ASSUME NEW j \in 1..Len(s) PROVE s[j] = t[j]
      <4>1. j \in Nat \ {0} /\ j <= Len(s) /\ j <= Len(t) /\ j \in 1..(i - 1)
        BY <1>1, <3>1
      <4> QED BY <1>2, <2>1, <4>1
    <3>3. SubSeq(s, 1, Len(s)) = SubSeq(t, 1, Len(s))
      <4> DEFINE x == SubSeq(s, 1, Len(s))
                 y == SubSeq(t, 1, Len(s))
      <4>1. x \in Seq(Nat) /\ Len(x) = Len(s) /\ \A j \in 1..Len(s) : x[j] = s[j]
        BY <1>1
      <4>2. y \in Seq(Nat) /\ Len(y) = Len(s) /\ \A j \in 1..Len(s) : y[j] = t[j]
        BY <1>1, <3>1
      <4> HIDE DEF x, y
      <4>3. x = y
        BY <3>2, <4>1, <4>2
      <4> QED BY <4>3 DEF x, y
    <3>4. s # t
      BY <3>1
    <3>5. P!IsStrictPrefix(s, t)
      BY <1>1, <3>1, <3>3, <3>4 DEF P!IsStrictPrefix, P!IsPrefix
    <3> QED BY <3>5 DEF P!Before
  <2> QED BY <2>3, <2>4
<1> QED BY <1>4, <1>5

(* What comes before does not come after. *)
LEMMA BeforeIsStrict ==
  ASSUME NEW s \in Seq(Int), NEW t \in Seq(Int), P!Before(s, t)
  PROVE  ~P!Before(t, s) /\ s # t
<1> DEFINE Parts(x, y) == \E i \in DOMAIN x \cap DOMAIN y : x[i] < y[i]
        /\ \A j \in 1..(i - 1) : x[j] = y[j]
           Prefix(x, y) == Len(x) < Len(y) /\ \A j \in 1..Len(x) : x[j] = y[j]
<1>0. Len(s) \in Nat /\ Len(t) \in Nat /\ DOMAIN s = 1..Len(s) /\ DOMAIN t = 1..Len(t)
  OBVIOUS
<1>1. ASSUME NEW x \in Seq(Int), NEW y \in Seq(Int), P!IsStrictPrefix(x, y) PROVE Prefix(x, y)
  <2>1. Len(x) <= Len(y) /\ SubSeq(x, 1, Len(x)) = SubSeq(y, 1, Len(x)) /\ x # y
    BY <1>1 DEF P!IsStrictPrefix, P!IsPrefix
  <2>2. /\ Len(x) \in Nat /\ Len(y) \in Nat
        /\ \A j \in 1..Len(x) : SubSeq(x, 1, Len(x))[j] = x[j]
        /\ \A j \in 1..Len(x) : SubSeq(y, 1, Len(x))[j] = y[j]
    BY <2>1
  <2>3. \A j \in 1..Len(x) : x[j] = y[j]
    BY <2>1, <2>2
  <2>4. Len(x) # Len(y)
    <3>1. ASSUME Len(x) = Len(y) PROVE x = y
      <4>1. \A j \in 1..Len(y) : x[j] = y[j]
        BY <2>3, <3>1
      <4>2. /\ x \in Seq(Int) /\ y \in Seq(Int)
            /\ DOMAIN x = 1..Len(x) /\ DOMAIN y = 1..Len(y)
        OBVIOUS
      <4>3. x = [j \in 1..Len(x) |-> x[j]] /\ y = [j \in 1..Len(y) |-> y[j]]
        BY <4>2
      <4> QED BY <3>1, <4>1, <4>3
    <3> QED BY <2>1, <3>1
  <2> QED BY <2>1, <2>2, <2>3, <2>4
<1>2. P!Before(s, t) => Prefix(s, t) \/ Parts(s, t)
  BY <1>1 DEF P!Before
<1>3. P!Before(t, s) => Prefix(t, s) \/ Parts(t, s)
  BY <1>1 DEF P!Before
<1>4. ASSUME Prefix(s, t) PROVE ~Prefix(t, s) /\ ~Parts(t, s) /\ s # t
  BY <1>0, <1>4
<1>5. ASSUME Prefix(t, s) PROVE ~Parts(s, t)
  BY <1>0, <1>5
<1>6. ASSUME Parts(s, t) PROVE ~Parts(t, s) /\ s # t
  <2>1. PICK i \in DOMAIN s \cap DOMAIN t : s[i] < t[i] /\ \A j \in 1..(i - 1) : s[j] = t[j]
    BY <1>6
  <2>2. s[i] \in Int /\ t[i] \in Int
    BY <1>0
  <2>3. ASSUME Parts(t, s) PROVE FALSE
    <3>1. PICK k \in DOMAIN t \cap DOMAIN s : t[k] < s[k] /\ \A j \in 1..(k - 1) : t[j] = s[j]
      BY <2>3
    <3>2. t[k] \in Int /\ s[k] \in Int
      BY <1>0
    <3>3. i = k \/ i \in 1..(k - 1) \/ k \in 1..(i - 1)
      BY <1>0
    <3> QED BY <2>1, <2>2, <3>1, <3>2, <3>3
  <2> QED BY <2>1, <2>2, <2>3
<1> QED BY <1>2, <1>3, <1>4, <1>5, <1>6
-----------------------------------------------------------------------------
(* The order of versions: labels *)

-----------------------------------------------------------------------------
(* Versions, as the code compares them *)
IsVersion(v) ==
  /\ v.epoch \in Nat /\ v.release \in Seq(Nat)
  /\ v.pre \in 0..3 /\ v.num \in Nat
  /\ v.post \in Nat \cup {-1} /\ v.dev \in Nat \cup {-1}
RankOf(v) == IF v.dev >= 0 /\ v.pre = 0 THEN 0 ELSE 1
PreOf(v) == IF v.pre = 0 THEN 4 ELSE v.pre
EndOf(v) == IF v.dev < 0 THEN 1 ELSE 0
LabelsLess(v, w) ==
  \/ RankOf(v) < RankOf(w)
  \/ RankOf(v) = RankOf(w) /\ PreOf(v) < PreOf(w)
  \/ RankOf(v) = RankOf(w) /\ PreOf(v) = PreOf(w) /\ v.num < w.num
  \/ RankOf(v) = RankOf(w) /\ PreOf(v) = PreOf(w) /\ v.num = w.num /\ v.post < w.post
  \/ /\ RankOf(v) = RankOf(w) /\ PreOf(v) = PreOf(w) /\ v.num = w.num /\ v.post = w.post
     /\ EndOf(v) < EndOf(w)
  \/ /\ RankOf(v) = RankOf(w) /\ PreOf(v) = PreOf(w) /\ v.num = w.num /\ v.post = w.post
     /\ EndOf(v) = EndOf(w) /\ v.dev < w.dev
LabelsSame(v, w) ==
  /\ RankOf(v) = RankOf(w) /\ PreOf(v) = PreOf(w) /\ v.num = w.num /\ v.post = w.post
  /\ EndOf(v) = EndOf(w) /\ v.dev = w.dev
VersionLess(v, w) ==
  \/ v.epoch < w.epoch
  \/ v.epoch = w.epoch /\ AtLess(v.release, w.release)
  \/ v.epoch = w.epoch /\ AtSame(v.release, w.release) /\ LabelsLess(v, w)
VersionSame(v, w) ==
  v.epoch = w.epoch /\ AtSame(v.release, w.release) /\ LabelsSame(v, w)

(* What the sort key of a version is made of. *)
LEMMA LabelTypes ==
  ASSUME NEW v, IsVersion(v)
  PROVE  /\ RankOf(v) \in Nat /\ PreOf(v) \in 1..4 /\ EndOf(v) \in 0..1 /\ v.dev \in Int
         /\ v.epoch \in Nat /\ v.num \in Nat /\ v.post \in Int /\ v.release \in Seq(Nat)
BY DEF IsVersion, RankOf, PreOf, EndOf

Decides(c, less, same, more) ==
  (c = -1 /\ less) \/ (c = 0 /\ same) \/ (c = 1 /\ more)

(* The code's comparison decides among the three. *)
LEMMA CompareDecides ==
  ASSUME NEW v, IsVersion(v), NEW w, IsVersion(w)
  PROVE  \/ P!Compare(v, w) = -1 /\ VersionLess(v, w)
         \/ P!Compare(v, w) = 0 /\ VersionSame(v, w)
         \/ P!Compare(v, w) = 1 /\ VersionLess(w, v)
<1> DEFINE f == <<P!cmpInt(v.epoch, w.epoch), P!cmpRelease(v.release, w.release),
                  P!cmpInt(RankOf(v), RankOf(w)), P!cmpInt(PreOf(v), PreOf(w)),
                  P!cmpInt(v.num, w.num), P!cmpInt(v.post, w.post),
                  P!cmpInt(EndOf(v), EndOf(w)), P!cmpInt(v.dev, w.dev)>>
           cmp == P!Compare(v, w)
<1>1. cmp = P!Decided(f)
  BY DEF P!Compare, RankOf, PreOf, EndOf, P!Final
<1>2. f = [i \in 1..8 |-> f[i]]
  OBVIOUS
<1>3. /\ f[1] = P!cmpInt(v.epoch, w.epoch) /\ f[2] = P!cmpRelease(v.release, w.release)
      /\ f[3] = P!cmpInt(RankOf(v), RankOf(w)) /\ f[4] = P!cmpInt(PreOf(v), PreOf(w))
      /\ f[5] = P!cmpInt(v.num, w.num) /\ f[6] = P!cmpInt(v.post, w.post)
      /\ f[7] = P!cmpInt(EndOf(v), EndOf(w)) /\ f[8] = P!cmpInt(v.dev, w.dev)
  OBVIOUS
<1> HIDE DEF f, cmp
<1>4. /\ (\A i \in 1..8 : f[i] = 0) => cmp = 0
      /\ \A i : FirstDiffers(f, 8, i) => cmp = f[i]
      /\ (\A i \in 1..8 : f[i] = 0) \/ \E i : FirstDiffers(f, 8, i)
  <2>1. 8 \in Nat
    OBVIOUS
  <2> QED BY <1>1, <1>2, <2>1, DecidedIs
<1>5. ASSUME NEW x \in Int, NEW y \in Int
      PROVE  Decides(P!cmpInt(x, y), x < y, x = y, y < x)
  BY DEF P!cmpInt, Decides
<1>6. /\ Decides(f[1], v.epoch < w.epoch, v.epoch = w.epoch, w.epoch < v.epoch)
      /\ Decides(f[2], AtLess(v.release, w.release), AtSame(v.release, w.release),
                 AtLess(w.release, v.release))
      /\ Decides(f[3], RankOf(v) < RankOf(w), RankOf(v) = RankOf(w), RankOf(w) < RankOf(v))
      /\ Decides(f[4], PreOf(v) < PreOf(w), PreOf(v) = PreOf(w), PreOf(w) < PreOf(v))
      /\ Decides(f[5], v.num < w.num, v.num = w.num, w.num < v.num)
      /\ Decides(f[6], v.post < w.post, v.post = w.post, w.post < v.post)
      /\ Decides(f[7], EndOf(v) < EndOf(w), EndOf(v) = EndOf(w), EndOf(w) < EndOf(v))
      /\ Decides(f[8], v.dev < w.dev, v.dev = w.dev, w.dev < v.dev)
  <2>1. /\ Decides(f[2], AtLess(v.release, w.release), AtSame(v.release, w.release),
                   AtLess(w.release, v.release))
    BY <1>3, LabelTypes, ReleaseDecides DEF Decides
  <2>2. /\ v.epoch \in Int /\ RankOf(v) \in Int /\ PreOf(v) \in Int /\ v.num \in Int
        /\ v.post \in Int /\ EndOf(v) \in Int /\ v.dev \in Int
        /\ w.epoch \in Int /\ RankOf(w) \in Int /\ PreOf(w) \in Int /\ w.num \in Int
        /\ w.post \in Int /\ EndOf(w) \in Int /\ w.dev \in Int
    <3>1. /\ RankOf(v) \in Nat /\ PreOf(v) \in 1..4 /\ EndOf(v) \in 0..1 /\ v.dev \in Int
          /\ v.epoch \in Nat /\ v.num \in Nat /\ v.post \in Int
      BY LabelTypes
    <3>2. /\ RankOf(w) \in Nat /\ PreOf(w) \in 1..4 /\ EndOf(w) \in 0..1 /\ w.dev \in Int
          /\ w.epoch \in Nat /\ w.num \in Nat /\ w.post \in Int
      BY LabelTypes
    <3> QED BY <3>1, <3>2
  <2> QED BY <1>3, <1>5, <2>1, <2>2 DEF Decides
<1>7. AtSame(v.release, w.release) => AtSame(w.release, v.release)
  BY LabelTypes, AtOrder
<1>8. CASE \A i \in 1..8 : f[i] = 0
  <2>1. f[1] = 0 /\ f[2] = 0 /\ f[3] = 0 /\ f[4] = 0 /\ f[5] = 0 /\ f[6] = 0 /\ f[7] = 0
        /\ f[8] = 0
    BY <1>8
  <2> QED BY <1>4, <1>6, <1>8, <2>1 DEF Decides, VersionSame, LabelsSame, cmp
<1>9. CASE \E i : FirstDiffers(f, 8, i)
  <2>1. PICK i : FirstDiffers(f, 8, i)
    BY <1>9
  <2>2. cmp = f[i] /\ f[i] # 0
    BY <1>4, <2>1 DEF FirstDiffers
  <2>3. i = 1 \/ i = 2 \/ i = 3 \/ i = 4 \/ i = 5 \/ i = 6 \/ i = 7 \/ i = 8
    BY <2>1 DEF FirstDiffers
  <2>4. /\ i > 1 => f[1] = 0
        /\ i > 2 => f[2] = 0
        /\ i > 3 => f[3] = 0
        /\ i > 4 => f[4] = 0
        /\ i > 5 => f[5] = 0
        /\ i > 6 => f[6] = 0
        /\ i > 7 => f[7] = 0
    BY <2>1, <2>3 DEF FirstDiffers
  <2> USE DEF Decides, cmp
  <2>5. CASE i = 1
    BY <1>6, <2>2, <2>5 DEF VersionLess
  <2>6. CASE i = 2
    BY <1>6, <2>2, <2>4, <2>6 DEF VersionLess
  <2>7. CASE i \in {3, 4, 5, 6, 7, 8}
    <3>1. v.epoch = w.epoch /\ AtSame(v.release, w.release) /\ AtSame(w.release, v.release)
      BY <1>6, <1>7, <2>4, <2>7
    <3>2. (cmp = -1 /\ LabelsLess(v, w)) \/ (cmp = 1 /\ LabelsLess(w, v))
      BY <1>6, <2>2, <2>4, <2>7 DEF LabelsLess
    <3> QED BY <3>1, <3>2 DEF VersionLess
  <2> QED BY <2>3, <2>5, <2>6, <2>7
<1> QED BY <1>4, <1>8, <1>9

(* It is an order. *)
LEMMA VersionOrder ==
  ASSUME NEW u, IsVersion(u), NEW v, IsVersion(v), NEW w, IsVersion(w)
  PROVE  /\ ~(VersionLess(u, v) /\ VersionLess(v, u)) /\ ~(VersionLess(u, v) /\ VersionSame(u, v))
         /\ VersionSame(u, v) => VersionSame(v, u)
         /\ VersionLess(u, v) /\ VersionLess(v, w) => VersionLess(u, w)
         /\ VersionSame(u, v) /\ VersionLess(v, w) => VersionLess(u, w)
<1> DEFINE a == u.release
           b == v.release
           c == w.release
<1>1. /\ ~(AtLess(a, b) /\ AtLess(b, a)) /\ ~(AtLess(a, b) /\ AtSame(a, b))
      /\ ~(AtLess(b, a) /\ AtSame(b, a))
      /\ (AtSame(a, b) => AtSame(b, a)) /\ (AtSame(b, a) => AtSame(a, b))
      /\ AtLess(a, b) /\ AtLess(b, c) => AtLess(a, c)
      /\ AtLess(a, b) /\ AtSame(b, c) => AtLess(a, c)
      /\ AtSame(a, b) /\ AtLess(b, c) => AtLess(a, c)
      /\ AtSame(a, b) /\ AtSame(b, c) => AtSame(a, c)
  BY LabelTypes, AtOrder
<1>2. /\ ~(LabelsLess(u, v) /\ LabelsLess(v, u)) /\ ~(LabelsLess(u, v) /\ LabelsSame(u, v))
      /\ LabelsSame(u, v) => LabelsSame(v, u)
      /\ LabelsLess(u, v) /\ LabelsLess(v, w) => LabelsLess(u, w)
      /\ LabelsSame(u, v) /\ LabelsLess(v, w) => LabelsLess(u, w)
  <2>1. \A x \in {u, v, w} : /\ RankOf(x) \in Int /\ PreOf(x) \in Int /\ EndOf(x) \in Int
                             /\ x.num \in Int /\ x.post \in Int /\ x.dev \in Int
    <3>1. ASSUME NEW x, IsVersion(x)
          PROVE  /\ RankOf(x) \in Int /\ PreOf(x) \in Int /\ EndOf(x) \in Int
                 /\ x.num \in Int /\ x.post \in Int /\ x.dev \in Int
      <4>1. /\ RankOf(x) \in Nat /\ PreOf(x) \in 1..4 /\ EndOf(x) \in 0..1 /\ x.dev \in Int
            /\ x.num \in Nat /\ x.post \in Int
        BY <3>1, LabelTypes
      <4> QED BY <4>1
    <3> QED BY <3>1
  <2>2. LabelsSame(u, v) => LabelsSame(v, u)
    BY DEF LabelsSame
  <2>3. ~(LabelsLess(u, v) /\ LabelsLess(v, u))
    BY <2>1 DEF LabelsLess
  <2>4. ~(LabelsLess(u, v) /\ LabelsSame(u, v))
    BY <2>1 DEF LabelsLess, LabelsSame
  <2>5. LabelsLess(u, v) /\ LabelsLess(v, w) => LabelsLess(u, w)
    BY <2>1 DEF LabelsLess
  <2>6. LabelsSame(u, v) /\ LabelsLess(v, w) => LabelsLess(u, w)
    BY <2>1 DEF LabelsLess, LabelsSame
  <2> QED BY <2>2, <2>3, <2>4, <2>5, <2>6
<1>3. u.epoch \in Nat /\ v.epoch \in Nat /\ w.epoch \in Nat
  BY LabelTypes
<1> HIDE DEF a, b, c
<1>4. /\ VersionLess(u, v) <=> \/ u.epoch < v.epoch
                               \/ u.epoch = v.epoch /\ AtLess(a, b)
                               \/ u.epoch = v.epoch /\ AtSame(a, b) /\ LabelsLess(u, v)
      /\ VersionLess(v, u) <=> \/ v.epoch < u.epoch
                               \/ v.epoch = u.epoch /\ AtLess(b, a)
                               \/ v.epoch = u.epoch /\ AtSame(b, a) /\ LabelsLess(v, u)
      /\ VersionLess(v, w) <=> \/ v.epoch < w.epoch
                               \/ v.epoch = w.epoch /\ AtLess(b, c)
                               \/ v.epoch = w.epoch /\ AtSame(b, c) /\ LabelsLess(v, w)
      /\ VersionLess(u, w) <=> \/ u.epoch < w.epoch
                               \/ u.epoch = w.epoch /\ AtLess(a, c)
                               \/ u.epoch = w.epoch /\ AtSame(a, c) /\ LabelsLess(u, w)
      /\ VersionSame(u, v) <=> u.epoch = v.epoch /\ AtSame(a, b) /\ LabelsSame(u, v)
      /\ VersionSame(v, u) <=> v.epoch = u.epoch /\ AtSame(b, a) /\ LabelsSame(v, u)
  BY DEF VersionLess, VersionSame, a, b, c
<1>5. ~(VersionLess(u, v) /\ VersionLess(v, u)) /\ ~(VersionLess(u, v) /\ VersionSame(u, v))
  <2>1. ~(u.epoch < v.epoch /\ (v.epoch < u.epoch \/ v.epoch = u.epoch))
    BY <1>3
  <2>2. ~(v.epoch < u.epoch /\ u.epoch = v.epoch)
    BY <1>3
  <2>3. ASSUME VersionLess(u, v), VersionLess(v, u) PROVE FALSE
    <3>1. u.epoch = v.epoch /\ ~(u.epoch < v.epoch) /\ ~(v.epoch < u.epoch)
      BY <1>3, <1>4, <2>1, <2>2, <2>3
    <3>2. AtLess(a, b) \/ (AtSame(a, b) /\ LabelsLess(u, v))
      BY <1>4, <2>3, <3>1
    <3>3. AtLess(b, a) \/ (AtSame(b, a) /\ LabelsLess(v, u))
      BY <1>4, <2>3, <3>1
    <3> QED BY <1>1, <1>2, <3>2, <3>3
  <2>4. ASSUME VersionLess(u, v), VersionSame(u, v) PROVE FALSE
    <3>1. u.epoch = v.epoch /\ AtSame(a, b) /\ LabelsSame(u, v) /\ ~(u.epoch < v.epoch)
      BY <1>3, <1>4, <2>4
    <3> QED BY <1>1, <1>2, <1>4, <2>4, <3>1
  <2> QED BY <2>3, <2>4
<1>6. VersionSame(u, v) => VersionSame(v, u)
  BY <1>1, <1>2, <1>3, <1>4
<1>7. ASSUME VersionLess(u, v), VersionLess(v, w) PROVE VersionLess(u, w)
  <2>1. u.epoch < w.epoch \/ (u.epoch = v.epoch /\ v.epoch = w.epoch)
    BY <1>3, <1>4, <1>7
  <2>2. CASE u.epoch < w.epoch
    BY <1>4, <2>2
  <2>3. CASE u.epoch = v.epoch /\ v.epoch = w.epoch
    <3>1. ~(u.epoch < v.epoch) /\ ~(v.epoch < w.epoch) /\ u.epoch = w.epoch
      BY <1>3, <2>3
    <3>2. AtLess(a, b) \/ (AtSame(a, b) /\ LabelsLess(u, v))
      BY <1>4, <1>7, <3>1
    <3>3. AtLess(b, c) \/ (AtSame(b, c) /\ LabelsLess(v, w))
      BY <1>4, <1>7, <3>1
    <3> QED BY <1>1, <1>2, <1>4, <3>1, <3>2, <3>3
  <2> QED BY <2>1, <2>2, <2>3
<1>8. VersionSame(u, v) /\ VersionLess(v, w) => VersionLess(u, w)
  BY <1>1, <1>2, <1>3, <1>4
<1> QED BY <1>5, <1>6, <1>7, <1>8
-----------------------------------------------------------------------------
(* The code's order is PEP 440's *)

(* Numbers from 0 up are integers. *)
LEMMA IntSeq == ASSUME NEW s \in Seq(Nat) PROVE s \in Seq(Int)
<1>1. \A i \in 1..Len(s) : s[i] \in Int
  OBVIOUS
<1> QED BY <1>1, ElementsOf

(* PEP 440's sort key of the labels *)
LEMMA KeyIs ==
  ASSUME NEW v, IsVersion(v)
  PROVE  LET k == P!PepKey(v) IN
         /\ k \in Seq(Int) /\ DOMAIN k = 1..5 /\ k[2] = v.num /\ k[3] = v.post
             /\ k[4] = EndOf(v) /\ k[5] = v.dev
         /\ ~P!DevOfPost(v) =>
              k[1] = IF v.pre # 0 THEN v.pre ELSE IF RankOf(v) = 0 THEN 0 ELSE 4
<1> DEFINE first == IF v.pre # 0 THEN v.pre ELSE IF v.post < 0 /\ v.dev >= 0 THEN 0 ELSE 4
           k == P!PepKey(v)
<1>1. k = <<first, v.num, v.post, EndOf(v), v.dev>>
  BY DEF P!PepKey, EndOf, P!Final
<1>2. first \in Int /\ v.num \in Int /\ v.post \in Int /\ EndOf(v) \in Int /\ v.dev \in Int
  <2>1. v.num \in Nat /\ v.post \in Int /\ EndOf(v) \in 0..1 /\ v.dev \in Int /\ v.pre \in 0..3
    BY LabelTypes DEF IsVersion
  <2> QED BY <2>1
<1>3. ASSUME ~P!DevOfPost(v)
      PROVE  first = IF v.pre # 0 THEN v.pre ELSE IF RankOf(v) = 0 THEN 0 ELSE 4
  BY <1>3 DEF IsVersion, P!DevOfPost, RankOf
<1> HIDE DEF first
<1>4. k \in Seq(Int) /\ DOMAIN k = 1..5 /\ k[1] = first /\ k[2] = v.num /\ k[3] = v.post
          /\ k[4] = EndOf(v) /\ k[5] = v.dev
  BY <1>1, <1>2
<1> QED BY <1>3, <1>4

(* PEP 440's keys order the labels as the code does. *)
LEMMA KeysOrder ==
  ASSUME NEW v, IsVersion(v), NEW w, IsVersion(w), ~P!DevOfPost(v), ~P!DevOfPost(w)
  PROVE  /\ LabelsLess(v, w) => P!Before(P!PepKey(v), P!PepKey(w))
         /\ LabelsSame(v, w) => P!PepKey(v) = P!PepKey(w)
<1> DEFINE k == P!PepKey(v)
           l == P!PepKey(w)
<1>1. /\ k \in Seq(Int) /\ DOMAIN k = 1..5 /\ k[2] = v.num /\ k[3] = v.post /\ k[4] = EndOf(v)
             /\ k[5] = v.dev
      /\ k[1] = IF v.pre # 0 THEN v.pre ELSE IF RankOf(v) = 0 THEN 0 ELSE 4
      /\ l \in Seq(Int) /\ DOMAIN l = 1..5 /\ l[2] = w.num /\ l[3] = w.post /\ l[4] = EndOf(w)
          /\ l[5] = w.dev
      /\ l[1] = IF w.pre # 0 THEN w.pre ELSE IF RankOf(w) = 0 THEN 0 ELSE 4
  BY KeyIs
<1> HIDE DEF k, l
<1>2. v.pre \in 0..3 /\ w.pre \in 0..3
  BY DEF IsVersion
<1>3. RankOf(v) \in {0, 1} /\ RankOf(w) \in {0, 1} /\ (RankOf(v) = 0 => v.pre = 0)
          /\ (RankOf(w) = 0 => w.pre = 0)
  BY DEF RankOf
<1>4. /\ RankOf(v) < RankOf(w) => k[1] < l[1]
      /\ RankOf(v) = RankOf(w) /\ PreOf(v) < PreOf(w) => k[1] < l[1]
      /\ RankOf(v) = RankOf(w) /\ PreOf(v) = PreOf(w) => k[1] = l[1]
  BY <1>1, <1>2, <1>3 DEF PreOf
<1>5. ASSUME NEW i \in 1..5, k[i] < l[i], \A j \in 1..(i - 1) : k[j] = l[j] PROVE P!Before(k, l)
  BY <1>1, <1>5 DEF P!Before
<1>6. ASSUME LabelsLess(v, w) PROVE P!Before(k, l)
  <2>1. CASE k[1] < l[1]
    BY <1>5, <2>1
  <2>2. CASE k[1] = l[1] /\ v.num < w.num
    <3>1. k[2] < l[2] /\ \A j \in 1..(2 - 1) : k[j] = l[j]
      BY <1>1, <2>2
    <3> QED BY <1>5, <3>1
  <2>3. CASE k[1] = l[1] /\ v.num = w.num /\ v.post < w.post
    <3>1. k[3] < l[3] /\ \A j \in 1..(3 - 1) : k[j] = l[j]
      BY <1>1, <2>3
    <3> QED BY <1>5, <3>1
  <2>4. CASE k[1] = l[1] /\ v.num = w.num /\ v.post = w.post /\ EndOf(v) < EndOf(w)
    <3>1. k[4] < l[4] /\ \A j \in 1..(4 - 1) : k[j] = l[j]
      BY <1>1, <2>4
    <3> QED BY <1>5, <3>1
  <2>5. CASE /\ k[1] = l[1] /\ v.num = w.num /\ v.post = w.post /\ EndOf(v) = EndOf(w)
             /\ v.dev < w.dev
    <3>1. k[5] < l[5] /\ \A j \in 1..(5 - 1) : k[j] = l[j]
      BY <1>1, <2>5
    <3> QED BY <1>5, <3>1
  <2> QED BY <1>4, <1>6, <2>1, <2>2, <2>3, <2>4, <2>5 DEF LabelsLess
<1>7. ASSUME LabelsSame(v, w) PROVE k = l
  <2>1. k[1] = l[1] /\ k[2] = l[2] /\ k[3] = l[3] /\ k[4] = l[4] /\ k[5] = l[5]
    BY <1>1, <1>4, <1>7 DEF LabelsSame
  <2>2. \A i \in 1..5 : k[i] = l[i]
    BY <2>1
  <2>3. k = [i \in 1..5 |-> k[i]] /\ l = [i \in 1..5 |-> l[i]]
    BY <1>1
  <2> QED BY <2>2, <2>3
<1> QED BY <1>6, <1>7 DEF k, l

(* The code's order is PEP 440's. *)
LEMMA PepOrder ==
  ASSUME NEW v, IsVersion(v), NEW w, IsVersion(w), ~P!DevOfPost(v), ~P!DevOfPost(w)
  PROVE  /\ VersionLess(v, w) => P!PepBefore(v, w) /\ ~P!PepBefore(w, v)
         /\ VersionSame(v, w) => ~P!PepBefore(v, w) /\ ~P!PepBefore(w, v)
<1> DEFINE a == P!Significant(v.release)
           b == P!Significant(w.release)
           k == P!PepKey(v)
           l == P!PepKey(w)
<1>1. /\ P!PepBefore(v, w) <=> v.epoch < w.epoch
                             \/ (v.epoch = w.epoch /\ (P!Before(a, b) \/ (a = b /\ P!Before(k, l))))
      /\ P!PepBefore(w, v) <=> w.epoch < v.epoch
                             \/ (w.epoch = v.epoch /\ (P!Before(b, a) \/ (b = a /\ P!Before(l, k))))
  BY DEF P!PepBefore
<1>2. v.release \in Seq(Nat) /\ w.release \in Seq(Nat) /\ v.epoch \in Nat /\ w.epoch \in Nat
  BY DEF IsVersion
<1>3. Trimmed(a) /\ AtSame(a, v.release) /\ Trimmed(b) /\ AtSame(b, w.release)
  BY <1>2, SignificantIs
<1>4. a \in Seq(Int) /\ b \in Seq(Int) /\ k \in Seq(Int) /\ l \in Seq(Int)
  BY <1>3, IntSeq, KeyIs DEF Trimmed
<1>5. (LabelsLess(v, w) => P!Before(k, l)) /\ (LabelsSame(v, w) => k = l)
  BY KeysOrder
<1> HIDE DEF a, b, k, l
<1>6. /\ P!Before(a, b) => ~P!Before(b, a) /\ a # b
      /\ P!Before(b, a) => ~P!Before(a, b) /\ a # b
      /\ P!Before(k, l) => ~P!Before(l, k) /\ k # l
      /\ P!Before(l, k) => ~P!Before(k, l) /\ k # l
  BY <1>4, BeforeIsStrict
<1>7. /\ AtLess(v.release, w.release) => P!Before(a, b)
      /\ AtSame(v.release, w.release) => a = b
  <2>1. a \in Seq(Nat) /\ b \in Seq(Nat)
    BY <1>3 DEF Trimmed
  <2>2. AtSame(w.release, b)
    BY <1>2, <1>3, <2>1, AtOrder
  <2>3. ASSUME AtLess(v.release, w.release) PROVE AtLess(a, b)
    <3>1. AtLess(v.release, b)
      BY <1>2, <2>1, <2>2, <2>3, AtOrder
    <3> QED BY <1>2, <1>3, <2>1, <3>1, AtOrder
  <2>4. ASSUME AtSame(v.release, w.release) PROVE AtSame(a, b)
    <3>1. AtSame(v.release, b)
      BY <1>2, <2>1, <2>2, <2>4, AtOrder
    <3> QED BY <1>2, <1>3, <2>1, <3>1, AtOrder
  <2> QED BY <1>3, <2>3, <2>4, TrimmedOrder
<1>8. ASSUME VersionLess(v, w) PROVE P!PepBefore(v, w) /\ ~P!PepBefore(w, v)
  <2>1. CASE v.epoch < w.epoch
    <3>1. ~(w.epoch < v.epoch) /\ w.epoch # v.epoch
      BY <1>2, <2>1
    <3> QED BY <1>1, <2>1, <3>1
  <2>2. CASE v.epoch = w.epoch
    <3>1. ~(w.epoch < v.epoch) /\ ~(v.epoch < w.epoch)
      BY <1>2, <2>2
    <3>2. P!Before(a, b) \/ (a = b /\ P!Before(k, l))
      BY <1>5, <1>7, <1>8, <3>1 DEF VersionLess
    <3> QED BY <1>1, <1>6, <2>2, <3>1, <3>2
  <2> QED BY <1>8, <2>1, <2>2 DEF VersionLess
<1>9. ASSUME VersionSame(v, w) PROVE ~P!PepBefore(v, w) /\ ~P!PepBefore(w, v)
  <2>1. a = b /\ k = l /\ v.epoch = w.epoch
    BY <1>5, <1>7, <1>9 DEF VersionSame
  <2>2. ~(w.epoch < v.epoch) /\ ~(v.epoch < w.epoch)
    BY <1>2, <2>1
  <2> QED BY <1>1, <1>6, <2>1, <2>2
<1> QED BY <1>8, <1>9

(* And `==` means neither before nor after. *)
LEMMA EqualIsSame ==
  ASSUME NEW v, IsVersion(v), NEW w, IsVersion(w)
  PROVE  P!equalPublic(v, w) <=> P!Compare(v, w) = 0
<1>1. P!Compare(v, w) = 0 <=> VersionSame(v, w)
  <2>1. ~(VersionLess(v, w) /\ VersionSame(v, w)) /\ ~(VersionLess(w, v) /\ VersionSame(w, v))
        /\ (VersionSame(v, w) => VersionSame(w, v))
    BY VersionOrder
  <2>2. -1 # 0 /\ 1 # 0
    OBVIOUS
  <2> QED BY <2>1, <2>2, CompareDecides
<1>2. P!cmpRelease(v.release, w.release) = 0 <=> AtSame(v.release, w.release)
  <2>1. v.release \in Seq(Nat) /\ w.release \in Seq(Nat)
    BY DEF IsVersion
  <2>2. ~(AtLess(v.release, w.release) /\ AtSame(v.release, w.release))
        /\ ~(AtLess(w.release, v.release) /\ AtSame(w.release, v.release))
        /\ (AtSame(v.release, w.release) => AtSame(w.release, v.release))
    BY <2>1, AtOrder
  <2>3. -1 # 0 /\ 1 # 0
    OBVIOUS
  <2> QED BY <2>1, <2>2, <2>3, ReleaseDecides
<1>3. LabelsSame(v, w) <=> v.pre = w.pre /\ v.num = w.num /\ v.post = w.post /\ v.dev = w.dev
  <2>1. /\ v.pre \in 0..3 /\ w.pre \in 0..3
        /\ v.dev \in Nat \cup {-1} /\ w.dev \in Nat \cup {-1}
    BY DEF IsVersion
  <2>2. PreOf(v) = PreOf(w) <=> v.pre = w.pre
    BY <2>1 DEF PreOf
  <2>3. EndOf(v) = EndOf(w) /\ v.dev = w.dev <=> v.dev = w.dev
    BY DEF EndOf
  <2>4. v.pre = w.pre /\ v.dev = w.dev => RankOf(v) = RankOf(w)
    BY DEF RankOf
  <2> QED BY <2>2, <2>3, <2>4 DEF LabelsSame
<1>4. P!equalPublic(v, w) <=>
        /\ v.epoch = w.epoch /\ v.pre = w.pre /\ v.num = w.num /\ v.post = w.post /\ v.dev = w.dev
        /\ P!cmpRelease(v.release, w.release) = 0
  BY DEF P!equalPublic
<1> QED BY <1>1, <1>2, <1>3, <1>4 DEF VersionSame
-----------------------------------------------------------------------------
(* What a spelling is read as *)

-----------------------------------------------------------------------------
(* What a spelling's labels are read into *)
Readings(s) ==
  [original : {s}, epoch : {s.epoch}, release : {s.rel}, pre : 0..3, num : Nat,
   post : Nat \cup {-1}, dev : Nat \cup {-1}]
IsLabel(label) ==
  label[1] \in {"a", "b", "rc", "post", "dev"} /\ label[2] \in Nat

(* A label that is read leaves a version. *)
LEMMA ConsumeReads ==
  ASSUME NEW s, NEW v \in Readings(s), NEW label, IsLabel(label)
  PROVE  P!consume(v, label) \in Readings(s)
<1>1. DOMAIN P!PreKind = {"a", "b", "rc"} /\ P!PreKind["a"] = 1 /\ P!PreKind["b"] = 2
          /\ P!PreKind["rc"] = 3
  BY DEF P!PreKind
<1>2. label[2] \in Nat
  BY DEF IsLabel
<1>3. CASE label[1] = "post"
  BY <1>2, <1>3 DEF Readings, P!consume
<1>4. CASE label[1] = "dev"
  BY <1>2, <1>4 DEF Readings, P!consume
<1>5. CASE label[1] \in {"a", "b", "rc"}
  <2>1. P!PreKind[label[1]] \in 0..3
    BY <1>1, <1>5
  <2>2. P!consume(v, label) = [v EXCEPT !.pre = P!PreKind[label[1]], !.num = label[2]]
    BY <1>5 DEF P!consume
  <2> QED BY <1>2, <2>1, <2>2 DEF Readings
<1> QED BY <1>3, <1>4, <1>5 DEF IsLabel

(* All labels of a spelling together leave a version. *)
LEMMA FoldOfLabels ==
  ASSUME NEW s, NEW base \in Readings(s), NEW labels, IsSeq(labels),
         \A i \in 1..Len(labels) : IsLabel(labels[i])
  PROVE  P!FoldLeft(P!consume, base, labels) \in Readings(s)
<1> DEFINE n == Len(labels)
           B == Readings(s)
           step == [p \in B \X (1..n) |-> P!consume(p[1], labels[p[2]])]
           Fold(h) == h = [t \in SUBSET DOMAIN labels |->
                             IF t = {} THEN base
                             ELSE P!consume(h[t \ {LargestOf(t)}], labels[LargestOf(t)])]
           g == CHOOSE h : Fold(h)
<1>1. n \in Nat /\ DOMAIN labels = 1..n
  BY SeqOfItself
<1>2. step \in [B \X (1..n) -> B]
  <2> SUFFICES ASSUME NEW p \in B \X (1..n) PROVE P!consume(p[1], labels[p[2]]) \in B
    OBVIOUS
  <2>1. p[1] \in B /\ p[2] \in 1..n
    OBVIOUS
  <2>2. IsLabel(labels[p[2]])
    BY <2>1
  <2> QED BY <2>1, <2>2, ConsumeReads
<1>3. P!FoldLeft(P!consume, base, labels) = g[1..n]
  BY <1>1 DEF P!FoldLeft, P!MapThenFoldSet, P!Max, LargestOf
<1>4. \E h : Fold(h)
  <2>1. PICK h \in [SUBSET (1..n) -> B] : Loops(h, n, base, step)
    <3> HIDE DEF step, B
    <3>1. base \in B
      BY DEF B
    <3> QED BY <1>1, <1>2, <3>1, LoopExists
  <2>2. ASSUME NEW t \in SUBSET (1..n), t # {}
        PROVE  step[<<h[t \ {LargestOf(t)}], LargestOf(t)>>]
                 = P!consume(h[t \ {LargestOf(t)}], labels[LargestOf(t)])
    <3>1. LargestOf(t) \in 1..n /\ t \ {LargestOf(t)} \in SUBSET (1..n)
      BY <1>1, <2>2, Largest
    <3> QED BY <3>1
  <2>3. Fold(h)
    <3> HIDE DEF step, n, g
    <3> QED BY <1>1, <2>1, <2>2 DEF Loops
  <2> QED BY <2>3
<1>5. Fold(g)
  <2> HIDE DEF Fold
  <2> QED BY <1>4
<1> HIDE DEF g, n
<1>6. g[{}] = base
  BY <1>5
<1>7. ASSUME NEW k \in 1..n, g[1..(k - 1)] \in B
      PROVE  g[1..k] = step[<<g[1..(k - 1)], k>>]
  <2>1. LargestOf(1..k) = k /\ (1..k) \ {k} = 1..(k - 1) /\ 1..k # {} /\ 1..k \in SUBSET (1..n)
    <3>1. k \in Nat \ {0} /\ 1..k \in SUBSET (1..n)
      BY <1>1
    <3> QED BY <3>1, LastOf
  <2>2. g[1..k] = P!consume(g[1..(k - 1)], labels[k])
    <3> HIDE DEF step
    <3> QED BY <1>1, <1>5, <2>1
  <2> QED BY <1>7, <2>2
<1>8. Unrolls(g, n, B, base, step)
  <2> HIDE DEF step, B
  <2> QED BY <1>6, <1>7 DEF Unrolls
<1>9. PICK r : Rounds(r, n, B, base, step, g[1..n])
  <2> HIDE DEF step, B
  <2>1. base \in B
    BY DEF B
  <2> QED BY <1>1, <1>2, <1>8, <2>1, LoopResult
<1>10. n \in 0..n
  BY <1>1
<1> QED BY <1>3, <1>9, <1>10 DEF Rounds

(* A spelling is read into a version, and remembered. *)
LEMMA ParseIsVersion ==
  ASSUME NEW s, P!Spelled(s)
  PROVE  IsVersion(P!ParseVersion(s)) /\ P!ParseVersion(s).original = s
<1> DEFINE Z == {i \in 1..Len(s.tail) : s.tail[i][1] \notin P!Labels}
           unknown == IF Z # {} THEN LeastOf(Z) ELSE 0
           labels == IF unknown = 0 THEN s.tail ELSE SubSeq(s.tail, 1, unknown - 1)
           base == [original |-> s, epoch |-> s.epoch, release |-> s.rel,
                    pre |-> 0, num |-> 0, post |-> -1, dev |-> -1]
           v == P!ParseVersion(s)
<1>1. v = P!FoldLeft(P!consume, base, labels)
  BY DEF P!ParseVersion, P!SelectInSeq, P!Min, LeastOf
<1>2. /\ s.epoch \in Nat /\ s.rel \in Seq(Nat) /\ IsSeq(s.tail)
      /\ \A label \in P!ToSet(s.tail) : label[2] \in Nat
  BY DEF P!Spelled, IsSeq
<1>3. P!Labels = {"a", "b", "rc", "post", "dev"}
  BY DEF P!Labels, P!PreKind
<1>4. Len(s.tail) \in Nat /\ \A i \in 1..Len(s.tail) : s.tail[i][2] \in Nat
  BY <1>2, InSeq, SeqOfItself
<1>5. base \in Readings(s)
  BY DEF Readings
<1>6. IsSeq(labels) /\ \A i \in 1..Len(labels) : IsLabel(labels[i])
  <2>0. Z \in SUBSET Nat
    BY <1>4
  <2>1. CASE Z = {}
    <3>1. labels = s.tail
      BY <2>1
    <3>2. \A i \in 1..Len(s.tail) : s.tail[i][1] \in P!Labels
      BY <2>1
    <3> QED BY <1>2, <1>3, <1>4, <3>1, <3>2 DEF IsSeq, IsLabel
  <2>2. CASE Z # {}
    <3>1. LeastOf(Z) \in Z /\ \A y \in Z : LeastOf(Z) <= y
      <4> HIDE DEF Z
      <4>1. \E x \in Z : \A y \in Z : x <= y
        BY <2>0, <2>2, Least
      <4> QED BY <4>1 DEF LeastOf
    <3>2. unknown \in 1..Len(s.tail) /\ \A y \in Z : unknown <= y
      BY <2>2, <3>1
    <3> HIDE DEF unknown
    <3>3. labels = SubSeq(s.tail, 1, unknown - 1)
      BY <3>2
    <3> DEFINE t == SubSeq(s.tail, 1, unknown - 1)
    <3>4. /\ t \in Seq(P!ToSet(s.tail)) /\ Len(t) = unknown - 1
          /\ \A i \in 1..(unknown - 1) : t[i] = s.tail[i]
      <4> DEFINE A == P!ToSet(s.tail)
                 q == s.tail
      <4>1. q \in Seq(A) /\ unknown - 1 \in 0..Len(q)
        BY <1>2, <1>4, <3>2, SeqOfItself
      <4> HIDE DEF A, q
      <4>2. /\ SubSeq(q, 1, unknown - 1) \in Seq(A) /\ Len(SubSeq(q, 1, unknown - 1)) = unknown - 1
            /\ \A i \in 1..(unknown - 1) : SubSeq(q, 1, unknown - 1)[i] = q[i]
        BY <4>1
      <4> QED BY <4>2 DEF A, q
    <3>5. ASSUME NEW i \in 1..(unknown - 1) PROVE s.tail[i][1] \in P!Labels /\ i \in 1..Len(s.tail)
      <4>1. i \in 1..Len(s.tail) /\ ~(unknown <= i)
        BY <1>4, <3>2
      <4> QED BY <3>2, <4>1
    <3> HIDE DEF t, labels
    <3>6. labels = t
      BY <3>3 DEF t
    <3> QED BY <1>3, <1>4, <3>4, <3>5, <3>6 DEF IsSeq, IsLabel
  <2> QED BY <2>1, <2>2
<1> HIDE DEF labels, base, v
<1>7. v \in Readings(s)
  BY <1>1, <1>5, <1>6, FoldOfLabels
<1>8. IsVersion(v) /\ v.original = s
  BY <1>2, <1>7 DEF Readings, IsVersion
<1> QED BY <1>8 DEF v
-----------------------------------------------------------------------------
(* The highest of a sequence *)

-----------------------------------------------------------------------------
IsBest(b, m, k) == b \in P!ToSet(m) /\ \A i \in 1..k : ~VersionLess(b, m[i])

(* The loop over the versions that match keeps one of the highest so far. *)
LEMMA BestOfTwo ==
  ASSUME NEW m, IsSeq(m), \A v \in P!ToSet(m) : IsVersion(v),
         NEW k \in 1..(Len(m) - 1), NEW b, IsBest(b, m, k)
  PROVE  IsBest(IF P!Compare(m[k + 1], b) > 0 THEN m[k + 1] ELSE b, m, k + 1)
<1> DEFINE v == m[k + 1]
<1>1. Len(m) \in Nat /\ k + 1 \in 1..Len(m) /\ \A i \in 1..k : i \in 1..Len(m)
  BY SeqOfItself
<1>2. v \in P!ToSet(m) /\ IsVersion(v) /\ IsVersion(b)
  BY <1>1, InSeq DEF IsBest
<1>3. \A i \in 1..k : m[i] \in P!ToSet(m) /\ IsVersion(m[i])
  BY <1>1, InSeq
<1>4. \A i \in 1..(k + 1) : i \in 1..k \/ i = k + 1
  OBVIOUS
<1>5. \/ P!Compare(v, b) = -1 /\ VersionLess(v, b)
      \/ P!Compare(v, b) = 0 /\ VersionSame(v, b)
      \/ P!Compare(v, b) = 1 /\ VersionLess(b, v)
  BY <1>2, CompareDecides
<1> HIDE DEF v
<1>6. CASE P!Compare(v, b) > 0
  <2>1. VersionLess(b, v)
    BY <1>5, <1>6
  <2>2. ASSUME NEW i \in 1..k PROVE ~VersionLess(v, m[i])
    <3>1. VersionLess(v, m[i]) => VersionLess(b, m[i])
      BY <1>2, <1>3, <2>1, VersionOrder
    <3> QED BY <3>1 DEF IsBest
  <2>3. ~VersionLess(v, v)
    BY <1>2, VersionOrder
  <2> QED BY <1>2, <1>4, <1>6, <2>2, <2>3 DEF IsBest, v
<1>7. CASE ~(P!Compare(v, b) > 0)
  <2>1. ~VersionLess(b, v)
    <3>1. VersionLess(v, b) \/ VersionSame(v, b)
      BY <1>5, <1>7
    <3>2. ~(VersionLess(v, b) /\ VersionLess(b, v)) /\ (VersionSame(v, b) => VersionSame(b, v))
          /\ ~(VersionLess(b, v) /\ VersionSame(b, v))
      BY <1>2, VersionOrder
    <3> QED BY <3>1, <3>2
  <2> QED BY <1>4, <1>7, <2>1 DEF IsBest, v
<1> QED BY <1>6, <1>7

(* The loop over the matching versions ends with one that none is above. *)
LEMMA BestOfAll ==
  ASSUME NEW m, IsSeq(m), m # <<>>, \A v \in P!ToSet(m) : IsVersion(v)
  PROVE  LET higher(best, v) == IF P!Compare(v, best) > 0 THEN v ELSE best
         IN IsBest(P!FoldLeft(higher, Head(m), Tail(m)), m, Len(m))
<1> DEFINE higher(best, v) == IF P!Compare(v, best) > 0 THEN v ELSE best
           t == Tail(m)
           n == Len(t)
           base == Head(m)
           B == P!ToSet(m)
           step == [p \in B \X (1..n) |-> IF P!Compare(t[p[2]], p[1]) > 0 THEN t[p[2]] ELSE p[1]]
           Fold(h) == h = [s \in SUBSET DOMAIN t |->
                             IF s = {} THEN base
                             ELSE IF P!Compare(t[LargestOf(s)], h[s \ {LargestOf(s)}]) > 0
                                  THEN t[LargestOf(s)]
                                  ELSE h[s \ {LargestOf(s)}]]
           g == CHOOSE h : Fold(h)
<1>0. /\ IsSeq(t) /\ n = Len(m) - 1 /\ base = m[1] /\ Len(m) \in Nat \ {0}
      /\ \A i \in 1..n : t[i] = m[i + 1]
  BY TailOf
<1>1. n \in Nat /\ DOMAIN t = 1..n /\ (\A k \in 1..n : t[k] \in B) /\ base \in B
  <2>1. n \in Nat /\ DOMAIN t = 1..n
    BY <1>0, SeqOfItself
  <2>2. \A k \in 1..n : k + 1 \in 1..Len(m)
    BY <1>0
  <2>3. 1 \in 1..Len(m)
    BY <1>0
  <2>4. \A k \in 1..n : t[k] \in B
    BY <1>0, <2>2, InSeq
  <2> QED BY <1>0, <2>1, <2>3, <2>4, InSeq
<1>2. step \in [B \X (1..n) -> B]
  <2> HIDE DEF B, t, n
  <2> SUFFICES ASSUME NEW p \in B \X (1..n)
               PROVE  (IF P!Compare(t[p[2]], p[1]) > 0 THEN t[p[2]] ELSE p[1]) \in B
    OBVIOUS
  <2>1. p[1] \in B /\ p[2] \in 1..n
    OBVIOUS
  <2> QED BY <1>1, <2>1
<1>3. P!FoldLeft(higher, base, t) = g[1..n]
  BY <1>1 DEF P!FoldLeft, P!MapThenFoldSet, P!Max, LargestOf
<1> HIDE DEF B, t, base
<1>4. \E h : Fold(h)
  <2>1. PICK h \in [SUBSET (1..n) -> B] : Loops(h, n, base, step)
    <3> HIDE DEF step, n
    <3> QED BY <1>1, <1>2, LoopExists
  <2>2. ASSUME NEW s \in SUBSET (1..n), s # {}
        PROVE  step[<<h[s \ {LargestOf(s)}], LargestOf(s)>>]
                 = IF P!Compare(t[LargestOf(s)], h[s \ {LargestOf(s)}]) > 0
                   THEN t[LargestOf(s)]
                   ELSE h[s \ {LargestOf(s)}]
    <3>1. LargestOf(s) \in 1..n /\ s \ {LargestOf(s)} \in SUBSET (1..n)
      BY <1>1, <2>2, Largest
    <3> QED BY <3>1
  <2>3. Fold(h)
    <3> HIDE DEF step, n, g
    <3> QED BY <1>1, <2>1, <2>2 DEF Loops
  <2> QED BY <2>3
<1>5. Fold(g)
  <2> HIDE DEF Fold
  <2> QED BY <1>4
<1> HIDE DEF g, n
<1>6. g[{}] = base
  BY <1>5
<1>7. ASSUME NEW k \in 1..n, g[1..(k - 1)] \in B
      PROVE  g[1..k] = step[<<g[1..(k - 1)], k>>]
  <2>1. LargestOf(1..k) = k /\ (1..k) \ {k} = 1..(k - 1) /\ 1..k # {} /\ 1..k \in SUBSET (1..n)
    <3>1. k \in Nat \ {0} /\ 1..k \in SUBSET (1..n)
      BY <1>1
    <3> QED BY <3>1, LastOf
  <2>2. g[1..k] = IF P!Compare(t[k], g[1..(k - 1)]) > 0 THEN t[k] ELSE g[1..(k - 1)]
    <3> HIDE DEF step
    <3> QED BY <1>1, <1>5, <2>1
  <2> QED BY <1>7, <2>2
<1>8. Unrolls(g, n, B, base, step)
  <2> HIDE DEF step
  <2> QED BY <1>6, <1>7 DEF Unrolls
<1>9. PICK r : Rounds(r, n, B, base, step, g[1..n])
  <2> HIDE DEF step
  <2> QED BY <1>1, <1>2, <1>8, LoopResult
<1> DEFINE Good == {k \in 0..n : IsBest(r[k], m, k + 1)}
<1>10. 0 \in Good
  <2>1. r[0] = m[1] /\ 1 \in 1..Len(m)
    BY <1>0, <1>9 DEF Rounds
  <2>2. m[1] \in P!ToSet(m) /\ IsVersion(m[1])
    BY <2>1, InSeq
  <2>3. ~VersionLess(m[1], m[1])
    BY <2>2, VersionOrder
  <2>4. \A i \in 1..(0 + 1) : i = 1
    OBVIOUS
  <2>5. IsBest(r[0], m, 0 + 1)
    BY <2>1, <2>2, <2>3, <2>4 DEF IsBest
  <2> QED BY <1>1, <2>5
<1>11. ASSUME NEW k \in 0..(n - 1), k \in Good PROVE k + 1 \in Good
  <2>1. k + 1 \in 1..n /\ (k + 1) - 1 = k /\ k + 1 \in 1..(Len(m) - 1) /\ k \in 0..n
            /\ k + 1 \in 0..n
    BY <1>0, <1>1
  <2>2. r[k] \in B /\ r[k + 1] = step[<<r[k], k + 1>>]
    BY <1>9, <2>1 DEF Rounds
  <2>3. r[k + 1] = IF P!Compare(t[k + 1], r[k]) > 0 THEN t[k + 1] ELSE r[k]
    BY <2>1, <2>2
  <2>4. t[k + 1] = m[(k + 1) + 1]
    BY <1>0, <2>1
  <2>5. IsBest(r[k], m, k + 1)
    BY <1>11
  <2>6. IsBest(IF P!Compare(m[(k + 1) + 1], r[k]) > 0 THEN m[(k + 1) + 1] ELSE r[k], m, (k + 1) + 1)
    BY <2>1, <2>5, BestOfTwo
  <2> QED BY <2>1, <2>3, <2>4, <2>6
<1>12. n \in Good
  <2> HIDE DEF Good
  <2>1. \A k \in 0..n : k \in Good
    BY <1>1, <1>10, <1>11, Induct
  <2> QED BY <1>1, <2>1
<1>13. IsBest(r[n], m, n + 1) /\ n + 1 = Len(m)
  BY <1>0, <1>1, <1>12
<1>14. IsBest(g[1..n], m, Len(m))
  BY <1>9, <1>13 DEF Rounds
<1> QED BY <1>3, <1>14 DEF t, base
-----------------------------------------------------------------------------
(* The highest is selected *)

-----------------------------------------------------------------------------
SpelledProperly(links) ==
  \A f \in P!ToSet(links) : P!Parsable(P!fileVersion(f)) => P!Spelled(P!fileVersion(f))
VersionsOf(links) ==
  {P!ParseVersion(P!fileVersion(links[i])) :
     i \in {j \in DOMAIN links : P!Parsable(P!fileVersion(links[j]))}}
Selects(b, chosen, links, cs) ==
  /\ IsVersion(b) /\ P!Satisfy(b, cs)
  /\ \A f \in chosen : P!ParseVersion(P!fileVersion(f)) = b
  /\ \A w \in VersionsOf(links) : P!Satisfy(w, cs) => ~VersionLess(b, w)

(* The versions of an index are versions. *)
LEMMA VersionsAre ==
  ASSUME NEW links, IsSeq(links), SpelledProperly(links)
  PROVE  \A v \in VersionsOf(links) : IsVersion(v)
<1>1. ASSUME NEW i \in DOMAIN links, P!Parsable(P!fileVersion(links[i]))
      PROVE  IsVersion(P!ParseVersion(P!fileVersion(links[i])))
  <2>1. links[i] \in P!ToSet(links)
    BY DEF P!ToSet
  <2> QED BY <1>1, <2>1, ParseIsVersion DEF SpelledProperly
<1> QED BY <1>1 DEF VersionsOf

(* What is selected are the files of one version, and none is higher. *)
LEMMA SelectedAreHighest ==
  ASSUME NEW links, IsSeq(links), SpelledProperly(links), NEW cs
  PROVE  LET chosen == P!ToSet(P!SelectFiles(links, cs).files)
         IN chosen = {} \/ \E b : Selects(b, chosen, links, cs)
<1> DEFINE parsable == {f \in P!ToSet(links) : P!Parsable(P!fileVersion(f))}
           named == P!Where(links, parsable)
           versions == [i \in DOMAIN named |-> P!ParseVersion(P!fileVersion(named[i]))]
           good == {v \in P!ToSet(versions) : P!Satisfy(v, cs)}
           matched == P!Where(versions, good)
           higher(best, v) == IF P!Compare(v, best) > 0 THEN v ELSE best
           b == P!FoldLeft(higher, Head(matched), Tail(matched))
           its == {f \in P!ToSet(named) : P!fileVersion(f) = b.original}
           files0 == P!SelectFiles(links, cs).files
<1>1. files0 = IF matched = <<>> THEN <<>> ELSE P!Where(named, its)
  BY DEF P!SelectFiles, P!NoFiles
<1>2. IsSeq(named) /\ \A f : f \in P!ToSet(named) <=> f \in P!ToSet(links)
          /\ P!Parsable(P!fileVersion(f))
  <2>1. \A f : f \in parsable <=> f \in P!ToSet(links) /\ P!Parsable(P!fileVersion(f))
    OBVIOUS
  <2> HIDE DEF parsable
  <2>2. IsSeq(named) /\ P!ToSet(named) = P!ToSet(links) \cap parsable
    BY WhereElements
  <2> QED BY <2>1, <2>2
<1> HIDE DEF named
<1>3. IsSeq(versions)
          /\ P!ToSet(versions) = {P!ParseVersion(P!fileVersion(f)) : f \in P!ToSet(named)}
  <2>1. DOMAIN named = 1..Len(named) /\ Len(named) \in Nat
    BY <1>2, SeqOfItself
  <2>2. IsSeq(versions)
    <3>1. versions = [i \in 1..Len(named) |-> versions[i]]
      BY <2>1
    <3> QED BY <2>1, <3>1, FunctionIsSeq
  <2>3. P!ToSet(versions) = {P!ParseVersion(P!fileVersion(f)) : f \in P!ToSet(named)}
    BY DEF P!ToSet
  <2> QED BY <2>2, <2>3
<1>4. VersionsOf(links) = {P!ParseVersion(P!fileVersion(f)) : f \in P!ToSet(named)}
  <2>1. ASSUME NEW i \in DOMAIN links, P!Parsable(P!fileVersion(links[i]))
        PROVE  links[i] \in P!ToSet(named)
    <3>1. links[i] \in P!ToSet(links)
      BY DEF P!ToSet
    <3> QED BY <1>2, <2>1, <3>1
  <2>2. ASSUME NEW f \in P!ToSet(named)
        PROVE  \E i \in DOMAIN links : f = links[i] /\ P!Parsable(P!fileVersion(links[i]))
    <3>1. f \in P!ToSet(links) /\ P!Parsable(P!fileVersion(f))
      BY <1>2
    <3> QED BY <3>1 DEF P!ToSet
  <2> QED BY <2>1, <2>2 DEF VersionsOf
<1> HIDE DEF versions
<1>5. IsSeq(matched) /\ \A v : v \in P!ToSet(matched) <=> v \in VersionsOf(links)
          /\ P!Satisfy(v, cs)
  <2>1. \A v : v \in good <=> v \in P!ToSet(versions) /\ P!Satisfy(v, cs)
    OBVIOUS
  <2> HIDE DEF good
  <2>2. IsSeq(matched) /\ P!ToSet(matched) = P!ToSet(versions) \cap good
    BY <1>3, WhereElements
  <2> QED BY <1>3, <1>4, <2>1, <2>2
<1> HIDE DEF matched
<1>6. CASE matched = <<>>
  <2>1. P!ToSet(files0) = {}
    BY <1>1, <1>6, EmptySeq
  <2> QED BY <2>1
<1>7. CASE matched # <<>>
  <2>1. \A v \in P!ToSet(matched) : IsVersion(v)
    BY <1>5, VersionsAre
  <2>2. IsBest(b, matched, Len(matched))
    BY <1>5, <1>7, <2>1, BestOfAll
  <2> HIDE DEF b
  <2>3. b \in VersionsOf(links) /\ P!Satisfy(b, cs) /\ IsVersion(b)
    BY <1>5, <2>1, <2>2 DEF IsBest
  <2>4. P!ParseVersion(b.original) = b
    <3>1. PICK f \in P!ToSet(named) : b = P!ParseVersion(P!fileVersion(f))
      BY <1>4, <2>3
    <3>2. P!Spelled(P!fileVersion(f))
      BY <1>2, <3>1 DEF SpelledProperly
    <3> QED BY <3>1, <3>2, ParseIsVersion
  <2>5. \A f \in P!ToSet(files0) : P!ParseVersion(P!fileVersion(f)) = b
    <3>1. \A f : f \in its => P!fileVersion(f) = b.original
      OBVIOUS
    <3> HIDE DEF its, files0
    <3>2. P!ToSet(files0) = P!ToSet(named) \cap its
      BY <1>1, <1>2, <1>7, WhereElements
    <3> QED BY <2>4, <3>1, <3>2
  <2>6. ASSUME NEW w \in VersionsOf(links), P!Satisfy(w, cs) PROVE ~VersionLess(b, w)
    <3>1. w \in P!ToSet(matched)
      BY <1>5, <2>6
    <3>2. PICK i \in 1..Len(matched) : w = matched[i]
      BY <1>5, <3>1, InSeq
    <3> QED BY <2>2, <3>2 DEF IsBest
  <2>7. Selects(b, P!ToSet(files0), links, cs)
    BY <2>3, <2>5, <2>6 DEF Selects
  <2> QED BY <2>7
<1> QED BY <1>6, <1>7

(* So are those of them that are kept. *)
LEMMA ResolvedAreHighest ==
  ASSUME \E x \in Worlds : world = x[1] /\ item = x[2], NEW t, Resolved(t)
  PROVE  LET links == world.index[t.req.name]
             chosen == P!ToSet(t.files)
         IN /\ IsSeq(links) /\ SpelledProperly(links)
            /\ chosen = {} \/ \E b : Selects(b, chosen, links, t.req.cs)
<1> DEFINE links == world.index[t.req.name]
           selected == P!SelectFiles(links, t.req.cs).files
<1>1. IsSeq(links) /\ SpelledProperly(links)
  <2>1. PICK x \in Worlds : world = x[1] /\ item = x[2]
    OBVIOUS
  <2>2. t.req.name \in DOMAIN x[1].index
    BY <2>1 DEF Resolved
  <2>3. SpelledProperly(x[1].index[t.req.name])
    BY <2>2, WorldConstants DEF P!WorldConstants, SpelledProperly
  <2>4. IsSeq(links)
    BY WorldIsProper DEF Resolved, ProperLinks
  <2> QED BY <2>1, <2>3, <2>4
<1> HIDE DEF links
<1>2. IsSeq(selected)
  BY <1>1, SelectedFiles
<1>3. P!ToSet(selected) = {} \/ \E b : Selects(b, P!ToSet(selected), links, t.req.cs)
  BY <1>1, SelectedAreHighest
<1> HIDE DEF selected
<1>4. P!ToSet(t.files) \subseteq P!ToSet(selected)
  <2>1. CASE t.files = <<>>
    BY <2>1, EmptySeq
  <2>2. CASE t.files # <<>>
    <3>1. t.files = P!FilterArtifacts(selected, world.policy)
      BY <2>2 DEF Resolved, P!resolvePackageFiles, selected, links
    <3> QED BY <1>2, <3>1, KeptFiles
  <2> QED BY <2>1, <2>2
<1>5. \A b : Selects(b, P!ToSet(selected), links, t.req.cs)
          => Selects(b, P!ToSet(t.files), links, t.req.cs)
  BY <1>4 DEF Selects
<1> QED BY <1>1, <1>3, <1>4, <1>5 DEF links

(* Every project that was expanded got the files of PEP 440's highest. *)
LEMMA PypiSelectsHighest ==
  ASSUME PypiInv
  PROVE  P!SelectedIsHighest
<1> SUFFICES ASSUME NEW n \in DOMAIN taken
             PROVE  LET links == world.index[taken[n].req.name]
                        chosen == {P!ParseVersion(P!fileVersion(f)) : f \in P!ToSet(taken[n].files)}
                        cs == taken[n].req.cs
                    IN /\ \A v, w \in VersionsOf(links) :
                            /\ ~P!DevOfPost(v) /\ ~P!DevOfPost(w) =>
                                 P!Compare(v, w) = IF P!PepBefore(v, w) THEN -1
                                                   ELSE IF P!PepBefore(w, v) THEN 1 ELSE 0
                            /\ P!equalPublic(v, w) <=> P!Compare(v, w) = 0
                       /\ P!Cardinality(chosen) <= 1
                       /\ \A v \in chosen, w \in VersionsOf(links) :
                            /\ P!Satisfy(v, cs)
                            /\ P!Satisfy(w, cs) /\ ~P!DevOfPost(v)
                                /\ ~P!DevOfPost(w) => ~P!PepBefore(v, w)
  BY DEF P!SelectedIsHighest, VersionsOf
<1> DEFINE links == world.index[taken[n].req.name]
           got == P!ToSet(taken[n].files)
           chosen == {P!ParseVersion(P!fileVersion(f)) : f \in got}
           cs == taken[n].req.cs
<1>1. /\ IsSeq(links) /\ SpelledProperly(links)
      /\ got = {} \/ \E b : Selects(b, got, links, cs)
  BY ResolvedAreHighest DEF PypiInv
<1> HIDE DEF links, got, cs
<1>2. \A v \in VersionsOf(links) : IsVersion(v)
  BY <1>1, VersionsAre
<1>3. ASSUME NEW v \in VersionsOf(links), NEW w \in VersionsOf(links)
      PROVE  /\ ~P!DevOfPost(v) /\ ~P!DevOfPost(w) =>
                  P!Compare(v, w) = IF P!PepBefore(v, w) THEN -1
                                    ELSE IF P!PepBefore(w, v) THEN 1 ELSE 0
             /\ P!equalPublic(v, w) <=> P!Compare(v, w) = 0
  <2>1. IsVersion(v) /\ IsVersion(w)
    BY <1>2
  <2>2. P!equalPublic(v, w) <=> P!Compare(v, w) = 0
    BY <2>1, EqualIsSame
  <2>3. ASSUME ~P!DevOfPost(v), ~P!DevOfPost(w)
        PROVE  P!Compare(v, w) = IF P!PepBefore(v, w) THEN -1
                                 ELSE IF P!PepBefore(w, v) THEN 1 ELSE 0
    <3>1. /\ VersionLess(v, w) => P!PepBefore(v, w) /\ ~P!PepBefore(w, v)
          /\ VersionSame(v, w) => ~P!PepBefore(v, w) /\ ~P!PepBefore(w, v)
          /\ VersionLess(w, v) => P!PepBefore(w, v) /\ ~P!PepBefore(v, w)
      BY <2>1, <2>3, PepOrder
    <3> QED BY <2>1, <3>1, CompareDecides
  <2> QED BY <2>2, <2>3
<1>4. CASE got = {}
  <2>1. chosen = {}
    BY <1>4
  <2>2. P!Cardinality({}) = 0
    BY FS_EmptySet DEF P!Cardinality, Cardinality
  <2>3. P!Cardinality(chosen) <= 1
    BY <2>1, <2>2
  <2> HIDE DEF chosen
  <2> QED BY <1>3, <2>1, <2>3 DEF links, got, cs, chosen
<1>5. CASE \E b : Selects(b, got, links, cs)
  <2>1. PICK b : Selects(b, got, links, cs)
    BY <1>5
  <2>2. chosen \subseteq {b}
    BY <2>1 DEF Selects
  <2>3. P!Cardinality(chosen) <= 1
    <3> HIDE DEF chosen
    <3>1. chosen = {} \/ chosen = {b}
      BY <2>2
    <3>2. Cardinality({}) = 0 /\ Cardinality({b}) = 1
      BY FS_EmptySet, FS_Singleton
    <3>3. Cardinality(chosen) <= 1
      BY <3>1, <3>2
    <3> QED BY <3>3 DEF P!Cardinality, Cardinality
  <2>4. ASSUME NEW v \in chosen, NEW w \in VersionsOf(links)
        PROVE  /\ P!Satisfy(v, cs)
               /\ P!Satisfy(w, cs) /\ ~P!DevOfPost(v) /\ ~P!DevOfPost(w) => ~P!PepBefore(v, w)
    <3>1. v = b /\ IsVersion(v) /\ IsVersion(w) /\ P!Satisfy(v, cs)
      BY <1>2, <2>1, <2>2 DEF Selects
    <3>2. P!Satisfy(w, cs) => ~VersionLess(v, w)
      BY <2>1, <3>1 DEF Selects
    <3>3. ASSUME ~P!DevOfPost(v), ~P!DevOfPost(w), ~VersionLess(v, w) PROVE ~P!PepBefore(v, w)
      <4>1. VersionSame(v, w) \/ VersionLess(w, v)
        BY <3>1, <3>3, CompareDecides
      <4>2. /\ VersionSame(v, w) => ~P!PepBefore(v, w)
            /\ VersionLess(w, v) => ~P!PepBefore(v, w)
        BY <3>1, <3>3, PepOrder
      <4> QED BY <4>1, <4>2
    <3> QED BY <3>1, <3>2, <3>3
  <2> HIDE DEF chosen
  <2> QED BY <1>3, <2>3, <2>4 DEF links, got, cs, chosen
<1> QED BY <1>1, <1>4, <1>5

(* The version that is prefetched is the highest of those the constraint admits, by *)
(* the order of PEP 440 and of the registries, however versions are spelled. *)
THEOREM SelectedIsHighestHolds == Spec => []SelectedIsHighest
<1>1. ExpansionInv => SelectedIsHighest
  BY NpmSelectsHighest, PypiSelectsHighest DEF ExpansionInv, SelectedIsHighest
<1> QED BY <1>1, ExpansionHolds, PTL

-----------------------------------------------------------------------------
(* Maven: the table of managed versions *)

(* A table of managed versions, with what is left to enter and to import *)
IsTable(t, available) ==
  /\ t = [managed |-> t.managed, budget |-> t.budget, read |-> t.read, todo |-> t.todo]
  /\ t.managed = [k \in DOMAIN t.managed |-> t.managed[k]]
  /\ \A k \in DOMAIN t.managed : M!Known(t.managed[k])
  /\ t.budget \in 0..MaxBOMImports
  /\ t.read \subseteq DOMAIN available

(* m knows what f knows, and of the rest what g knows *)
IsOver(m, f, g) ==
  /\ DOMAIN m = DOMAIN f \cup DOMAIN g /\ m = [k \in DOMAIN m |-> m[k]]
  /\ \A k \in DOMAIN f : m[k] = f[k]
  /\ \A k \in DOMAIN g \ DOMAIN f : m[k] = g[k]

(* What a map over another knows *)
LEMMA OverIs == ASSUME NEW f, NEW g PROVE IsOver(M!Over(f, g), f, g)
BY DEF M!Over, IsOver

(* A map over two is one over the second over the third. *)
LEMMA OverAssociates ==
  ASSUME NEW f, NEW g, NEW h
  PROVE  M!Over(f, M!Over(g, h)) = M!Over(M!Over(f, g), h)
<1>1. M!Over(f, M!Over(g, h)) = [k \in DOMAIN f \cup (DOMAIN g \cup DOMAIN h) |->
         IF k \in DOMAIN f THEN f[k] ELSE IF k \in DOMAIN g THEN g[k] ELSE h[k]]
  BY DEF M!Over
<1>2. M!Over(M!Over(f, g), h) = [k \in (DOMAIN f \cup DOMAIN g) \cup DOMAIN h |->
         IF k \in DOMAIN f THEN f[k] ELSE IF k \in DOMAIN g THEN g[k] ELSE h[k]]
  BY DEF M!Over
<1>3. DOMAIN f \cup (DOMAIN g \cup DOMAIN h) = (DOMAIN f \cup DOMAIN g) \cup DOMAIN h
  OBVIOUS
<1> QED BY <1>1, <1>2, <1>3

(* What is entered next *)
Rest(t) == [managed |-> t.managed, budget |-> t.budget, read |-> t.read, todo |-> Tail(t.todo)]
Reads(t) == M!resolveProps(Head(t.todo).d.v, Head(t.todo).props)
KeyOf(d) == <<d.a, M!TypeOf(d), d.cls>>
Adds(t) == [k \in {KeyOf(Head(t.todo).d)} |-> Reads(t)]
Imported(t) == <<Head(t.todo).d.a, Reads(t)>>
BomEntries(t, available) ==
  LET bom == available[Imported(t)]
      v == Reads(t)
  IN M!Entries(bom, M!flattenProps(M!WithVersion(M!Over(Head(t.todo).props, bom.props),
                                                IF bom.v = "" THEN v ELSE bom.v)))

Skips(t, u) == u = Rest(t)
Enters(t, u) ==
  u = [managed |-> M!Over(Adds(t), t.managed), budget |-> t.budget, read |-> t.read,
       todo |-> Tail(t.todo)]
Misses(t, u) ==
  u = [managed |-> t.managed, budget |-> t.budget - 1, read |-> t.read, todo |-> Tail(t.todo)]
Imports(t, u, available) ==
  u = [managed |-> t.managed, budget |-> t.budget - 1, read |-> t.read \cup {Imported(t)},
       todo |-> BomEntries(t, available) \o Tail(t.todo)]

(* What an entry does to a table *)
LEMMA EntryCases ==
  ASSUME NEW available, NEW t, IsTable(t, available), NEW u, u = M!entry(t, available)
  PROVE  /\ t.todo = <<>> => u = t
         /\ t.todo # <<>> /\ ~M!IsImport(Head(t.todo).d) /\ M!Known(Reads(t)) => Enters(t, u)
         /\ t.todo # <<>> /\ ~M!IsImport(Head(t.todo).d) /\ ~M!Known(Reads(t)) => Skips(t, u)
         /\ t.todo # <<>> /\ M!IsImport(Head(t.todo).d) /\ (~M!Known(Reads(t)) \/ t.budget = 0)
              => Skips(t, u)
         /\ t.todo # <<>> /\ M!IsImport(Head(t.todo).d) /\ M!Known(Reads(t)) /\ t.budget # 0
              => IF Imported(t) \in DOMAIN available THEN Imports(t, u, available) ELSE Misses(t, u)
<1> DEFINE rest == [t EXCEPT !.todo = Tail(@)]
<1>1. t = [managed |-> t.managed, budget |-> t.budget, read |-> t.read, todo |-> t.todo]
  BY DEF IsTable
<1>2. rest = Rest(t)
  <2> DEFINE m == t.managed
             b == t.budget
             r == t.read
             q == t.todo
             w == Tail(q)
             y == [managed |-> m, budget |-> b, read |-> r, todo |-> q]
  <2>1. [y EXCEPT !.todo = w] = [managed |-> m, budget |-> b, read |-> r, todo |-> w]
    <3> HIDE DEF m, b, r, q, w
    <3> QED OBVIOUS
  <2>2. t = y
    BY <1>1
  <2> HIDE DEF y
  <2> QED BY <2>1, <2>2 DEF Rest
<1>3. CASE t.todo = <<>>
  BY <1>3 DEF M!entry
<1>4. ASSUME t.todo # <<>>, ~M!IsImport(Head(t.todo).d), M!Known(Reads(t)) PROVE Enters(t, u)
  <2>1. u = [rest EXCEPT !.managed = M!Over(Adds(t), @)]
    BY <1>4 DEF M!entry, Adds, Reads, KeyOf
  <2> QED BY <1>2, <2>1 DEF Rest, Enters
<1>5. ASSUME t.todo # <<>>, ~M!IsImport(Head(t.todo).d), ~M!Known(Reads(t)) PROVE Skips(t, u)
  BY <1>2, <1>5 DEF M!entry, Reads, Skips
<1>6. ASSUME t.todo # <<>>, M!IsImport(Head(t.todo).d)
      PROVE  u = M!import(rest, Head(t.todo).d, Reads(t), Head(t.todo).props, available)
  BY <1>6 DEF M!entry, Reads
<1>7. ASSUME t.todo # <<>>, M!IsImport(Head(t.todo).d), ~M!Known(Reads(t)) \/ t.budget = 0
      PROVE  Skips(t, u)
  BY <1>2, <1>6, <1>7 DEF M!import, Rest, Skips
<1>8. ASSUME t.todo # <<>>, M!IsImport(Head(t.todo).d), M!Known(Reads(t)), t.budget # 0
      PROVE  IF Imported(t) \in DOMAIN available THEN Imports(t, u, available) ELSE Misses(t, u)
  <2> HIDE DEF rest
  <2>0. rest.budget = t.budget
    BY <1>2 DEF Rest
  <2>1. u = IF Imported(t) \notin DOMAIN available THEN [rest EXCEPT !.budget = @ - 1]
            ELSE [rest EXCEPT !.budget = @ - 1, !.read = @ \cup {Imported(t)},
                              !.todo = BomEntries(t, available) \o @]
    BY <1>6, <1>8, <2>0 DEF M!import, M!PomFetch, Imported, BomEntries
  <2> QED BY <1>2, <2>1 DEF Rest, Imports, Misses
<1> HIDE DEF rest
<1> QED BY <1>3, <1>4, <1>5, <1>7, <1>8

(* An entry leaves a table, and a budget that is no greater. *)
LEMMA EntryKeeps ==
  ASSUME NEW available, NEW t, IsTable(t, available), MaxBOMImports \in Nat
  PROVE  /\ IsTable(M!entry(t, available), available)
         /\ M!entry(t, available).budget <= t.budget
<1> DEFINE u == M!entry(t, available)
<1>1. CASE u = t \/ Skips(t, u)
  BY <1>1 DEF IsTable, Skips, Rest
<1>2. CASE Enters(t, u) /\ M!Known(Reads(t))
  <2> DEFINE f == Adds(t)
             g == t.managed
             m == M!Over(f, g)
  <2>1. m = [k \in DOMAIN m |-> m[k]] /\ \A k \in DOMAIN m : M!Known(m[k])
    <3>1. \A k \in DOMAIN Adds(t) : Adds(t)[k] = Reads(t)
      BY DEF Adds
    <3>2. \A k \in DOMAIN t.managed : M!Known(t.managed[k])
      BY DEF IsTable
    <3>3. IsOver(m, f, g)
      BY OverIs
    <3> HIDE DEF m
    <3> QED BY <1>2, <3>1, <3>2, <3>3 DEF IsOver
  <2> HIDE DEF m
  <2>2. u = [managed |-> m, budget |-> t.budget, read |-> t.read, todo |-> Tail(t.todo)]
    BY <1>2 DEF Enters, m
  <2> HIDE DEF u
  <2> QED BY <2>1, <2>2 DEF IsTable, u
<1>3. CASE /\ t.budget # 0
           /\ Misses(t, u) \/ (Imports(t, u, available) /\ Imported(t) \in DOMAIN available)
  <2>1. t.budget - 1 \in 0..MaxBOMImports /\ t.budget - 1 <= t.budget
    BY <1>3 DEF IsTable
  <2>2. CASE Misses(t, u)
    BY <2>1, <2>2 DEF IsTable, Misses
  <2>3. CASE Imports(t, u, available) /\ Imported(t) \in DOMAIN available
    BY <2>1, <2>3 DEF IsTable, Imports
  <2> QED BY <1>3, <2>2, <2>3
<1> HIDE DEF u
<1> QED BY <1>1, <1>2, <1>3, EntryCases DEF u

(* Two tables that have the same left to enter, one begun empty, the other as table *)
Paired(t, s, table) ==
  /\ t.todo = s.todo
  /\ s.budget = t.budget + (MaxBOMImports - table.budget)
  /\ t.managed = M!Over(s.managed, table.managed)

(* Until the budget is spent, what is entered does not depend on what the table held. *)
LEMMA EntryInStep ==
  ASSUME NEW available, NEW t, NEW s, NEW table,
         IsTable(t, available), IsTable(s, available), IsTable(table, available),
         MaxBOMImports \in Nat, Paired(t, s, table), t.budget # 0,
         NEW u, u = M!entry(t, available), NEW w, w = M!entry(s, available)
  PROVE  Paired(u, w, table)
<1>0. t.budget \in Nat /\ s.budget \in Nat /\ table.budget \in 0..MaxBOMImports /\ s.budget # 0
  BY DEF IsTable, Paired
<1>1. CASE t.todo = <<>>
  <2>1. u = t /\ w = s
    <3> s.todo = <<>>
      BY <1>1 DEF Paired
    <3> QED BY <1>1, EntryCases
  <2> QED BY <2>1
<1>2. ASSUME t.todo # <<>>
      PROVE  /\ s.todo # <<>> /\ Head(s.todo) = Head(t.todo) /\ Tail(s.todo) = Tail(t.todo)
             /\ Reads(s) = Reads(t) /\ Adds(s) = Adds(t) /\ Imported(s) = Imported(t)
             /\ BomEntries(s, available) = BomEntries(t, available)
  BY <1>2 DEF Paired, Reads, Adds, Imported, BomEntries
<1>3. CASE t.todo # <<>> /\ Skips(t, u) /\ Skips(s, w)
  BY <1>0, <1>2, <1>3 DEF Skips, Rest, Paired
<1>4. CASE t.todo # <<>> /\ Enters(t, u) /\ Enters(s, w)
  <2>1. u.managed = M!Over(Adds(t), M!Over(s.managed, table.managed))
    BY <1>4 DEF Enters, Paired
  <2>2. w.managed = M!Over(Adds(t), s.managed)
    BY <1>2, <1>4 DEF Enters
  <2>3. u.managed = M!Over(w.managed, table.managed)
    BY <2>1, <2>2, OverAssociates
  <2>4. u.todo = w.todo /\ u.budget = t.budget /\ w.budget = s.budget
    BY <1>2, <1>4 DEF Enters
  <2> QED BY <2>3, <2>4 DEF Paired
<1>5. CASE t.todo # <<>> /\ Misses(t, u) /\ Misses(s, w)
  <2>1. /\ u.todo = w.todo /\ u.budget = t.budget - 1 /\ w.budget = s.budget - 1
        /\ u.managed = t.managed /\ w.managed = s.managed
    BY <1>2, <1>5 DEF Misses
  <2> QED BY <1>0, <2>1 DEF Paired
<1>6. CASE t.todo # <<>> /\ Imports(t, u, available) /\ Imports(s, w, available)
  <2>1. /\ u.todo = w.todo /\ u.budget = t.budget - 1 /\ w.budget = s.budget - 1
        /\ u.managed = t.managed /\ w.managed = s.managed
    <3> DEFINE a == BomEntries(t, available) \o Tail(t.todo)
               b == BomEntries(s, available) \o Tail(s.todo)
    <3>1. a = b
      BY <1>2, <1>6
    <3>2. u.todo = a /\ u.budget = t.budget - 1 /\ u.managed = t.managed
      <4>1. u = [managed |-> t.managed, budget |-> t.budget - 1,
                 read |-> t.read \cup {Imported(t)}, todo |-> a]
        BY <1>6 DEF Imports
      <4> HIDE DEF a
      <4> QED BY <4>1
    <3>3. w.todo = b /\ w.budget = s.budget - 1 /\ w.managed = s.managed
      <4>1. w = [managed |-> s.managed, budget |-> s.budget - 1,
                 read |-> s.read \cup {Imported(s)}, todo |-> b]
        BY <1>6 DEF Imports
      <4> HIDE DEF b
      <4> QED BY <4>1
    <3> HIDE DEF a, b
    <3> QED BY <3>1, <3>2, <3>3
  <2> QED BY <1>0, <2>1 DEF Paired
<1>8. CASE t.todo # <<>> /\ ~M!IsImport(Head(t.todo).d)
  <2>1. CASE M!Known(Reads(t))
    BY <1>2, <1>4, <1>8, <2>1, EntryCases
  <2>2. CASE ~M!Known(Reads(t))
    BY <1>2, <1>3, <1>8, <2>2, EntryCases
  <2> QED BY <2>1, <2>2
<1>9. CASE t.todo # <<>> /\ M!IsImport(Head(t.todo).d)
  <2>1. CASE ~M!Known(Reads(t))
    BY <1>2, <1>3, <1>9, <2>1, EntryCases
  <2>2. CASE M!Known(Reads(t)) /\ Imported(t) \in DOMAIN available
    BY <1>0, <1>2, <1>6, <1>9, <2>2, EntryCases
  <2>3. CASE M!Known(Reads(t)) /\ Imported(t) \notin DOMAIN available
    BY <1>0, <1>2, <1>5, <1>9, <2>3, EntryCases
  <2> QED BY <2>1, <2>2, <2>3
<1> QED BY <1>1, <1>8, <1>9

-----------------------------------------------------------------------------
(* POMs that can be had, and one of them at least *)
Proper(available) ==
  /\ IsFiniteSet(DOMAIN available) /\ DOMAIN available # {}
  /\ \A g \in DOMAIN available :
       /\ available[g].dm \in Seq(P!ToSet(available[g].dm))
       /\ "" \notin DOMAIN available[g].props

(* No POM has more entries than the longest. *)
LEMMA LongestIs ==
  ASSUME NEW available, Proper(available), MaxBOMImports \in Nat
  PROVE  \E longest \in Nat :
           /\ M!Entered(available) = (MaxBOMImports + 1) * longest
           /\ \A g \in DOMAIN available : Len(available[g].dm) <= longest
<1> DEFINE sizes == {Len(available[g].dm) : g \in DOMAIN available}
           above == {p \in Nat \X Nat : p[1] > p[2]}
<1>1. \A x \in sizes : x \in Nat
  <2> SUFFICES ASSUME NEW g \in DOMAIN available PROVE Len(available[g].dm) \in Nat
    OBVIOUS
  <2> DEFINE q == available[g].dm
             A == P!ToSet(q)
  <2>1. q \in Seq(A)
    BY DEF Proper
  <2> HIDE DEF q, A
  <2>2. Len(q) \in Nat
    BY <2>1
  <2> QED BY <2>2 DEF q
<1>2. IsFiniteSet(sizes)
  <2>1. IsFiniteSet(DOMAIN available)
    BY DEF Proper
  <2> DEFINE f == [g \in DOMAIN available |-> Len(available[g].dm)]
             I == DOMAIN available
  <2>2. sizes = {f[g] : g \in DOMAIN f} /\ DOMAIN f = I
    OBVIOUS
  <2> HIDE DEF f, sizes
  <2>3. f \in Surjection(I, sizes)
    <3>1. f = [g \in I |-> f[g]]
      BY DEF f
    <3> QED BY <2>2, <3>1 DEF Surjection
  <2> QED BY <2>1, <2>3, FS_Surjection
<1>3. sizes # {}
  BY DEF Proper
<1>4. \E x \in sizes : \A y \in sizes : x >= y
  <2> HIDE DEF sizes
  <2>1. \A x, y \in Nat : <<x, y>> \in above <=> x > y
    OBVIOUS
  <2> HIDE DEF above
  <2>2. \A x \in sizes : <<x, x>> \notin above
    BY <1>1, <2>1
  <2>3. \A x, y, z \in sizes : <<x, y>> \in above /\ <<y, z>> \in above => <<x, z>> \in above
    BY <1>1, <2>1
  <2>4. PICK x \in sizes : \A y \in sizes : <<y, x>> \notin above
    BY <1>2, <1>3, <2>2, <2>3, HighestExists
  <2>5. ASSUME NEW y \in sizes PROVE x >= y
    <3>1. x \in Nat /\ y \in Nat
      BY <1>1
    <3>2. ~(y > x)
      BY <2>1, <2>4, <3>1
    <3> QED BY <3>1, <3>2
  <2> QED BY <2>5
<1>5. M!Max(sizes) \in sizes /\ \A y \in sizes : M!Max(sizes) >= y
  <2> HIDE DEF sizes
  <2> QED BY <1>4 DEF M!Max
<1>6. M!Entered(available) = (MaxBOMImports + 1) * M!Max(sizes)
  BY DEF M!Entered
<1>7. \A g \in DOMAIN available : Len(available[g].dm) \in sizes
  OBVIOUS
<1> HIDE DEF sizes
<1>8. M!Max(sizes) \in Nat /\ \A g \in DOMAIN available : Len(available[g].dm) <= M!Max(sizes)
  BY <1>1, <1>5, <1>7
<1> QED BY <1>6, <1>8

(* The number of entries is a number. *)
LEMMA EnteredIs ==
  ASSUME NEW available, Proper(available), MaxBOMImports \in Nat
  PROVE  M!Entered(available) \in Nat
<1>1. PICK longest \in Nat : M!Entered(available) = (MaxBOMImports + 1) * longest
  BY LongestIs
<1> QED BY <1>1

-----------------------------------------------------------------------------
(* The rounds of entering a POM's managed dependencies in a table *)
EntersAll(r, n, pom, props, table, available) ==
  /\ r[0] = [table EXCEPT !.todo = M!Entries(pom, props)]
  /\ \A k \in 1..n : r[k] = M!entry(r[k - 1], available)

(* Entering is done in rounds. *)
LEMMA EntriesUnfold ==
  ASSUME NEW pom, NEW props, NEW table, NEW available, M!Entered(available) \in Nat
  PROVE  \E r : /\ EntersAll(r, M!Entered(available), pom, props, table, available)
                /\ M!applyDependencyManagement(pom, props, table, available)
                     = r[M!Entered(available)]
<1> DEFINE n == M!Entered(available)
           base == [table EXCEPT !.todo = M!Entries(pom, props)]
           Computes(r, k) ==
             r = [i \in 0..k |-> IF i = 0 THEN base ELSE M!entry(r[i - 1], available)]
           r == CHOOSE f : Computes(f, n)
           Good == {k \in 0..n : \E f : Computes(f, k)}
<1>1. M!applyDependencyManagement(pom, props, table, available) = r[n]
  BY DEF M!applyDependencyManagement
<1> HIDE DEF n, base
<1>2. n \in Nat
  BY DEF n
<1>3. 0 \in Good
  <2> DEFINE f == [i \in 0..0 |-> base]
  <2>1. Computes(f, 0)
    OBVIOUS
  <2>2. 0 \in 0..n
    BY <1>2
  <2> HIDE DEF Computes, f
  <2> QED BY <2>1, <2>2
<1>4. ASSUME NEW k \in 0..(n - 1), k \in Good PROVE k + 1 \in Good
  <2>1. PICK f : Computes(f, k)
    BY <1>4
  <2> DEFINE u == M!entry(f[k], available)
             g == [i \in 0..(k + 1) |-> IF i = k + 1 THEN u ELSE f[i]]
  <2>2. ASSUME NEW i \in 0..(k + 1)
        PROVE  g[i] = IF i = 0 THEN base ELSE M!entry(g[i - 1], available)
    <3>1. CASE i = k + 1
      <4> g[i - 1] = f[k]
        BY <1>2, <3>1
      <4> QED BY <1>2, <3>1
    <3>2. CASE i \in 0..k
      <4>1. g[i] = f[i] /\ (i # 0 => g[i - 1] = f[i - 1])
        BY <1>2, <3>2
      <4>2. f[i] = IF i = 0 THEN base ELSE M!entry(f[i - 1], available)
        BY <2>1, <3>2
      <4> HIDE DEF g
      <4> QED BY <4>1, <4>2
    <3> QED BY <1>2, <3>1, <3>2
  <2>3. Computes(g, k + 1)
    <3>1. g = [i \in 0..(k + 1) |-> g[i]]
      OBVIOUS
    <3> HIDE DEF g
    <3> QED BY <2>2, <3>1
  <2>4. k + 1 \in 0..n
    BY <1>2
  <2> HIDE DEF Computes, g
  <2> QED BY <2>3, <2>4
<1>5. n \in Good
  <2> HIDE DEF Good
  <2>1. \A k \in 0..n : k \in Good
    BY <1>2, <1>3, <1>4, Induct
  <2> QED BY <1>2, <2>1
<1>6. Computes(r, n)
  <2> HIDE DEF Computes
  <2> QED BY <1>5
<1> HIDE DEF r
<1>7. /\ r[0] = base /\ \A k \in 1..n : r[k] = M!entry(r[k - 1], available)
  BY <1>2, <1>6
<1> QED BY <1>1, <1>7 DEF EntersAll, n, base

(* What is left to enter is of no effect on the rest of a table. *)
LEMMA TableToEnter ==
  ASSUME NEW available, NEW table, IsTable(table, available), NEW todo,
         NEW t, t = [table EXCEPT !.todo = todo]
  PROVE  /\ IsTable(t, available) /\ t.managed = table.managed /\ t.budget = table.budget
         /\ t.todo = todo
<1> DEFINE m == table.managed
           b == table.budget
           r == table.read
           q == table.todo
           y == [managed |-> m, budget |-> b, read |-> r, todo |-> q]
<1>1. [y EXCEPT !.todo = todo] = [managed |-> m, budget |-> b, read |-> r, todo |-> todo]
  <2> HIDE DEF m, b, r, q
  <2> QED OBVIOUS
<1>2. table = y
  BY DEF IsTable
<1> HIDE DEF y
<1>3. t = [managed |-> m, budget |-> b, read |-> r, todo |-> todo]
  BY <1>1, <1>2
<1> QED BY <1>3 DEF IsTable

(* Nothing is known of an empty table. *)
LEMMA NothingManaged ==
  ASSUME NEW available, MaxBOMImports \in Nat
  PROVE  /\ IsTable(M!NoTable, available) /\ M!NoTable.budget = MaxBOMImports
         /\ M!NoTable.managed = <<>> /\ DOMAIN <<>> = {}
<1>1. DOMAIN <<>> = {} /\ <<>> = [k \in DOMAIN <<>> |-> <<>>[k]]
  OBVIOUS
<1> QED BY <1>1 DEF M!NoTable, IsTable

(* What a POM manages by itself counts, what the table holds of the farther ones is kept, *)
(* unless the budget is spent. *)
LEMMA LayerIsOver ==
  ASSUME NEW pom, NEW props, NEW table, NEW available, IsTable(table, available),
         M!Entered(available) \in Nat, MaxBOMImports \in Nat,
         NEW u, u = M!applyDependencyManagement(pom, props, table, available),
         NEW own, own = M!applyDependencyManagement(pom, props, M!NoTable, available)
  PROVE  /\ IsTable(u, available) /\ u.budget <= table.budget
         /\ u.budget # 0 => u.managed = M!Over(own.managed, table.managed)
<1> DEFINE n == M!Entered(available)
           todo == M!Entries(pom, props)
<1>1. PICK r : EntersAll(r, n, pom, props, table, available) /\ u = r[n]
  BY EntriesUnfold
<1>2. PICK s : EntersAll(s, n, pom, props, M!NoTable, available) /\ own = s[n]
  BY EntriesUnfold
<1> DEFINE Good == {k \in 0..n :
             /\ IsTable(r[k], available) /\ IsTable(s[k], available) /\ r[k].budget <= table.budget
             /\ r[k].budget # 0 => Paired(r[k], s[k], table)}
<1>3. 0 \in Good
  <2> DEFINE t == r[0]
             w == s[0]
  <2>1. t = [table EXCEPT !.todo = todo] /\ w = [M!NoTable EXCEPT !.todo = todo]
    BY <1>1, <1>2 DEF EntersAll
  <2> HIDE DEF t, w, todo
  <2>2. /\ IsTable(t, available) /\ t.managed = table.managed /\ t.budget = table.budget
        /\ t.todo = todo
    BY <2>1, TableToEnter
  <2>3. /\ IsTable(w, available) /\ w.managed = <<>> /\ w.budget = MaxBOMImports
        /\ w.todo = todo
    <3> DEFINE e == M!NoTable
    <3>1. IsTable(e, available)
      BY NothingManaged
    <3>2. e.budget = MaxBOMImports /\ e.managed = <<>>
      BY NothingManaged
    <3>3. w = [e EXCEPT !.todo = todo]
      BY <2>1
    <3> HIDE DEF e
    <3>4. /\ IsTable(w, available) /\ w.managed = e.managed /\ w.budget = e.budget
          /\ w.todo = todo
      BY <3>1, <3>3, TableToEnter
    <3> QED BY <3>2, <3>4
  <2>4. t.budget \in 0..MaxBOMImports
    BY <2>2 DEF IsTable
  <2>5. M!Over(<<>>, table.managed) = table.managed
    <3>1. table.managed = [k \in DOMAIN table.managed |-> table.managed[k]]
      BY DEF IsTable
    <3>2. M!Over(<<>>, table.managed) = [k \in DOMAIN table.managed |-> table.managed[k]]
      BY NothingManaged DEF M!Over
    <3> QED BY <3>1, <3>2
  <2>6. Paired(t, w, table)
    BY <2>2, <2>3, <2>4, <2>5 DEF Paired
  <2> QED BY <2>2, <2>3, <2>4, <2>6 DEF t, w
<1>4. ASSUME NEW k \in 0..(n - 1), k \in Good PROVE k + 1 \in Good
  <2> DEFINE t == r[k]
             w == s[k]
             t2 == r[k + 1]
             w2 == s[k + 1]
  <2>1. k + 1 \in 1..n /\ k + 1 \in 0..n /\ (k + 1) - 1 = k
    OBVIOUS
  <2>2. t2 = M!entry(t, available) /\ w2 = M!entry(w, available)
    BY <1>1, <1>2, <2>1 DEF EntersAll
  <2>3. /\ IsTable(t, available) /\ IsTable(w, available) /\ t.budget <= table.budget
        /\ t.budget # 0 => Paired(t, w, table)
    BY <1>4
  <2>4. k + 1 \in Good <=>
          /\ IsTable(t2, available) /\ IsTable(w2, available) /\ t2.budget <= table.budget
          /\ t2.budget # 0 => Paired(t2, w2, table)
    BY <2>1
  <2> HIDE DEF t, w, t2, w2, Good
  <2>5. IsTable(t2, available) /\ t2.budget <= t.budget /\ IsTable(w2, available)
    BY <2>2, <2>3, EntryKeeps
  <2>6. t.budget \in Nat /\ t2.budget \in Nat /\ table.budget \in Nat
    BY <2>3, <2>5 DEF IsTable
  <2>7. t2.budget # 0 => Paired(t2, w2, table)
    <3> SUFFICES ASSUME t2.budget # 0 PROVE Paired(t2, w2, table)
      OBVIOUS
    <3>1. t.budget # 0
      BY <2>5, <2>6
    <3> QED BY <2>2, <2>3, <3>1, EntryInStep
  <2> QED BY <2>3, <2>4, <2>5, <2>6, <2>7
<1>5. n \in Good
  <2> HIDE DEF Good
  <2>1. \A k \in 0..n : k \in Good
    BY <1>3, <1>4, Induct
  <2> QED BY <2>1
<1> HIDE DEF n
<1> QED BY <1>1, <1>2, <1>5 DEF Paired

-----------------------------------------------------------------------------
(* The tables after each POM, the farthest first *)
Layers(f, chain, available) ==
  /\ f[Len(chain) + 1] = M!NoTable
  /\ \A i \in 1..Len(chain) :
       f[i] = M!applyDependencyManagement(chain[i], M!MergedProps(chain), f[i + 1], available)

(* The chain is entered POM by POM. *)
LEMMA ManagedUnfolds ==
  ASSUME NEW chain, NEW available, Len(chain) \in Nat
  PROVE  \E f : Layers(f, chain, available) /\ M!Managed(chain, available) = f[1]
<1> DEFINE n == Len(chain)
           props == M!MergedProps(chain)
           Step(i, t) == M!applyDependencyManagement(chain[i], props, t, available)
           Computes(f, k) ==
             f = [i \in k..(n + 1) |-> IF i = n + 1 THEN M!NoTable ELSE Step(i, f[i + 1])]
           from == CHOOSE f : Computes(f, 1)
           Good == {k \in 0..n : \E f : Computes(f, n + 1 - k)}
<1>1. M!Managed(chain, available) = from[1]
  BY DEF M!Managed
<1> HIDE DEF n, props
<1>2. n \in Nat
  BY DEF n
<1>3. 0 \in Good
  <2> DEFINE f == [i \in (n + 1)..(n + 1) |-> M!NoTable]
  <2>1. Computes(f, n + 1)
    BY <1>2
  <2>2. 0 \in 0..n /\ n + 1 - 0 = n + 1
    BY <1>2
  <2> HIDE DEF Computes, f
  <2> QED BY <2>1, <2>2
<1>4. ASSUME NEW k \in 0..(n - 1), k \in Good PROVE k + 1 \in Good
  <2> DEFINE j == n - k
  <2>0. j \in 1..n /\ n + 1 - k = j + 1 /\ n + 1 - (k + 1) = j /\ k + 1 \in 0..n
    BY <1>2
  <2>1. PICK f : Computes(f, j + 1)
    <3> HIDE DEF Computes, j
    <3> QED BY <1>4, <2>0
  <2> HIDE DEF j
  <2> DEFINE u == Step(j, f[j + 1])
             g == [i \in j..(n + 1) |-> IF i = j THEN u ELSE f[i]]
  <2>2. ASSUME NEW i \in j..(n + 1)
        PROVE  g[i] = IF i = n + 1 THEN M!NoTable ELSE Step(i, g[i + 1])
    <3>1. CASE i = j
      <4>1. i # n + 1 /\ j + 1 \in j..(n + 1) /\ j + 1 # j
        BY <1>2, <2>0, <3>1
      <4>2. g[i] = u /\ g[j + 1] = f[j + 1]
        BY <3>1, <4>1
      <4> HIDE DEF g
      <4> QED BY <3>1, <4>1, <4>2
    <3>2. CASE i # j
      <4>0. i \in (j + 1)..(n + 1) /\ (i # n + 1 => i + 1 \in j..(n + 1) /\ i + 1 # j)
        BY <1>2, <2>0, <3>2
      <4>1. g[i] = f[i] /\ (i # n + 1 => g[i + 1] = f[i + 1])
        BY <3>2, <4>0
      <4>2. f[i] = IF i = n + 1 THEN M!NoTable ELSE Step(i, f[i + 1])
        BY <2>1, <4>0
      <4> HIDE DEF g
      <4> QED BY <4>1, <4>2
    <3> QED BY <3>1, <3>2
  <2>3. Computes(g, j)
    <3>1. g = [i \in j..(n + 1) |-> g[i]]
      OBVIOUS
    <3> HIDE DEF g
    <3> QED BY <2>2, <3>1
  <2> HIDE DEF Computes, g
  <2> QED BY <2>0, <2>3
<1>5. n \in Good
  <2> HIDE DEF Good
  <2>1. \A k \in 0..n : k \in Good
    BY <1>2, <1>3, <1>4, Induct
  <2> QED BY <1>2, <2>1
<1>6. Computes(from, 1)
  <2>1. n + 1 - n = 1
    BY <1>2
  <2> HIDE DEF Computes
  <2>2. \E f : Computes(f, n + 1 - n)
    BY <1>5
  <2> QED BY <2>1, <2>2
<1> HIDE DEF from
<1>7. /\ from[n + 1] = M!NoTable
      /\ \A i \in 1..n :
           from[i] = M!applyDependencyManagement(chain[i], props, from[i + 1], available)
  BY <1>2, <1>6
<1> QED BY <1>1, <1>7 DEF Layers, n, props

(* What the i-th POM of a chain manages by itself *)
Own(chain, i, available) ==
  M!applyDependencyManagement(chain[i], M!MergedProps(chain), M!NoTable, available).managed

(* m says of a key what the nearest from the i-th on says *)
Tells(m, key, i, chain, available) ==
  /\ key \in DOMAIN m <=> \E j \in i..Len(chain) : key \in DOMAIN Own(chain, j, available)
  /\ \A j \in i..Len(chain) :
       /\ key \in DOMAIN Own(chain, j, available)
       /\ \A l \in i..(j - 1) : key \notin DOMAIN Own(chain, l, available)
       => m[key] = Own(chain, j, available)[key]

(* A nearer POM's word goes before what the farther ones say. *)
LEMMA NearerTells ==
  ASSUME NEW chain, NEW available, NEW key, Len(chain) \in Nat, NEW i \in 1..Len(chain), NEW m,
         Tells(m, key, i + 1, chain, available)
  PROVE  Tells(M!Over(Own(chain, i, available), m), key, i, chain, available)
<1> DEFINE n == Len(chain)
           own == Own(chain, i, available)
           w == M!Over(own, m)
<1>1. IsOver(w, own, m)
  BY OverIs
<1>2. \A j : j \in i..n <=> j = i \/ j \in (i + 1)..n
  OBVIOUS
<1>3. key \in DOMAIN w <=> \E j \in i..n : key \in DOMAIN Own(chain, j, available)
  BY <1>1, <1>2 DEF IsOver, Tells
<1>4. ASSUME NEW j \in i..n, key \in DOMAIN Own(chain, j, available),
             \A l \in i..(j - 1) : key \notin DOMAIN Own(chain, l, available)
      PROVE  w[key] = Own(chain, j, available)[key]
  <2>1. CASE j = i
    BY <1>1, <1>4, <2>1 DEF IsOver
  <2>2. CASE j \in (i + 1)..n
    <3>1. i \in i..(j - 1) /\ \A l \in (i + 1)..(j - 1) : l \in i..(j - 1)
      BY <2>2
    <3>2. key \notin DOMAIN own
      BY <1>4, <3>1
    <3>3. key \in DOMAIN m /\ m[key] = Own(chain, j, available)[key]
      BY <1>4, <2>2, <3>1 DEF Tells
    <3> QED BY <1>1, <3>2, <3>3 DEF IsOver
  <2> QED BY <1>2, <2>1, <2>2
<1> HIDE DEF w
<1>5. Tells(w, key, i, chain, available)
  BY <1>3, <1>4 DEF Tells
<1> QED BY <1>5 DEF w

(* The table of a chain says what the nearest POM says, unless the budget is spent. *)
LEMMA ManagedTells ==
  ASSUME NEW chain, NEW available, NEW key, Len(chain) \in Nat, M!Entered(available) \in Nat,
         MaxBOMImports \in Nat, NEW table, table = M!Managed(chain, available)
  PROVE  /\ IsTable(table, available)
         /\ table.budget # 0 => Tells(table.managed, key, 1, chain, available)
<1> DEFINE n == Len(chain)
           props == M!MergedProps(chain)
<1>1. PICK f : Layers(f, chain, available) /\ table = f[1]
  BY ManagedUnfolds
<1> DEFINE Right(i) ==
             /\ IsTable(f[i], available)
             /\ f[i].budget # 0 => Tells(f[i].managed, key, i, chain, available)
           Good == {k \in 0..n : Right(n + 1 - k)}
<1>2. 0 \in Good
  <2>1. f[n + 1] = M!NoTable
    BY <1>1 DEF Layers
  <2>2. IsTable(M!NoTable, available) /\ M!NoTable.managed = <<>> /\ DOMAIN <<>> = {}
    BY NothingManaged
  <2>3. (n + 1)..n = {}
    OBVIOUS
  <2>4. Tells(<<>>, key, n + 1, chain, available)
    BY <2>2, <2>3 DEF Tells
  <2>5. Right(n + 1)
    BY <2>1, <2>2, <2>4
  <2>6. n + 1 - 0 = n + 1 /\ 0 \in 0..n
    OBVIOUS
  <2> HIDE DEF Right
  <2> QED BY <2>5, <2>6
<1>3. ASSUME NEW k \in 0..(n - 1), k \in Good PROVE k + 1 \in Good
  <2> DEFINE i == n - k
  <2>1. i \in 1..n /\ n + 1 - k = i + 1 /\ n + 1 - (k + 1) = i /\ k + 1 \in 0..n
    OBVIOUS
  <2>2. Right(i + 1)
    <3> HIDE DEF Right, i
    <3> QED BY <1>3, <2>1
  <2> HIDE DEF i
  <2> DEFINE t == f[i + 1]
             u == f[i]
             pom == chain[i]
             own == M!applyDependencyManagement(pom, props, M!NoTable, available)
  <2>3. u = M!applyDependencyManagement(pom, props, t, available)
    BY <1>1, <2>1 DEF Layers
  <2>4. IsTable(t, available) /\ (t.budget # 0 => Tells(t.managed, key, i + 1, chain, available))
    BY <2>2
  <2>5. own.managed = Own(chain, i, available)
    BY DEF Own
  <2> HIDE DEF t, u, pom, props, own
  <2>6. /\ IsTable(u, available) /\ u.budget <= t.budget
        /\ u.budget # 0 => u.managed = M!Over(own.managed, t.managed)
    BY <2>3, <2>4, LayerIsOver DEF own
  <2>7. u.budget # 0 => t.budget # 0
    <3>1. u.budget \in Nat /\ t.budget \in Nat
      BY <2>4, <2>6 DEF IsTable
    <3> QED BY <2>6, <3>1
  <2>8. u.budget # 0 => Tells(u.managed, key, i, chain, available)
    BY <2>1, <2>4, <2>5, <2>6, <2>7, NearerTells
  <2>9. Right(i)
    BY <2>6, <2>8 DEF u
  <2> HIDE DEF Right
  <2> QED BY <2>1, <2>9
<1>4. n \in Good
  <2> HIDE DEF Good
  <2>1. \A k \in 0..n : k \in Good
    BY <1>2, <1>3, Induct
  <2> QED BY <2>1
<1>5. Right(1)
  <2>1. n + 1 - n = 1
    OBVIOUS
  <2> HIDE DEF Right
  <2> QED BY <1>4, <2>1
<1> QED BY <1>1, <1>5

-----------------------------------------------------------------------------
Poms(available) == {available[g] : g \in DOMAIN available}

(* A POM with some of its parents, and the POMs that were read for it *)
IsAscent(c, available) ==
  /\ c.poms \in Seq(Poms(available))
  /\ c.read \subseteq DOMAIN available

(* What an ascent reads can be had, and what it finds is in the repository. *)
LEMMA AscentIs ==
  ASSUME MaxParentDepth \in Nat, NEW available, Proper(available), NEW leaf \in Poms(available)
  PROVE  IsAscent(M!Ascent(leaf, available), available)
<1> DEFINE n == MaxParentDepth
           base == [poms |-> <<leaf>>, props |-> M!flattenProps(leaf.props), read |-> {}]
           up(c) == <<M!resolveProps(M!Last(c.poms).parent.a, c.props),
                      M!resolveProps(M!Last(c.poms).parent.v, c.props)>>
           next(c) == [poms |-> Append(c.poms, available[up(c)]),
                       props |-> M!flattenProps(M!Over(c.props, available[up(c)].props)),
                       read |-> c.read \cup {up(c)}]
           climb(c) == IF /\ M!Known(up(c)[1]) /\ M!Known(up(c)[2])
                          /\ M!PomFetch(up(c), available)
                       THEN next(c) ELSE c
           Computes(r, k) == r = [i \in 0..k |-> IF i = 0 THEN base ELSE climb(r[i - 1])]
           after == CHOOSE r : Computes(r, n)
           Good == {k \in 0..n : \E r : Computes(r, k)}
<1>1. M!Ascent(leaf, available) = after[n]
  BY DEF M!Ascent
<1>2. IsAscent(base, available)
  <2>1. base.poms = <<leaf>> /\ base.read = {}
    OBVIOUS
  <2> HIDE DEF base
  <2>2. <<leaf>> \in Seq(Poms(available))
    OBVIOUS
  <2> QED BY <2>1, <2>2 DEF IsAscent
<1>3. ASSUME NEW c, IsAscent(c, available) PROVE IsAscent(climb(c), available)
  <2> DEFINE g == up(c)
  <2>1. CASE climb(c) = c
    BY <1>3, <2>1
  <2>2. CASE climb(c) = next(c) /\ g \in DOMAIN available
    <3>1. available[g] \in Poms(available)
      BY <2>2 DEF Poms
    <3> DEFINE q == c.poms
               pom == available[g]
    <3>2. q \in Seq(Poms(available))
      BY <1>3 DEF IsAscent
    <3>3. next(c).poms = Append(q, pom) /\ next(c).read = c.read \cup {g}
      OBVIOUS
    <3> HIDE DEF q, pom, g, next
    <3>4. Append(q, pom) \in Seq(Poms(available))
      BY <3>1, <3>2 DEF pom
    <3> QED BY <1>3, <2>2, <3>3, <3>4 DEF IsAscent
  <2>3. climb(c) = c \/ (climb(c) = next(c) /\ g \in DOMAIN available)
    <3> HIDE DEF g, next
    <3> QED BY DEF M!PomFetch, g
  <2> QED BY <2>1, <2>2, <2>3
<1> HIDE DEF n, base, climb
<1>4. n \in Nat
  BY DEF n
<1>5. 0 \in Good
  <2> DEFINE r == [i \in 0..0 |-> base]
  <2>1. Computes(r, 0)
    OBVIOUS
  <2>2. 0 \in 0..n
    BY <1>4
  <2> HIDE DEF Computes, r
  <2> QED BY <2>1, <2>2
<1>6. ASSUME NEW k \in 0..(n - 1), k \in Good PROVE k + 1 \in Good
  <2>1. PICK r : Computes(r, k)
    BY <1>6
  <2> DEFINE u == climb(r[k])
             g == [i \in 0..(k + 1) |-> IF i = k + 1 THEN u ELSE r[i]]
  <2>2. ASSUME NEW i \in 0..(k + 1)
        PROVE  g[i] = IF i = 0 THEN base ELSE climb(g[i - 1])
    <3>1. CASE i = k + 1
      <4> g[i - 1] = r[k]
        BY <1>4, <3>1
      <4> QED BY <1>4, <3>1
    <3>2. CASE i \in 0..k
      <4>1. g[i] = r[i] /\ (i # 0 => g[i - 1] = r[i - 1])
        BY <1>4, <3>2
      <4>2. r[i] = IF i = 0 THEN base ELSE climb(r[i - 1])
        BY <2>1, <3>2
      <4> HIDE DEF g
      <4> QED BY <4>1, <4>2
    <3> QED BY <1>4, <3>1, <3>2
  <2>3. Computes(g, k + 1)
    <3>1. g = [i \in 0..(k + 1) |-> g[i]]
      OBVIOUS
    <3> HIDE DEF g
    <3> QED BY <2>2, <3>1
  <2>4. k + 1 \in 0..n
    BY <1>4
  <2> HIDE DEF Computes, g
  <2> QED BY <2>3, <2>4
<1>7. n \in Good
  <2> HIDE DEF Good
  <2>1. \A k \in 0..n : k \in Good
    BY <1>4, <1>5, <1>6, Induct
  <2> QED BY <1>4, <2>1
<1>8. Computes(after, n)
  <2> HIDE DEF Computes
  <2> QED BY <1>7
<1>9. \A r : Computes(r, n) => IsAscent(r[n], available)
  <2> SUFFICES ASSUME NEW r, Computes(r, n) PROVE IsAscent(r[n], available)
    OBVIOUS
  <2> DEFINE Fine == {k \in 0..n : IsAscent(r[k], available)}
  <2>1. r[0] = base /\ \A k \in 0..(n - 1) : r[k + 1] = climb(r[k])
    BY <1>4
  <2>2. 0 \in Fine /\ \A k \in 0..(n - 1) : k \in Fine => k + 1 \in Fine
    BY <1>2, <1>3, <1>4, <2>1
  <2>3. \A k \in 0..n : k \in Fine
    <3> HIDE DEF Fine
    <3> QED BY <1>4, <2>2, Induct
  <2> QED BY <1>4, <2>3
<1> HIDE DEF after, Computes
<1> QED BY <1>1, <1>8, <1>9

(* The properties of a chain are of references, none of what is missing. *)
LEMMA NothingIsNoReference ==
  ASSUME NEW available, Proper(available), NEW chain \in Seq(Poms(available))
  PROVE  M!resolveProps("", M!MergedProps(chain)) = ""
<1> DEFINE merged == [r \in UNION {DOMAIN p.props : p \in P!ToSet(chain)} |->
                        chain[M!Min({i \in DOMAIN chain : r \in DOMAIN chain[i].props})].props[r]]
           v == M!InheritedVersion(chain)
           props == M!WithVersion(merged, v)
<1>1. "" \notin DOMAIN merged
  <2>1. ASSUME NEW p \in P!ToSet(chain) PROVE "" \notin DOMAIN p.props
    <3>1. p \in Poms(available)
      BY DEF P!ToSet
    <3> QED BY <3>1 DEF Poms, Proper
  <2> QED BY <2>1
<1> HIDE DEF merged, v
<1>2. "" \notin DOMAIN props
  BY <1>1 DEF M!WithVersion, M!Over
<1>3. M!MergedProps(chain) = M!flattenProps(props)
  BY DEF M!MergedProps, M!ToSet, P!ToSet, merged, v
<1> HIDE DEF props
<1>4. DOMAIN M!flattenProps(props) = DOMAIN props
  BY DEF M!flattenProps
<1> QED BY <1>2, <1>3, <1>4 DEF M!resolveProps

(* What is left to enter, were every import still to come that of the longest POM *)
IsLeft(t, longest, k) == IsSeq(t.todo) /\ Len(t.todo) + t.budget * longest <= k

(* An entry leaves less. *)
LEMMA EntryLeavesLess ==
  ASSUME NEW available, Proper(available), NEW t, IsTable(t, available), MaxBOMImports \in Nat,
         NEW longest \in Nat, \A g \in DOMAIN available : Len(available[g].dm) <= longest,
         NEW k \in Nat, IsLeft(t, longest, k + 1), t.todo # <<>>
  PROVE  IsLeft(M!entry(t, available), longest, k)
<1> DEFINE u == M!entry(t, available)
           q == t.todo
           b == t.budget
<1>1. /\ IsSeq(Tail(q)) /\ Len(q) \in Nat \ {0} /\ Len(Tail(q)) = Len(q) - 1 /\ b \in Nat
      /\ Len(q) + b * longest <= k + 1
  BY TailOf DEF IsLeft, IsTable
<1>2. ASSUME NEW v, v.todo = Tail(q), v.budget = b PROVE IsLeft(v, longest, k)
  <2>1. b * longest \in Nat
    BY <1>1
  <2> HIDE DEF q, b
  <2> QED BY <1>1, <1>2, <2>1 DEF IsLeft
<1>3. ASSUME b # 0 PROVE (b - 1) * longest = b * longest - longest /\ b * longest \in Nat
  <2> HIDE DEF b
  <2> QED BY <1>1
<1>4. CASE Skips(t, u) \/ Enters(t, u)
  <2>1. u.todo = Tail(q) /\ u.budget = b
    <3> DEFINE over == M!Over(Adds(t), t.managed)
    <3>1. \E m \in {t.managed, over} :
                 u = [managed |-> m, budget |-> b, read |-> t.read, todo |-> Tail(q)]
      BY <1>4 DEF Skips, Rest, Enters
    <3> HIDE DEF u, over, b, q
    <3> QED BY <3>1
  <2> HIDE DEF u
  <2> QED BY <1>2, <2>1 DEF u
<1>5. CASE b # 0 /\ Misses(t, u)
  <2>1. u.todo = Tail(q) /\ u.budget = b - 1
    BY <1>5 DEF Misses
  <2> HIDE DEF u, q, b
  <2>2. IsLeft(u, longest, k)
    BY <1>1, <1>3, <1>5, <2>1 DEF IsLeft
  <2> QED BY <2>2 DEF u
<1>6. CASE b # 0 /\ Imports(t, u, available) /\ Imported(t) \in DOMAIN available
  <2> DEFINE e == BomEntries(t, available)
  <2>1. IsSeq(e) /\ Len(e) \in Nat /\ Len(e) <= longest
    <3> DEFINE dm == available[Imported(t)].dm
               n == Len(dm)
    <3>1. IsSeq(dm) /\ n <= longest
      BY <1>6 DEF Proper, IsSeq
    <3>2. e = [i \in DOMAIN dm |-> e[i]] /\ DOMAIN e = DOMAIN dm
      BY DEF BomEntries, M!Entries
    <3> HIDE DEF dm, e
    <3>3. n \in Nat /\ DOMAIN dm = 1..n
      BY <3>1, SeqOfItself
    <3> HIDE DEF n
    <3>4. IsSeq(e) /\ Len(e) = n
      BY <3>2, <3>3, FunctionIsSeq
    <3> QED BY <3>1, <3>3, <3>4
  <2> DEFINE w == Tail(q)
  <2> HIDE DEF e, w
  <2>2. IsSeq(e \o w) /\ Len(e \o w) = Len(e) + Len(w)
    BY <1>1, <2>1, Concatenated DEF Joins, w
  <2> DEFINE a == e \o w
  <2>3. u.todo = a /\ u.budget = b - 1
    <3>1. u = [managed |-> t.managed, budget |-> t.budget - 1,
               read |-> t.read \cup {Imported(t)}, todo |-> a]
      BY <1>6 DEF Imports, e, w
    <3> HIDE DEF a, u
    <3> QED BY <3>1
  <2>4. IsSeq(a) /\ Len(a) = Len(e) + (Len(q) - 1)
    BY <1>1, <2>2 DEF w
  <2> HIDE DEF a, u, q, b
  <2>5. IsLeft(u, longest, k)
    BY <1>1, <1>3, <1>6, <2>1, <2>3, <2>4 DEF IsLeft
  <2> QED BY <2>5 DEF u
<1> HIDE DEF u
<1> QED BY <1>4, <1>5, <1>6, EntryCases DEF u

(* Every managed dependency of a POM is entered, and those of the BOMs it imports, although *)
(* these may import each other in circles. *)
THEOREM EverythingIsEntered ==
  ASSUME MaxBOMImports \in Nat, NEW available, Proper(available), NEW pom \in Poms(available),
         NEW props, NEW table, IsTable(table, available)
  PROVE  M!applyDependencyManagement(pom, props, table, available).todo = <<>>
<1> DEFINE n == M!Entered(available)
           todo == M!Entries(pom, props)
<1>1. PICK longest \in Nat : /\ n = (MaxBOMImports + 1) * longest
                             /\ \A g \in DOMAIN available : Len(available[g].dm) <= longest
  BY LongestIs
<1>2. n \in Nat
  BY EnteredIs
<1>3. PICK r : /\ EntersAll(r, n, pom, props, table, available)
               /\ M!applyDependencyManagement(pom, props, table, available) = r[n]
  BY <1>2, EntriesUnfold
<1> DEFINE Good == {k \in 0..n :
             IsTable(r[k], available) /\ (r[k].todo = <<>> \/ IsLeft(r[k], longest, n - k))}
<1>4. 0 \in Good
  <2> DEFINE t == r[0]
  <2>1. t = [table EXCEPT !.todo = todo]
    BY <1>3 DEF EntersAll
  <2>2. IsSeq(todo) /\ Len(todo) \in Nat /\ Len(todo) <= longest
    <3> DEFINE dm == pom.dm
               m == Len(dm)
    <3>1. IsSeq(dm) /\ m <= longest
      BY <1>1 DEF Proper, Poms, IsSeq
    <3>2. todo = [i \in DOMAIN dm |-> todo[i]] /\ DOMAIN todo = DOMAIN dm
      BY DEF M!Entries
    <3> HIDE DEF dm, todo
    <3>3. m \in Nat /\ DOMAIN dm = 1..m
      BY <3>1, SeqOfItself
    <3> HIDE DEF m
    <3>4. IsSeq(todo) /\ Len(todo) = m
      BY <3>2, <3>3, FunctionIsSeq
    <3> QED BY <3>1, <3>3, <3>4
  <2> HIDE DEF t, todo
  <2>3. IsTable(t, available) /\ t.budget = table.budget /\ t.todo = todo
    BY <2>1, TableToEnter
  <2>4. table.budget \in 0..MaxBOMImports
    BY DEF IsTable
  <2> HIDE DEF n
  <2>5. Len(todo) + t.budget * longest <= n
    <3> DEFINE b == t.budget
    <3>1. b \in Nat /\ MaxBOMImports - b \in Nat
      BY <2>3, <2>4
    <3> HIDE DEF b
    <3>2. (MaxBOMImports - b) * longest \in Nat
      BY <3>1
    <3>3. (MaxBOMImports + 1) * longest = (MaxBOMImports - b) * longest + b * longest + longest
      BY <3>1
    <3>4. b * longest \in Nat
      BY <3>1
    <3> QED BY <1>1, <2>2, <3>2, <3>3, <3>4 DEF b
  <2>6. IsLeft(t, longest, n - 0)
    BY <1>2, <2>2, <2>3, <2>5 DEF IsLeft
  <2>7. 0 \in 0..n
    BY <1>2
  <2> QED BY <2>3, <2>6, <2>7 DEF t
<1>5. ASSUME NEW k \in 0..(n - 1), k \in Good PROVE k + 1 \in Good
  <2> DEFINE t == r[k]
             u == r[k + 1]
             j == n - (k + 1)
  <2> HIDE DEF n
  <2>1. /\ k + 1 \in 1..n /\ k + 1 \in 0..n /\ (k + 1) - 1 = k
        /\ j \in Nat /\ n - k = j + 1
    BY <1>2
  <2>2. u = M!entry(t, available)
    BY <1>3, <2>1 DEF EntersAll
  <2>3. IsTable(t, available) /\ (t.todo = <<>> \/ IsLeft(t, longest, j + 1))
    BY <1>5, <2>1
  <2> HIDE DEF t, u, j
  <2>4. IsTable(u, available) /\ (u.todo = <<>> \/ IsLeft(u, longest, j))
    <3>1. IsTable(u, available)
      BY <2>2, <2>3, EntryKeeps
    <3>2. CASE t.todo = <<>>
      BY <2>2, <2>3, <3>1, <3>2, EntryCases
    <3>3. CASE t.todo # <<>>
      <4>1. IsLeft(u, longest, j)
        BY <1>1, <2>1, <2>2, <2>3, <3>3, EntryLeavesLess
      <4> QED BY <3>1, <4>1
    <3> QED BY <3>2, <3>3
  <2> QED BY <2>1, <2>4 DEF u, j
<1>6. n \in Good
  <2> HIDE DEF Good, n
  <2>1. \A k \in 0..n : k \in Good
    BY <1>2, <1>4, <1>5, Induct
  <2> QED BY <1>2, <2>1
<1> DEFINE t == r[n]
<1>7. IsTable(t, available) /\ (t.todo = <<>> \/ IsLeft(t, longest, n - n))
  BY <1>6
<1>8. n - n = 0
  BY <1>2
<1> HIDE DEF t, n
<1>9. CASE IsLeft(t, longest, 0)
  <2>1. IsSeq(t.todo) /\ Len(t.todo) + t.budget * longest <= 0 /\ t.budget \in Nat
    BY <1>7, <1>9 DEF IsLeft, IsTable
  <2>2. t.budget * longest \in Nat
    BY <1>1, <2>1
  <2>3. ~(Len(t.todo) \in Nat \ {0})
    BY <2>1, <2>2
  <2> QED BY <1>3, <2>1, <2>3, TailOf DEF t
<1> QED BY <1>3, <1>7, <1>8, <1>9 DEF t

MavenConstants == MaxParentDepth \in Nat /\ MaxBOMImports \in Nat

(* What a POM is resolved to, with the properties and the table of its chain *)
Wants(leaf, available, e) ==
  LET chain == M!Chain(leaf, available)
  IN M!VersionOf(e, M!MergedProps(chain), M!Managed(chain, available).managed)
CoordinateOf(leaf, available, e) ==
  [a |-> e.a, v |-> Wants(leaf, available, e), typ |-> M!TypeOf(e), cls |-> e.cls]

(* What a POM asks for has a version; what was read for it can be had. *)
LEMMA ResolvedAreKnown ==
  ASSUME MavenConstants, NEW available, Proper(available), NEW leaf \in Poms(available),
         NEW r, r = M!ResolvePomDependencies(leaf, available)
  PROVE  /\ \A x \in r.coords : M!Known(x.v)
         /\ ~M!includeManaged(leaf) =>
              r.coords = {CoordinateOf(leaf, available, e) :
                            e \in {d \in M!ToSet(leaf.deps) :
                                    M!Wanted(d) /\ M!Known(Wants(leaf, available, d))}}
         /\ r.read \subseteq DOMAIN available /\ M!Ascent(leaf, available).read \subseteq r.read
<1> DEFINE chain == M!Chain(leaf, available)
           props == M!MergedProps(chain)
           table == M!Managed(chain, available)
           managed == {[a |-> k[1], v |-> table.managed[k], typ |-> k[2], cls |-> k[3],
                        scope |-> "", opt |-> FALSE] : k \in DOMAIN table.managed}
           all == M!ToSet(leaf.deps) \cup (IF M!includeManaged(leaf) THEN managed ELSE {})
           c == M!Ascent(leaf, available)
<1>1. /\ r.coords = M!Coordinates(all, props, table.managed)
      /\ r.read = c.read \cup table.read
  <2> HIDE DEF all, c, props, table, chain
  <2>1. r = [coords |-> M!Coordinates(all, props, table.managed), read |-> c.read \cup table.read]
    BY DEF M!ResolvePomDependencies, all, c, props, table, chain
  <2> QED BY <2>1
<1>2. IsAscent(c, available)
  BY AscentIs DEF MavenConstants
<1>3. Len(chain) \in Nat
  <2>1. chain \in Seq(Poms(available))
    BY <1>2 DEF M!Chain, IsAscent
  <2> HIDE DEF chain
  <2> QED BY <2>1
<1>4. IsTable(table, available)
  <2>1. M!Entered(available) \in Nat
    BY EnteredIs DEF MavenConstants
  <2> QED BY <1>3, <2>1, ManagedTells DEF MavenConstants
<1> HIDE DEF all, c, props, table
<1>5. c.read \subseteq DOMAIN available /\ table.read \subseteq DOMAIN available
  BY <1>2, <1>4 DEF IsAscent, IsTable
<1>6. \A x \in r.coords : M!Known(x.v)
  BY <1>1 DEF M!Coordinates
<1>7. ~M!includeManaged(leaf) =>
        r.coords = {CoordinateOf(leaf, available, e) :
                      e \in {d \in M!ToSet(leaf.deps) :
                              M!Wanted(d) /\ M!Known(Wants(leaf, available, d))}}
  <2>1. \A e : M!VersionOf(e, props, table.managed) = Wants(leaf, available, e)
    BY DEF Wants, props, table
  <2>2. ~M!includeManaged(leaf) => all = M!ToSet(leaf.deps)
    BY DEF all
  <2> QED BY <1>1, <2>1, <2>2 DEF M!Coordinates, CoordinateOf
<1> QED BY <1>1, <1>5, <1>6, <1>7 DEF c

(* The least place of some is what it seems. *)
LEMMA MinIs ==
  ASSUME NEW Y \in SUBSET Nat, Y # {}
  PROVE  M!Min(Y) \in Y /\ \A y \in Y : M!Min(Y) <= y
<1>1. \E x \in Y : \A y \in Y : x <= y
  BY Least
<1> QED BY <1>1 DEF M!Min

(* The places of a sequence *)
LEMMA PlacesOf ==
  ASSUME NEW A, NEW s \in Seq(A)
  PROVE  /\ Len(s) \in Nat /\ DOMAIN s = 1..Len(s)
         /\ \A Y \in SUBSET DOMAIN s : Y \in SUBSET Nat
         /\ \A j \in 1..Len(s) : \A l \in 1..(j - 1) : l \in DOMAIN s /\ ~(j <= l)
<1>1. Len(s) \in Nat /\ DOMAIN s = 1..Len(s)
  OBVIOUS
<1> QED BY <1>1

(* A version that is left out is the nearest POM's. *)
LEMMA LeftOutIsNearest ==
  ASSUME MavenConstants, NEW available, Proper(available), NEW leaf \in Poms(available),
         NEW d, d.v = "", M!Managed(M!Chain(leaf, available), available).budget # 0
  PROVE  /\ Wants(leaf, available, d) = M!Nearest(leaf, d, available)
         /\ M!Nearest(leaf, d, available) = "" \/ M!Known(M!Nearest(leaf, d, available))
<1> DEFINE chain == M!Chain(leaf, available)
           props == M!MergedProps(chain)
           table == M!Managed(chain, available)
           key == <<d.a, M!TypeOf(d), d.cls>>
           n == Len(chain)
           managing == {i \in DOMAIN chain : key \in DOMAIN Own(chain, i, available)}
           i == M!Min(managing)
           nearest == M!Nearest(leaf, d, available)
<1>1. chain \in Seq(Poms(available))
  <2>1. IsAscent(M!Ascent(leaf, available), available)
    BY AscentIs DEF MavenConstants
  <2> QED BY <2>1 DEF M!Chain, IsAscent
<1>2. M!resolveProps("", props) = ""
  <2> HIDE DEF chain
  <2> QED BY <1>1, NothingIsNoReference DEF MavenConstants
<1>3. nearest = IF managing = {} THEN "" ELSE Own(chain, i, available)[key]
  BY DEF M!Nearest, Own
<1>4. Wants(leaf, available, d) = IF key \in DOMAIN table.managed THEN table.managed[key] ELSE ""
  <2>1. M!resolveProps(d.v, props) = ""
    BY <1>2
  <2> HIDE DEF props, table, key
  <2> QED BY <2>1 DEF Wants, M!VersionOf, props, table, key
<1> HIDE DEF chain, props
<1>5. /\ n \in Nat /\ DOMAIN chain = 1..n
      /\ \A Y \in SUBSET DOMAIN chain : Y \in SUBSET Nat
      /\ \A j \in 1..n : \A l \in 1..(j - 1) : l \in DOMAIN chain /\ ~(j <= l)
  BY <1>1, PlacesOf
<1>6. IsTable(table, available) /\ Tells(table.managed, key, 1, chain, available)
  <2>1. table.budget # 0
    BY DEF chain
  <2>2. M!Entered(available) \in Nat
    BY EnteredIs DEF MavenConstants
  <2> HIDE DEF table, key
  <2> QED BY <1>5, <2>1, <2>2, ManagedTells DEF MavenConstants, table
<1> HIDE DEF table, key, nearest
<1>7. CASE managing = {}
  <2>1. key \notin DOMAIN table.managed
    BY <1>5, <1>6, <1>7 DEF Tells
  <2> QED BY <1>3, <1>4, <1>7, <2>1 DEF nearest
<1>8. CASE managing # {}
  <2>1. i \in managing /\ \A j \in managing : i <= j
    <3>1. managing \in SUBSET DOMAIN chain
      OBVIOUS
    <3> HIDE DEF managing
    <3>2. managing \in SUBSET Nat
      BY <1>5, <3>1
    <3> QED BY <1>8, <3>2, MinIs
  <2> HIDE DEF i
  <2>2. i \in 1..n /\ key \in DOMAIN Own(chain, i, available)
    BY <1>5, <2>1
  <2>3. ASSUME NEW l \in 1..(i - 1) PROVE key \notin DOMAIN Own(chain, l, available)
    <3>1. l \in DOMAIN chain /\ ~(i <= l)
      BY <1>5, <2>2
    <3> QED BY <2>1, <3>1
  <2>4. key \in DOMAIN table.managed /\ table.managed[key] = Own(chain, i, available)[key]
    BY <1>6, <2>2, <2>3 DEF Tells
  <2>5. nearest = Own(chain, i, available)[key]
    BY <1>3, <1>8 DEF i
  <2>6. M!Known(table.managed[key])
    BY <1>6, <2>4 DEF IsTable
  <2> QED BY <1>4, <2>4, <2>5, <2>6 DEF nearest
<1> QED BY <1>7, <1>8

(* What is asked for in place of a version that is left out *)
LEMMA NearestIsAskedFor ==
  ASSUME MavenConstants, NEW available, Proper(available), NEW leaf \in Poms(available),
         NEW coords, coords = M!ResolvePomDependencies(leaf, available).coords,
         NEW d \in M!ToSet(leaf.deps), d.v = "", M!Wanted(d), ~M!includeManaged(leaf),
         M!Managed(M!Chain(leaf, available), available).budget # 0,
         \A e \in M!ToSet(leaf.deps) : KeyOf(e) = KeyOf(d) => e = d
  PROVE  {x.v : x \in {y \in coords : <<y.a, y.typ, y.cls>> = KeyOf(d)}}
           = {M!Nearest(leaf, d, available)} \ {""}
<1> DEFINE nearest == M!Nearest(leaf, d, available)
           wanted == {e \in M!ToSet(leaf.deps) : M!Wanted(e) /\ M!Known(Wants(leaf, available, e))}
<1>1. coords = {CoordinateOf(leaf, available, e) : e \in wanted}
  BY ResolvedAreKnown
<1>2. Wants(leaf, available, d) = nearest /\ (nearest = "" \/ M!Known(nearest))
  BY LeftOutIsNearest
<1> HIDE DEF nearest
<1>3. M!Known(nearest) <=> nearest # ""
  BY <1>2 DEF M!Known
<1>4. \A e : LET x == CoordinateOf(leaf, available, e) IN
            <<x.a, x.typ, x.cls>> = KeyOf(e) /\ x.v = Wants(leaf, available, e)
  BY DEF CoordinateOf, KeyOf
<1>5. ASSUME NEW x \in coords, <<x.a, x.typ, x.cls>> = KeyOf(d)
      PROVE  x.v = nearest /\ nearest # ""
  <2>1. PICK e \in wanted : x = CoordinateOf(leaf, available, e)
    BY <1>1, <1>5
  <2>2. e = d
    BY <1>4, <1>5, <2>1
  <2> QED BY <1>2, <1>3, <1>4, <2>1, <2>2
<1>6. ASSUME nearest # ""
      PROVE  \E x \in coords : <<x.a, x.typ, x.cls>> = KeyOf(d) /\ x.v = nearest
  <2>1. d \in wanted
    BY <1>2, <1>3, <1>6
  <2> QED BY <1>1, <1>2, <1>4, <2>1
<1> HIDE DEF wanted
<1> QED BY <1>5, <1>6 DEF nearest

-----------------------------------------------------------------------------
(* What a POM was resolved to last *)
Latest(r) ==
  \E available : Proper(available) /\ \E leaf \in Poms(available) :
    /\ r = [leaf |-> leaf, coords |-> M!ResolvePomDependencies(leaf, available).coords,
            available |-> available]
    /\ r.coords \subseteq mavenSeen \cup mavenQueue
    /\ M!Ascent(leaf, available).read \subseteq cached

MavenInv ==
  /\ \E p \in Projects : repo = p[1]
  /\ mavenResult \in {"running", "done"}
  /\ mavenQueue \cap mavenSeen = {}
  /\ cached \subseteq DOMAIN repo
  /\ latest = {} \/ \E r : latest = {r} /\ Latest(r)
  /\ \A c \in mavenSeen : M!Files(c) \subseteq urls

(* What can be had of a repository is as the parameters say. *)
LEMMA ProjectIsProper ==
  ASSUME \E p \in Projects : repo = p[1]
  PROVE  /\ MavenConstants
         /\ \A down : DOMAIN repo \ down # {} => Proper([g \in DOMAIN repo \ down |-> repo[g]])
<1>1. M!ProjectConstants
  BY WorldConstants
<1>2. PICK p \in Projects : repo = p[1]
  OBVIOUS
<1> DEFINE poms == p[1]
<1>3. /\ IsFiniteSet(DOMAIN poms)
      /\ \A g \in DOMAIN poms : poms[g].dm \in Seq(M!ToSet(poms[g].dm))
      /\ \A g \in DOMAIN poms : "" \notin DOMAIN poms[g].props
  BY <1>1 DEF M!ProjectConstants, M!IsFiniteSet, IsFiniteSet
<1> HIDE DEF poms
<1>4. \A q : M!ToSet(q) = P!ToSet(q)
  BY DEF M!ToSet, P!ToSet
<1>5. ASSUME NEW down, DOMAIN poms \ down # {}
      PROVE  Proper([g \in DOMAIN poms \ down |-> poms[g]])
  <2> DEFINE available == [g \in DOMAIN poms \ down |-> poms[g]]
  <2>1. DOMAIN available = DOMAIN poms \ down /\ \A g \in DOMAIN available : available[g] = poms[g]
    OBVIOUS
  <2>2. IsFiniteSet(DOMAIN poms \ down)
    BY <1>3, FS_Subset
  <2> HIDE DEF available
  <2>3. Proper(available)
    BY <1>3, <1>4, <1>5, <2>1, <2>2 DEF Proper
  <2> QED BY <2>3 DEF available
<1>6. MavenConstants
  BY <1>1 DEF M!ProjectConstants, MavenConstants
<1> QED BY <1>2, <1>5, <1>6 DEF poms

(* The expansion of a coordinate begins. *)
LEMMA MavenBegins == Init => (part = "maven" => MavenInv)
<1> SUFFICES ASSUME Init, part = "maven" PROVE MavenInv
  OBVIOUS
<1>1. M!Init
  BY DEF Init
<1> QED BY <1>1 DEF M!Init, MavenInv

(* What was resolved stays so, when more was seen or cached. *)
LEMMA StaysLatest ==
  ASSUME mavenSeen \cup mavenQueue \subseteq mavenSeen' \cup mavenQueue', cached \subseteq cached'
  PROVE  \A r : Latest(r) => Latest(r)'
<1> SUFFICES ASSUME NEW r, Latest(r) PROVE Latest(r)'
  OBVIOUS
<1>1. PICK available, leaf :
        /\ Proper(available) /\ leaf \in Poms(available)
        /\ r = [leaf |-> leaf, coords |-> M!ResolvePomDependencies(leaf, available).coords,
                available |-> available]
        /\ r.coords \subseteq mavenSeen \cup mavenQueue
        /\ M!Ascent(leaf, available).read \subseteq cached
  BY DEF Latest
<1>2. /\ r.coords \subseteq mavenSeen' \cup mavenQueue'
      /\ M!Ascent(leaf, available).read \subseteq cached'
  BY <1>1
<1> QED BY <1>1, <1>2 DEF Latest

(* A coordinate is expanded. *)
LEMMA MavenExpands ==
  ASSUME MavenInv, NEW c \in mavenQueue, M!Expand(c)
  PROVE  MavenInv'
<1> DEFINE g == <<c.a, c.v>>
           leaf == repo[g]
           Had(down) == [x \in DOMAIN repo \ down |-> repo[x]]
           Resolves(available) ==
             LET r == M!ResolvePomDependencies(leaf, available)
             IN /\ cached' = cached \cup {g} \cup r.read
                /\ mavenQueue' = (mavenQueue \cup r.coords) \ mavenSeen'
                /\ latest' = {[leaf |-> leaf, coords |-> r.coords, available |-> available]}
<1>1. /\ urls' = urls \cup M!Files(c) /\ mavenSeen' = mavenSeen \cup {c}
      /\ repo' = repo /\ mavenResult' = mavenResult
  BY DEF M!Expand
<1>2. PICK down : IF g \in DOMAIN Had(down) THEN Resolves(Had(down))
                  ELSE mavenQueue' = mavenQueue \ {c} /\ UNCHANGED <<cached, latest>>
  BY DEF M!Expand, M!PomFetch
<1>3. MavenConstants /\ \A x \in mavenSeen' : M!Files(x) \subseteq urls'
  BY <1>1, ProjectIsProper DEF MavenInv
<1> DEFINE available == Had(down)
<1>4. DOMAIN available = DOMAIN repo \ down /\ \A x \in DOMAIN available : available[x] = repo[x]
  OBVIOUS
<1>5. CASE g \in DOMAIN available
  <2>1. Proper(available) /\ leaf \in Poms(available)
    <3>1. DOMAIN repo \ down # {}
      BY <1>4, <1>5
    <3>2. Proper(available)
      BY <3>1, ProjectIsProper DEF MavenInv
    <3>3. leaf = available[g]
      BY <1>4, <1>5
    <3> HIDE DEF available, leaf, g
    <3> QED BY <1>5, <3>2, <3>3 DEF Poms
  <2>2. Resolves(available)
    BY <1>2, <1>5
  <2>3. PICK poms, pom : poms = available /\ pom = leaf
    OBVIOUS
  <2> DEFINE coords == M!ResolvePomDependencies(pom, poms).coords
             read == M!ResolvePomDependencies(pom, poms).read
             l == [leaf |-> pom, coords |-> coords, available |-> poms]
  <2>4. /\ cached' = cached \cup {g} \cup read /\ latest' = {l}
        /\ mavenQueue' = (mavenQueue \cup coords) \ mavenSeen'
    <3> HIDE DEF available, leaf, g
    <3> QED BY <2>2, <2>3
  <2>5. Proper(poms) /\ pom \in Poms(poms) /\ g \in DOMAIN repo
    BY <1>4, <1>5, <2>1, <2>3
  <2> HIDE DEF available, leaf, g, Resolves
  <2>6. read \subseteq DOMAIN poms /\ M!Ascent(pom, poms).read \subseteq read
    BY <1>3, <2>5, ResolvedAreKnown
  <2>7. Latest(l)'
    <3>1. l.coords \subseteq mavenSeen' \cup mavenQueue'
      BY <2>4
    <3>2. M!Ascent(pom, poms).read \subseteq cached'
      BY <2>4, <2>6
    <3> QED BY <2>5, <3>1, <3>2 DEF Latest
  <2> HIDE DEF coords, read, l
  <2>8. cached' \subseteq DOMAIN repo' /\ mavenQueue' \cap mavenSeen' = {}
    <3>1. DOMAIN poms \subseteq DOMAIN repo
      BY <1>4, <2>3
    <3>2. cached' \subseteq DOMAIN repo'
      BY <1>1, <2>4, <2>5, <2>6, <3>1 DEF MavenInv
    <3> QED BY <2>4, <3>2
  <2>9. (\E x : latest' = {x} /\ Latest(x)')
    BY <2>4, <2>7
  <2> QED BY <1>1, <1>3, <2>8, <2>9 DEF MavenInv
<1>6. CASE g \notin DOMAIN available
  <2>1. mavenQueue' = mavenQueue \ {c} /\ cached' = cached /\ latest' = latest
    BY <1>2, <1>6
  <2>2. \A l : Latest(l) => Latest(l)'
    BY <1>1, <2>1, StaysLatest
  <2> QED BY <1>1, <1>3, <2>1, <2>2 DEF MavenInv
<1> QED BY <1>5, <1>6

(* A step of the expansion of a coordinate keeps what is known of it. *)
LEMMA MavenStep ==
  ASSUME MavenInv, M!Next
  PROVE  MavenInv'
<1>1. CASE M!Finish
  <2>1. UNCHANGED <<repo, mavenQueue, mavenSeen, urls, cached, latest>> /\ mavenResult' = "done"
    BY <1>1 DEF M!Finish
  <2>2. \A r : Latest(r) => Latest(r)'
    BY <2>1, StaysLatest
  <2> QED BY <2>1, <2>2 DEF MavenInv
<1> QED BY <1>1, MavenExpands DEF M!Next

(* What is known of an expansion says that versions are the nearest and prefetched. *)
LEMMA MavenIsPrefetched ==
  ASSUME MavenInv
  PROVE  M!TypeOK /\ M!NearestVersionIsPrefetched
<1>1. MavenConstants
  BY ProjectIsProper DEF MavenInv
<1>2. M!TypeOK
  <2>1. Cardinality(latest) <= 1
    <3>1. CASE latest = {}
      BY <3>1, FS_EmptySet
    <3>2. ASSUME NEW r, latest = {r} PROVE Cardinality(latest) <= 1
      <4>1. Cardinality({r}) = 1
        BY FS_Singleton
      <4> QED BY <3>2, <4>1
    <3> QED BY <3>1, <3>2 DEF MavenInv
  <2>2. M!Cardinality(latest) = Cardinality(latest)
    BY DEF M!Cardinality, Cardinality
  <2> QED BY <2>1, <2>2 DEF MavenInv, M!TypeOK
<1>3. ASSUME NEW r \in latest
      PROVE  LET spent == M!Managed(M!Chain(r.leaf, r.available), r.available).budget = 0
                 key(d) == <<d.a, M!TypeOf(d), d.cls>>
             IN /\ \A d \in M!ToSet(r.leaf.deps) :
                     /\ d.v = "" /\ M!Wanted(d) /\ ~M!includeManaged(r.leaf) /\ ~spent
                     /\ \A e \in M!ToSet(r.leaf.deps) : key(e) = key(d) => e = d
                     => {x.v : x \in {y \in r.coords : <<y.a, y.typ, y.cls>> = key(d)}}
                          = {M!Nearest(r.leaf, d, r.available)} \ {""}
                /\ \A x \in r.coords : M!Known(x.v) /\ x \in mavenSeen \cup mavenQueue
                /\ M!Ascent(r.leaf, r.available).read \subseteq cached
  <2>1. Latest(r)
    BY <1>3 DEF MavenInv
  <2>2. PICK available, leaf :
          /\ Proper(available) /\ leaf \in Poms(available)
          /\ r = [leaf |-> leaf, coords |-> M!ResolvePomDependencies(leaf, available).coords,
                  available |-> available]
          /\ r.coords \subseteq mavenSeen \cup mavenQueue
          /\ M!Ascent(leaf, available).read \subseteq cached
    BY <2>1 DEF Latest
  <2> DEFINE coords == M!ResolvePomDependencies(leaf, available).coords
  <2>3. r.leaf = leaf /\ r.available = available /\ r.coords = coords
    BY <2>2
  <2>4. \A x \in r.coords : M!Known(x.v)
    BY <1>1, <2>2, <2>3, ResolvedAreKnown
  <2>5. ASSUME NEW d \in M!ToSet(leaf.deps), d.v = "", M!Wanted(d), ~M!includeManaged(leaf),
               M!Managed(M!Chain(leaf, available), available).budget # 0,
               \A e \in M!ToSet(leaf.deps) : KeyOf(e) = KeyOf(d) => e = d
        PROVE  {x.v : x \in {y \in coords : <<y.a, y.typ, y.cls>> = KeyOf(d)}}
                 = {M!Nearest(leaf, d, available)} \ {""}
    BY <1>1, <2>2, <2>5, NearestIsAskedFor
  <2> HIDE DEF coords
  <2> QED BY <2>2, <2>3, <2>4, <2>5 DEF KeyOf
<1>4. mavenResult = "done" => \A c \in mavenSeen : M!Files(c) \subseteq urls
  BY DEF MavenInv
<1>5. M!NearestVersionIsPrefetched
  BY <1>3, <1>4 DEF M!NearestVersionIsPrefetched
<1> QED BY <1>2, <1>5

(* In every repository, whichever POMs cannot be had: a version that is left out is that of *)
(* the nearest POM that manages the dependency, unless the budget for BOMs is spent; what a *)
(* POM asks for is expanded in its turn; what was read on the way is in the cache; and the *)
(* list that an expansion ends with has every file. *)
THEOREM NearestVersionIsPrefetchedHolds == Spec => []NearestVersionIsPrefetched
<1> DEFINE Inv == part = "maven" => MavenInv
<1>1. Init => Inv
  BY MavenBegins
<1>2. ASSUME Inv, [Next]_vars PROVE Inv'
  <2>1. CASE UNCHANGED vars
    <3>1. UNCHANGED <<part, repo, mavenQueue, mavenSeen, urls, cached, mavenResult, latest>>
      BY <2>1 DEF vars, maven
    <3>2. \A r : Latest(r) => Latest(r)'
      BY <3>1, StaysLatest
    <3> QED BY <1>2, <3>1, <3>2 DEF MavenInv
  <2>2. CASE Only("maven", M!Next)
    <3>1. part = "maven" /\ part' = part /\ M!Next
      BY <2>2 DEF Only
    <3> QED BY <1>2, <3>1, MavenStep
  <2>3. CASE \/ Only("update", U!Next) \/ Only("lease", L!Next) \/ Only("token", T!Next)
             \/ Only("config", C!Next) \/ Only("catalog", G!Next) \/ Only("pypi", P!Next)
             \/ Only("npm", J!Next)
    <3>1. part' = part /\ part # "maven"
      BY <2>3 DEF Only
    <3> QED BY <3>1
  <2> QED BY <1>2, <2>1, <2>2, <2>3 DEF Next
<1>3. Inv => NearestVersionIsPrefetched
  BY MavenIsPrefetched DEF NearestVersionIsPrefetched
<1> QED BY <1>1, <1>2, <1>3, PTL DEF Spec
=============================================================================
