---------------------------- MODULE NpmPrefetch ----------------------------
(* handlers/npm/packagejson.go with platform/npm/prefetch.go: a package    *)
(* and a range of its versions are expanded into the tarballs of all that  *)
(* it depends on.                                                          *)
(*                                                                         *)
(* A version is [n, pre]: `n` its three numbers, `pre` 0 or the place of   *)
(* its pre-release text in the order of bytes.  A spec is [kind, name,     *)
(* alts]: a "tag" with its name, or a "range" of alternatives, each a set  *)
(* of clauses [op, base], or "other" for files, links, repositories or ""; *)
(* a missing part of a base is 0, as the code reads it.  A registry maps a *)
(* package to [versions, tags, deps], `deps` by version, names to specs.   *)
EXTENDS Naturals, SequencesExt, FiniteSets

CONSTANTS Registries,   \* pairs of a registry and the item expanded
          None

VARIABLES
  registry,
  root,     \* the item: [name, spec]
  queue,    \* a sequence of sets: dependencies are queued in a map's order
  seen,     \* seenPkg
  urls,     \* the tarballs, by package and version
  cached,   \* the packuments handed to the cache on the way
  result,   \* "running", "done", "error", or "silent": waiting for ever
  taken     \* history: the packages looked up, with what was found

(* What the two consist of *)
Versions == [n : Nat \X Nat \X Nat, pre : Nat]
Clauses(spec) ==
  \A alt \in spec.alts : \A c \in alt :
    /\ c.op \in {"*", "^", "~", ">=", "<=", ">", "<", "=", "?"}
    /\ c.op # "*" => c.base \in Versions
RegistryConstants ==
  \A r \in Registries :
    /\ Clauses(r[2].spec)
    /\ \A p \in DOMAIN r[1] :
         /\ r[1][p].versions \subseteq Versions /\ IsFiniteSet(r[1][p].versions)
         /\ None \notin r[1][p].versions /\ None \notin DOMAIN r[1][p].tags
         /\ \A v \in r[1][p].versions : \A d \in DOMAIN r[1][p].deps[v] :
              Clauses(r[1][p].deps[v][d])

vars == <<registry, root, queue, seen, urls, cached, result, taken>>

-----------------------------------------------------------------------------
npmVersionLess(a, b) ==
  LET i == SelectInSeq(<<1, 2, 3>>, LAMBDA k : a.n[k] # b.n[k])
  IN IF i # 0 THEN a.n[i] < b.n[i] ELSE a.pre # 0 /\ (b.pre = 0 \/ a.pre < b.pre)

(* "?" is what the code cannot read, like a range with a hyphen *)
npmVersionSatisfiesOne(v, c) ==
  CASE c.op = "*" -> v.pre = 0
    [] c.op = "^" -> v.n[1] = c.base.n[1] /\ ~npmVersionLess(v, c.base)
    [] c.op = "~" -> /\ SubSeq(v.n, 1, 2) = SubSeq(c.base.n, 1, 2)
                     /\ ~npmVersionLess(v, c.base)
    [] c.op = ">=" -> ~npmVersionLess(v, c.base)
    [] c.op = "<=" -> ~npmVersionLess(c.base, v)
    [] c.op = ">" -> npmVersionLess(c.base, v)
    [] c.op = "<" -> npmVersionLess(v, c.base)
    [] c.op = "=" -> v = c.base
    [] c.op = "?" -> FALSE

(* A pre-release counts if the range has a hyphen anywhere *)
npmVersionSatisfies(v, spec) ==
  /\ v.pre # 0 => \E alt \in spec.alts : \E c \in alt : c.op # "*" /\ c.base.pre # 0
  /\ \E alt \in spec.alts : \A c \in alt : npmVersionSatisfiesOne(v, c)

(* A tag, then any version at all, which is the latest, then the highest *)
pickNPMVersion(spec, doc) ==
  LET tag == IF spec.kind = "tag" THEN spec.name
             ELSE IF spec.alts = {{[op |-> "*", base |-> None]}} THEN "latest" ELSE None
      matching == {v \in doc.versions : npmVersionSatisfies(v, spec)}
  IN IF tag \in DOMAIN doc.tags /\ doc.tags[tag] \in doc.versions THEN doc.tags[tag]
     ELSE IF matching = {} THEN None
     ELSE CHOOSE v \in matching : \A w \in matching : ~npmVersionLess(v, w)

isRegistryVersionSpec(spec) == spec.kind # "other"

(* The dependencies that are queued *)
Dependencies(name, ver, visited) ==
  LET deps == registry[name].deps[ver]
  IN {[name |-> d, spec |-> deps[d]] :
        d \in {e \in DOMAIN deps \ visited : isRegistryVersionSpec(deps[e])}}

-----------------------------------------------------------------------------
Init ==
  /\ \E r \in Registries : registry = r[1] /\ root = r[2]
  /\ queue = <<{root}>> /\ seen = {} /\ urls = {} /\ cached = {}
  /\ result = "running" /\ taken = {}

Rest(ref) == IF Head(queue) = {ref} THEN Tail(queue) ELSE <<Head(queue) \ {ref}>> \o Tail(queue)

Skip(ref) ==
  /\ ref.name \in seen
  /\ queue' = Rest(ref)
  /\ UNCHANGED <<registry, root, seen, urls, cached, result, taken>>

Fruitless(ref) ==
  /\ ref.name \notin seen
  /\ queue' = Rest(ref) /\ seen' = seen \cup {ref.name}
  /\ taken' = taken \cup {[ref |-> ref, ver |-> None, read |-> FALSE]}
  /\ UNCHANGED <<registry, root, urls>>

(* The packument cannot be had; or it can, and is cached, but cannot be    *)
(* read or lacks the tarball                                               *)
Unavailable(ref) ==
  /\ Fruitless(ref)
  /\ cached' \in {cached} \cup {cached \cup {n} : n \in {ref.name} \cap DOMAIN registry}
  /\ UNCHANGED result

(* The packument's body stops without an end: readProxyBody reads it       *)
(* without a limit of time, and the context is the program's               *)
Silent(ref) == Fruitless(ref) /\ result' = "silent" /\ UNCHANGED cached

Expand(ref) ==
  /\ ref.name \in DOMAIN registry \ seen
  /\ seen' = seen \cup {ref.name} /\ cached' = cached \cup {ref.name}
  /\ LET ver == pickNPMVersion(ref.spec, registry[ref.name])
         deps == IF ver = None THEN {} ELSE Dependencies(ref.name, ver, seen')
     IN /\ urls' = IF ver = None THEN urls ELSE urls \cup {<<ref.name, ver>>}
        /\ queue' = Rest(ref) \o (IF deps = {} THEN <<>> ELSE <<deps>>)
        /\ taken' = taken \cup {[ref |-> ref, ver |-> ver, read |-> TRUE]}
  /\ UNCHANGED <<registry, root, result>>

Finish ==
  /\ result = "running" /\ queue = <<>>
  /\ result' = IF urls = {} THEN "error" ELSE "done"
  /\ UNCHANGED <<registry, root, queue, seen, urls, cached, taken>>

Round ==
  /\ result = "running" /\ queue # <<>>
  /\ \E ref \in Head(queue) : Skip(ref) \/ Unavailable(ref) \/ Silent(ref) \/ Expand(ref)
Next == Round \/ Finish
Spec == Init /\ [][Next]_vars

-----------------------------------------------------------------------------
(* Properties *)

TypeOK ==
  /\ result \in {"running", "done", "error", "silent"}
  /\ \A i \in DOMAIN queue : queue[i] # {}
  /\ cached \subseteq seen \cap DOMAIN registry

(* Semver: a version is below another if it is so at the first of these    *)
(* places where they differ; a pre-release lies below its version.          *)
Place(maj, min, pat, pre) == <<maj, min, pat, IF pre = 0 THEN 1 ELSE 0, pre>>
PlaceOf(v) == Place(v.n[1], v.n[2], v.n[3], v.pre)
Below(s, t) == \E i \in 1..5 : s[i] < t[i] /\ \A j \in 1..(i - 1) : s[j] = t[j]
Zero(maj, min) == <<maj, min, 0, 0, 0>>    \* below every version that begins like that

(* Ranges are intervals *)
Within(v, c) ==
  LET p == PlaceOf(v)
      b == PlaceOf(c.base)
  IN CASE c.op = "^" -> ~Below(p, b) /\ Below(p, Zero(c.base.n[1] + 1, 0))
       [] c.op = "~" -> ~Below(p, b) /\ Below(p, Zero(c.base.n[1], c.base.n[2] + 1))
       [] c.op = ">=" -> ~Below(p, b)
       [] c.op = ">" -> Below(b, p)
       [] c.op = "<=" -> ~Below(b, p)
       [] c.op = "<" -> Below(p, b)
       [] c.op = "=" -> p = b
Readable(spec) ==    \* npm reads a caret before 1.0.0 otherwise
  \A alt \in spec.alts : \A c \in alt :
    c.op \notin {"*", "?"} /\ ~(c.op = "^" /\ c.base.n[1] = 0)

(* Of a range that both read alike, the highest version in one of its      *)
(* alternatives is taken, a pre-release only if the range names one; and   *)
(* nothing is found only where nothing, but pre-releases, is in the range. *)
SelectedIsHighest ==
  \A t \in {u \in taken : u.read /\ u.ref.spec.kind = "range" /\ Readable(u.ref.spec)} :
    LET alts == t.ref.spec.alts
        names == \E alt \in alts : \E c \in alt : c.base.pre # 0
        within(v) == \E alt \in alts : \A c \in alt : Within(v, c)
        good == {v \in registry[t.ref.name].versions : within(v) /\ (v.pre = 0 \/ names)}
    IN IF t.ver = None THEN good = {}
       ELSE t.ver \in good /\ \A v \in good : ~Below(PlaceOf(t.ver), PlaceOf(v))

(* Dependencies run in circles, are queued in any order and may fail to    *)
(* load: every package is looked up once, for the root or for somebody who *)
(* needs it; what a found version needs of the registry is looked up or    *)
(* waits for it; the tarballs are those of the found versions, each from   *)
(* a packument given to the cache, and only an expansion without any       *)
(* fails.                                                                  *)
ClosureIsPrefetched ==
  LET waiting == UNION ToSet(queue)
      found == {t \in taken : t.ver # None}
      needs(t) == registry[t.ref.name].deps[t.ver]
  IN /\ \A t, u \in taken : t.ref.name = u.ref.name => t = u
     /\ \A r \in {t.ref : t \in taken} \cup waiting :
          r = root \/ \E u \in found : r.name \in DOMAIN needs(u) /\ needs(u)[r.name] = r.spec
     /\ \A t \in found : \A d \in DOMAIN needs(t) :
          isRegistryVersionSpec(needs(t)[d]) =>
            d \in {u.ref.name : u \in taken} \cup {r.name : r \in waiting}
     /\ urls = {<<t.ref.name, t.ver>> : t \in found} /\ {t.ref.name : t \in found} \subseteq cached
     /\ result \in {"done", "error"} => queue = <<>> /\ (result = "error" <=> found = {})
=============================================================================
