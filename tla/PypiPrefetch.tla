---------------------------- MODULE PypiPrefetch ----------------------------
(* platform/pypi/prefetch.go with handlers/pypi/markers.go: a requirement  *)
(* is expanded into the files that a prefetch downloads, its dependencies  *)
(* first come first served.                                                *)
(*                                                                         *)
(* The world of an expansion is [index, requires, targets, policy]: the    *)
(* links of every package's index, the Requires-Dist of its metadata by    *)
(* version, the python and platform targets, the policy of FilterArtifacts.*)
(* A requirement is [name, cs, marker, readable], not readable if its      *)
(* constraints are in parentheses, which ParseRequirement refuses; a       *)
(* marker is [or, extra, atoms] with atoms [key, op, minor, name]: python  *)
(* 3.`minor`, or a platform's name.                                        *)
EXTENDS PypiSelect, FiniteSets

CONSTANTS Worlds,       \* pairs of a world and the requirement that is expanded
          Implausible   \* names that are no package's: platform words, numbers

VARIABLES
  world,
  root,     \* the item
  queue,    \* [req, depth]
  seen,     \* seenPkg
  urls,     \* allURLs
  result,   \* "running", "done" or "error"
  taken     \* history: the packages that were looked up, with what was found

(* What the worlds consist of *)
WorldConstants ==
  \A w \in Worlds :
    /\ w[2].name \in DOMAIN w[1].index \cup Implausible
    /\ \A p \in DOMAIN w[1].index :
         LET links == w[1].index[p] IN
         /\ links \in Seq(ToSet(links))
         /\ \A f \in ToSet(links) : Parsable(fileVersion(f)) => Spelled(fileVersion(f))
         /\ \A f \in {g \in ToSet(links) : g.kind \in {"wheel", "none-any"}} :
              LET requires == w[1].requires[f.name][f.ver] IN
              /\ requires \in Seq(ToSet(requires))
              /\ \A d \in ToSet(requires) : d.name \in DOMAIN w[1].index \cup Implausible

vars == <<world, root, queue, seen, urls, result, taken>>

-----------------------------------------------------------------------------
(* EvalMarker *)
markerSysPlatform(plat) ==
  CASE plat \in {"win32", "win-arm"} -> "win32"
    [] plat \in {"darwin", "darwin-arm"} -> "darwin"
    [] OTHER -> "linux"

cmpVersion(have, op, want) ==
  CASE op = "==" -> have = want
    [] op = "!=" -> have # want
    [] op = "<" -> have < want
    [] op = "<=" -> have <= want
    [] op = ">" -> have > want
    [] op = ">=" -> have >= want

(* The comparisons the code knows, in the order it looks for them; any     *)
(* other atom (a target says nothing of it) holds                          *)
Keys == <<"python_version", "python_full_version", "sys_platform", "platform_system">>
Compares(atom, py, plat) ==
  IF atom.key \in {"python_version", "python_full_version"}
  THEN cmpVersion(py, atom.op, atom.minor)
  ELSE atom.key \in ToSet(Keys) =>
         CASE atom.op = "==" -> markerSysPlatform(plat) = atom.name
           [] atom.op = "!=" -> markerSysPlatform(plat) # atom.name

(* Of several atoms the first comparison is looked at, and only if it is   *)
(* of the key that was looked for                                          *)
evalMarkerAtom(atoms, py, plat) ==
  LET key == SelectInSeq(Keys, LAMBDA k : \E i \in DOMAIN atoms : atoms[i].key = k)
      first == SelectInSeq(atoms, LAMBDA a : a.key \in ToSet(Keys))
  IN key # 0 /\ atoms[first].key = Keys[key] => Compares(atoms[first], py, plat)

(* splitMarkerAnd leaves a marker with an `or` whole *)
evalMarkerForPython(m, py, plat) ==
  IF m.or THEN evalMarkerAtom(m.atoms, py, plat)
  ELSE \A i \in DOMAIN m.atoms : evalMarkerAtom(<<m.atoms[i]>>, py, plat)

(* Mutant: one target must have all *)
EvalMarkerForAll(m, targets) ==
  ~m.extra /\ \A py \in targets.py, plat \in targets.plats : evalMarkerForPython(m, py, plat)

EvalMarker(m, targets) ==
  ~m.extra /\ \E py \in targets.py, plat \in targets.plats : evalMarkerForPython(m, py, plat)

-----------------------------------------------------------------------------
(* resolvePackageFiles: no file for every error *)
resolvePackageFiles(req) ==
  FilterArtifacts(SelectFiles(world.index[req.name], req.cs).files, world.policy)

(* pickMetadataURL: a wheel's, of any platform if there is one *)
pickMetadata(files) ==
  LET any == SelectInSeq(files, LAMBDA f : f.kind = "none-any")
      wheel == SelectInSeq(files, LAMBDA f : f.kind = "wheel")
  IN IF any # 0 THEN files[any] ELSE IF wheel # 0 THEN files[wheel] ELSE None

(* fetchRequires, then the markers; what cannot be read is dropped *)
Dependencies(file) ==
  IF file = None THEN <<>>
  ELSE LET requires == world.requires[file.name][file.ver]
       IN Where(requires, {d \in ToSet(requires) : d.readable /\ EvalMarker(d.marker, world.targets)})

-----------------------------------------------------------------------------
Init ==
  /\ \E w \in Worlds : world = w[1] /\ root = w[2]
  /\ queue = <<[req |-> root, depth |-> 0]>>
  /\ seen = {} /\ urls = <<>> /\ result = "running" /\ taken = <<>>

cur == Head(queue)
Fresh == cur.req.readable /\ cur.req.name \notin Implausible \cup seen

(* No requirement, or no package's name, or one that was looked up before *)
Skip ==
  /\ result = "running" /\ queue # <<>> /\ ~Fresh
  /\ IF cur.depth = 0 THEN result' = "error" ELSE UNCHANGED result
  /\ queue' = Tail(queue)
  /\ UNCHANGED <<world, root, seen, urls, taken>>

(* One package: its index, or nothing if that cannot be had; then its      *)
(* dependencies, or nothing if the metadata cannot                         *)
Expand ==
  /\ result = "running" /\ queue # <<>> /\ Fresh
  /\ \E files \in {resolvePackageFiles(cur.req), <<>>} :
     \E deps \in {Dependencies(pickMetadata(files)), <<>>} :
       /\ seen' = seen \cup {cur.req.name}
       /\ urls' = Distinct(urls \o files)
       /\ queue' = Tail(queue) \o [i \in DOMAIN deps |-> [req |-> deps[i], depth |-> cur.depth + 1]]
       /\ taken' = Append(taken, [req |-> cur.req, depth |-> cur.depth, files |-> files, deps |-> deps])
       /\ result' = IF files = <<>> /\ cur.depth = 0 THEN "error" ELSE "running"
  /\ UNCHANGED <<world, root>>

Finish ==
  /\ result = "running" /\ queue = <<>> /\ result' = "done"
  /\ UNCHANGED <<world, root, queue, seen, urls, taken>>

Next == Skip \/ Expand \/ Finish
Spec == Init /\ [][Next]_vars

-----------------------------------------------------------------------------
(* Properties *)

TypeOK ==
  /\ result \in {"running", "done", "error"}
  /\ seen \subseteq DOMAIN world.index
  /\ \A i \in DOMAIN queue : queue[i].depth \in Nat
  /\ IsInjective(urls)

(* PEP 440's order of public versions (without what follows a "+"), from   *)
(* its sort keys: a release without its trailing zeros, then its labels    *)
Significant(r) == SubSeq(r, 1, LET I == {i \in DOMAIN r : r[i] # 0} IN
                                 IF I = {} THEN 0 ELSE CHOOSE i \in I : \A j \in I : j <= i)
PepKey(v) ==
  <<IF v.pre # 0 THEN v.pre ELSE IF v.post < 0 /\ v.dev >= 0 THEN 0 ELSE Final, v.num, v.post,
    IF v.dev < 0 THEN 1 ELSE 0, v.dev>>
Before(s, t) ==     \* lexicographically; a prefix comes first
  \/ IsStrictPrefix(s, t)
  \/ \E i \in DOMAIN s \cap DOMAIN t : s[i] < t[i] /\ \A j \in 1..(i - 1) : s[j] = t[j]
PepBefore(v, w) ==
  LET a == Significant(v.release)
      b == Significant(w.release)
  IN \/ v.epoch < w.epoch
     \/ v.epoch = w.epoch /\ (Before(a, b) \/ (a = b /\ Before(PepKey(v), PepKey(w))))

(* The dev releases of a post release of a final one, which the code puts  *)
(* before the pre-releases                                                 *)
DevOfPost(v) == v.dev >= 0 /\ v.post >= 0 /\ v.pre = 0

(* A requirement gets the highest version that satisfies it: the code's    *)
(* comparison is PEP 440's but for dev releases of post releases and local *)
(* segments, which it ignores, whatever zeros a release is written with    *)
(* and wherever its labels end; `==` means neither before nor after; of    *)
(* the versions that satisfy a requirement none is higher than the chosen  *)
(* one; and no other version's file comes with it.                         *)
SelectedIsHighest ==
  \A n \in DOMAIN taken :
    LET links == world.index[taken[n].req.name]
        vs == {ParseVersion(fileVersion(links[i])) : i \in {j \in DOMAIN links : Parsable(fileVersion(links[j]))}}
        chosen == {ParseVersion(fileVersion(f)) : f \in ToSet(taken[n].files)}
    IN /\ \A v, w \in vs :
            /\ ~DevOfPost(v) /\ ~DevOfPost(w) =>
                 Compare(v, w) = IF PepBefore(v, w) THEN -1 ELSE IF PepBefore(w, v) THEN 1 ELSE 0
            /\ equalPublic(v, w) <=> Compare(v, w) = 0
       /\ Cardinality(chosen) <= 1
       /\ \A v \in chosen, w \in vs :
            /\ Satisfy(v, taken[n].req.cs)
            /\ Satisfy(w, taken[n].req.cs) /\ ~DevOfPost(v) /\ ~DevOfPost(w) => ~PepBefore(v, w)

(* What PEP 508 says of a marker in one environment *)
Needed(m, py, plat) ==
  IF m.or THEN \E i \in DOMAIN m.atoms : Compares(m.atoms[i], py, plat)
  ELSE \A i \in DOMAIN m.atoms : Compares(m.atoms[i], py, plat)

NeededSomewhere(m) ==
  ~m.extra /\ \E py \in world.targets.py, plat \in world.targets.plats : Needed(m, py, plat)

(* The expansion visits a graph of requirements that may run in circles,   *)
(* whatever indexes and metadata fail on the way: every package is looked  *)
(* up once, nearest first; what a package that was found needs on some     *)
(* target, and (but for markers with an `or`) nothing else, is looked up   *)
(* too, if its requirement can be read; and only the item itself can fail  *)
(* the whole.                                                              *)
ClosureIsPrefetched ==
  LET nodes == [n \in DOMAIN taken |-> [req |-> taken[n].req, depth |-> taken[n].depth]] \o queue
  IN /\ \A i, j \in DOMAIN taken : i # j => taken[i].req.name # taken[j].req.name
     /\ \A i, j \in DOMAIN nodes : i < j => nodes[i].depth <= nodes[j].depth
     /\ \A n \in DOMAIN taken :
          LET file == pickMetadata(taken[n].files) IN
          taken[n].deps # <<>> =>
            \A d \in ToSet(world.requires[file.name][file.ver]) : ~d.marker.or =>
              ((d \in ToSet(taken[n].deps)) <=> (d.readable /\ NeededSomewhere(d.marker)))
     /\ \A n \in DOMAIN taken : \A d \in ToSet(taken[n].deps) :
          d.name \in Implausible \/ \E i \in DOMAIN nodes :
            nodes[i].req.name = d.name /\ nodes[i].depth <= taken[n].depth + 1
     /\ result = "done" => urls # <<>> /\ ToSet(urls) = UNION {ToSet(taken[n].files) : n \in DOMAIN taken}
     /\ result = "error" => Len(taken) <= 1
=============================================================================
