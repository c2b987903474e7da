--------------------------- MODULE MavenPrefetch ---------------------------
(* handlers/maven/pom_resolve.go with platform/maven/prefetch.go: a        *)
(* coordinate is expanded into the POMs and artifacts of everything it     *)
(* depends on.  The versions that a POM leaves out are those of its        *)
(* parents and of the BOMs these import.                                   *)
(*                                                                         *)
(* An artifact (group and name) and a version are strings; a reference     *)
(* like "${v}" is one of Refs, "" is what is missing.  A POM is            *)
(* [v, packaging, parent, props, dm, deps]: `parent` is [a, v], `props` a  *)
(* function of references, `dm` and `deps` sequences of dependencies       *)
(* [a, v, scope, typ, cls, opt], types and scopes in lower case.           *)
EXTENDS Naturals, SequencesExt, FiniteSets

CONSTANTS Projects,         \* pairs of a repository and the coordinate expanded
          Refs,
          MaxParentDepth,   \* 8 in the code
          MaxBOMImports     \* 24 in the code

VARIABLES
  repo,      \* the POM of an artifact's version <<a, v>>
  queue,     \* coordinates; their order is of no effect
  seen,
  urls,      \* the files to prefetch, a POM's type being "pom"
  cached,    \* the POMs handed to the cache on the way
  result,    \* "running" or "done"
  latest     \* history: what a POM was resolved to last

vars == <<repo, queue, seen, urls, cached, result, latest>>

(* What the repositories consist of *)
ProjectConstants ==
  /\ MaxParentDepth \in Nat /\ MaxBOMImports \in Nat
  /\ \A p \in Projects :
       /\ IsFiniteSet(DOMAIN p[1])
       /\ \A g \in DOMAIN p[1] :
            p[1][g].dm \in Seq(ToSet(p[1][g].dm)) /\ "" \notin DOMAIN p[1][g].props

-----------------------------------------------------------------------------
(* What f knows, and of the rest what g knows *)
Over(f, g) == [x \in DOMAIN f \cup DOMAIN g |-> IF x \in DOMAIN f THEN f[x] ELSE g[x]]

(* flattenProps: eight rounds, each of which replaces a reference by what  *)
(* it stands for.  resolveProps leaves what nothing is known of.           *)
flattenProps(props) ==
  LET twice(f) == [r \in DOMAIN f |-> IF f[r] \in DOMAIN f THEN f[f[r]] ELSE f[r]]
  IN twice(twice(twice(props)))
resolveProps(s, props) == IF s \in DOMAIN props THEN flattenProps(props)[s] ELSE s
Known(s) == s # "" /\ s \notin Refs

(* The mirror fetches a POM, if it can be had this time, and hands it to   *)
(* the cache                                                               *)
PomFetch(g, available) == g \in DOMAIN available

(* The chain of a POM and its parents, with the properties that resolve    *)
(* the parents' coordinates, a child's before its parent's, and the POMs   *)
(* that were read                                                          *)
Ascent(leaf, available) ==
  LET climb(c) ==
        LET p == Last(c.poms).parent
            up == <<resolveProps(p.a, c.props), resolveProps(p.v, c.props)>>
        IN IF Known(up[1]) /\ Known(up[2]) /\ PomFetch(up, available)
           THEN [poms |-> Append(c.poms, available[up]),
                 props |-> flattenProps(Over(c.props, available[up].props)),
                 read |-> c.read \cup {up}]
           ELSE c
      after[i \in 0..MaxParentDepth] ==
        IF i = 0 THEN [poms |-> <<leaf>>, props |-> flattenProps(leaf.props), read |-> {}]
        ELSE climb(after[i - 1])
  IN after[MaxParentDepth]
Chain(leaf, available) == Ascent(leaf, available).poms

(* inheritProjectCoords: the version of the nearest that has one, or names *)
(* its parent's                                                            *)
InheritedVersion(chain) ==
  LET vs == FoldLeft(LAMBDA s, p : s \o <<p.v, p.parent.v>>, <<>>, chain)
      i == SelectInSeq(vs, LAMBDA v : v # "")
  IN IF i = 0 THEN "" ELSE vs[i]

WithVersion(props, v) ==
  IF v = "" THEN props ELSE Over([r \in {"${project.version}"} |-> v], props)

(* mergePomProps: the nearest counts *)
MergedProps(chain) ==
  LET nearest(r) == Min({i \in DOMAIN chain : r \in DOMAIN chain[i].props})
      merged == [r \in UNION {DOMAIN p.props : p \in ToSet(chain)} |-> chain[nearest(r)].props[r]]
  IN flattenProps(WithVersion(merged, InheritedVersion(chain)))

-----------------------------------------------------------------------------
(* applyDependencyManagement: the table of managed versions by artifact,   *)
(* type and classifier.  A later entry replaces an earlier one, an         *)
(* imported BOM's entries count where it is imported; BOMs may import      *)
(* BOMs, even each other, until the budget is spent.  A BOM's parents are  *)
(* not looked at.                                                          *)
TypeOf(d) == IF d.typ = "" THEN "jar" ELSE d.typ
IsImport(d) == d.scope = "import" /\ d.typ \in {"", "pom"}

NoTable == [managed |-> <<>>, budget |-> MaxBOMImports, read |-> {}, todo |-> <<>>]

(* The entries of a POM, each with the properties that resolve it *)
Entries(pom, props) == [i \in DOMAIN pom.dm |-> [d |-> pom.dm[i], props |-> props]]

(* An imported BOM's entries come before those that follow the import *)
import(t, d, v, props, available) ==
  LET bom == available[<<d.a, v>>]
      bomProps == flattenProps(WithVersion(Over(props, bom.props), IF bom.v = "" THEN v ELSE bom.v))
  IN IF ~Known(v) \/ t.budget = 0 THEN t
     ELSE IF ~PomFetch(<<d.a, v>>, available) THEN [t EXCEPT !.budget = @ - 1]
     ELSE [t EXCEPT !.budget = @ - 1, !.read = @ \cup {<<d.a, v>>},
                    !.todo = Entries(bom, bomProps) \o @]

entry(t, available) ==
  LET d == Head(t.todo).d
      v == resolveProps(d.v, Head(t.todo).props)
      rest == [t EXCEPT !.todo = Tail(@)]
      key == <<d.a, TypeOf(d), d.cls>>
  IN IF t.todo = <<>> THEN t
     ELSE IF IsImport(d) THEN import(rest, d, v, Head(t.todo).props, available)
     ELSE IF Known(v) THEN [rest EXCEPT !.managed = Over([k \in {key} |-> v], @)]
     ELSE rest

(* As many entries as there can be *)
Entered(available) ==
  (MaxBOMImports + 1) * Max({Len(available[g].dm) : g \in DOMAIN available})

applyDependencyManagement(pom, props, table, available) ==
  LET after[i \in 0..Entered(available)] ==
        IF i = 0 THEN [table EXCEPT !.todo = Entries(pom, props)] ELSE entry(after[i - 1], available)
  IN after[Entered(available)]

(* Mutant: near to far *)
ManagedBackwards(chain, available) ==
  LET upTo[i \in 0..Len(chain)] ==
        IF i = 0 THEN NoTable
        ELSE applyDependencyManagement(chain[i], MergedProps(chain), upTo[i - 1], available)
  IN upTo[Len(chain)]

(* Far to near, so that the nearest counts *)
Managed(chain, available) ==
  LET from[i \in 1..(Len(chain) + 1)] ==
        IF i = Len(chain) + 1 THEN NoTable
        ELSE applyDependencyManagement(chain[i], MergedProps(chain), from[i + 1], available)
  IN from[1]

-----------------------------------------------------------------------------
SkipPrefetchPackaging(typ) == typ \in {"test-jar", "java-source", "javadoc"}
SkipPrefetchClassifier(cls) == cls \in {"tests", "test", "sources", "javadoc"}

VersionOf(d, props, managed) ==
  LET v == resolveProps(d.v, props)
      key == <<d.a, TypeOf(d), d.cls>>
  IN IF v = "" /\ key \in DOMAIN managed THEN managed[key] ELSE v

(* appendResolved, and what ExpandPrefetchItem takes of it *)
Wanted(d) ==
  /\ d.scope \in {"", "compile", "runtime"} /\ ~d.opt
  /\ ~SkipPrefetchPackaging(TypeOf(d)) /\ ~SkipPrefetchClassifier(d.cls)

Coordinates(ds, props, managed) ==
  {[a |-> d.a, v |-> VersionOf(d, props, managed), typ |-> TypeOf(d), cls |-> d.cls] :
     d \in {e \in ds : Wanted(e) /\ Known(VersionOf(e, props, managed))}}

(* ResolvePomDependencies.  A BOM, or a POM that only manages versions,    *)
(* stands for everything it manages.                                       *)
includeManaged(leaf) == leaf.packaging = "pom" \/ (leaf.deps = <<>> /\ leaf.dm # <<>>)

ResolvePomDependencies(leaf, available) ==
  LET chain == Chain(leaf, available)
      props == MergedProps(chain)
      table == Managed(chain, available)
      managed == {[a |-> k[1], v |-> table.managed[k], typ |-> k[2], cls |-> k[3],
                   scope |-> "", opt |-> FALSE] : k \in DOMAIN table.managed}
      all == ToSet(leaf.deps) \cup (IF includeManaged(leaf) THEN managed ELSE {})
  IN [coords |-> Coordinates(all, props, table.managed),
      read |-> Ascent(leaf, available).read \cup table.read]

-----------------------------------------------------------------------------
Init ==
  /\ \E p \in Projects : repo = p[1] /\ queue = {p[2]}
  /\ seen = {} /\ urls = {} /\ cached = {} /\ result = "running" /\ latest = {}

PomOf(c) == [c EXCEPT !.typ = "pom", !.cls = ""]
Files(c) == {PomOf(c)} \cup (IF c.typ = "pom" \/ SkipPrefetchPackaging(c.typ)
                                    \/ SkipPrefetchClassifier(c.cls) THEN {} ELSE {c})

(* One round of the loop; a POM that cannot be had this time ends nothing  *)
Expand(c) ==
  /\ result = "running" /\ c \in queue
  /\ urls' = urls \cup Files(c) /\ seen' = seen \cup {c}
  /\ \E down \in {{}} \cup {{g} : g \in DOMAIN repo} :
       LET available == [g \in DOMAIN repo \ down |-> repo[g]]
           r == ResolvePomDependencies(repo[<<c.a, c.v>>], available)
       IN IF PomFetch(<<c.a, c.v>>, available)
          THEN /\ cached' = cached \cup {<<c.a, c.v>>} \cup r.read
               /\ queue' = (queue \cup r.coords) \ seen'
               /\ latest' = {[leaf |-> repo[<<c.a, c.v>>], coords |-> r.coords, available |-> available]}
          ELSE queue' = queue \ {c} /\ UNCHANGED <<cached, latest>>
  /\ UNCHANGED <<repo, result>>

Finish ==
  /\ result = "running" /\ queue = {} /\ result' = "done"
  /\ UNCHANGED <<repo, queue, seen, urls, cached, latest>>

Next == Finish \/ \E c \in queue : Expand(c)
Spec == Init /\ [][Next]_vars

-----------------------------------------------------------------------------
(* Properties *)

TypeOK ==
  /\ result \in {"running", "done"}
  /\ queue \cap seen = {} /\ Cardinality(latest) <= 1
  /\ cached \subseteq DOMAIN repo

(* The nearest POM that manages a dependency by itself, with the BOMs it   *)
(* imports, and what it says                                               *)
Nearest(leaf, d, available) ==
  LET chain == Chain(leaf, available)
      own(i) == applyDependencyManagement(chain[i], MergedProps(chain), NoTable, available).managed
      key == <<d.a, TypeOf(d), d.cls>>
      managing == {i \in DOMAIN chain : key \in DOMAIN own(i)}
  IN IF managing = {} THEN "" ELSE own(Min(managing))[key]

(* A version that is left out is that of the nearest POM which manages the *)
(* dependency, whichever parents and BOMs could be read, unless so many    *)
(* BOMs were that a nearer one was left out.  In a repository where        *)
(* parents, BOMs and dependencies run in circles, whatever fails: what a   *)
(* resolved POM asks for is looked up, and when the expansion is done has  *)
(* its files in the list; the POMs read to resolve it were given to the    *)
(* cache, so that a build finds them.                                      *)
NearestVersionIsPrefetched ==
  /\ \A r \in latest :
       LET spent == Managed(Chain(r.leaf, r.available), r.available).budget = 0
           key(d) == <<d.a, TypeOf(d), d.cls>>
       IN /\ \A d \in ToSet(r.leaf.deps) :
               /\ d.v = "" /\ Wanted(d) /\ ~includeManaged(r.leaf) /\ ~spent
               /\ \A e \in ToSet(r.leaf.deps) : key(e) = key(d) => e = d
               => {x.v : x \in {y \in r.coords : <<y.a, y.typ, y.cls>> = key(d)}}
                    = {Nearest(r.leaf, d, r.available)} \ {""}
          /\ \A x \in r.coords : Known(x.v) /\ x \in seen \cup queue
          /\ Ascent(r.leaf, r.available).read \subseteq cached
  /\ result = "done" => \A c \in seen : Files(c) \subseteq urls
=============================================================================
