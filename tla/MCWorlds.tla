------------------------------ MODULE MCWorlds ------------------------------
(* The package indexes and repositories that MCServices lets the resolvers *)
(* of PyPI and Maven expand.                                               *)
EXTENDS Naturals, Sequences, TLC

CONSTANT None

(* Versions: each kind of label, with and without zeros, an epoch, a local *)
(* part, text that ends the labels, two digits                             *)
V(rel, tail) == [epoch |-> 0, rel |-> rel, tail |-> tail, local |-> None]
L1(kind) == <<kind, 1>>
Plain == V(<<1, 0>>, <<>>)
Versions ==
  {V(<<1>>, <<>>), Plain, V(<<1, 10>>, <<>>), V(<<1, 9>>, <<>>), V(<<2>>, <<>>),
   V(<<1>>, <<L1("dev")>>), V(<<1, 0>>, <<L1("a")>>), V(<<1>>, <<L1("rc")>>),
   V(<<1>>, <<L1("a"), L1("dev")>>), V(<<1>>, <<L1("a"), L1("post")>>),
   V(<<1>>, <<L1("post")>>), V(<<1>>, <<L1("post"), L1("dev")>>),
   V(<<1, 9>>, <<L1("?"), L1("a")>>),
   [Plain EXCEPT !.epoch = 1], [Plain EXCEPT !.local = "cpu"]}

File(name, ver, kind, py, words) ==
  [name |-> name, ver |-> ver, build |-> None, kind |-> kind, py |-> py, words |-> words]
Sdist(v) == File("p", v, "sdist", None, {})
Built == [File("p", V(<<1, 9>>, <<>>), "wheel", "cp310", {"manylinux"}) EXCEPT !.build = V(<<1>>, <<>>)]

Portable == [mode |-> "portable", tags |-> {"cp310"}, plats |-> {"linux", "win32"}]
Targets == [py |-> {10, 12}, plats |-> {"linux", "win32"}]
Always == [or |-> FALSE, extra |-> FALSE, atoms |-> <<>>]
Req(name, cs, marker) == [name |-> name, cs |-> cs, marker |-> marker, readable |-> TRUE]
Parenthesized(req) == [req EXCEPT !.readable = FALSE]
Clause(op, v) == [op |-> op, ver |-> v]

(* One package with the versions `vs`, and a requirement of it *)
OnePackage(vs, cs) ==
  <<[index |-> [n \in {"p"} |-> [i \in DOMAIN vs |-> Sdist(vs[i])]],
     requires |-> <<>>, targets |-> Targets, policy |-> Portable],
    Req("p", cs, Always)>>

Constraints ==
  {{Clause("==", V(<<1>>, <<>>))}, {Clause("===", Plain)}, {Clause("!=", V(<<1>>, <<>>))}, {Clause(">", Plain)},
   {Clause("<", V(<<1>>, <<L1("rc")>>))}, {Clause("~=", V(<<1, 9>>, <<>>))},
   {Clause(">=", Plain), Clause("<", V(<<2>>, <<>>))}, {Clause("<=", V(<<1>>, <<L1("post")>>))}}
Selections ==
  {OnePackage(vs, {}) : vs \in Versions \X Versions \X {Plain, V(<<1>>, <<L1("dev")>>), V(<<1>>, <<L1("post")>>)}}
    \cup {OnePackage(vs, cs) : vs \in Versions \X Versions, cs \in Constraints}

(* Wheels of every platform, of a package whose name may contain a word *)
Platforms ==
  {{"manylinux"}, {"musllinux", "aarch64"}, {"win"}, {"win", "win_arm", "arm64"},
   {"macosx"}, {"macosx", "arm64"}, {"macosx", "universal2"}}
Wheels ==
  LET wheel(py, w) == File("p", Plain, "wheel", py, w)
  IN {<<[index |-> [n \in {"p"} |-> <<Built, wheel(py, w), wheel(py, v), wheel(py, w), Sdist(Plain)>>],
         requires |-> [n \in {"p"} |-> [v2 \in Versions |-> <<>>]], targets |-> Targets,
         policy |-> [mode |-> mode, tags |-> {"cp310"}, plats |-> {plat}]], Req("p", {}, Always)>> :
        py \in {"cp310", "cp37"}, w \in Platforms \cup {{"win", "manylinux"}}, v \in {{"manylinux"}, {"macosx"}},
        mode \in {"all", "portable"},
        plat \in {"linux", "linux-arm", "win32", "win-arm", "darwin", "darwin-arm"}}

(* Three packages that may need each other, and a name that is none *)
Python(key, op, minor) == [key |-> key, op |-> op, minor |-> minor, name |-> ""]
Atom(key, op, name) == [key |-> key, op |-> op, minor |-> 0, name |-> name]
And(atoms) == [or |-> FALSE, extra |-> FALSE, atoms |-> atoms]
Or(atoms) == [or |-> TRUE, extra |-> FALSE, atoms |-> atoms]
Old == Python("python_version", "<", 9)
New == Python("python_full_version", ">=", 11)
Linux == Atom("sys_platform", "==", "linux")
NotLinux == Atom("platform_system", "!=", "linux")
Darwin == Atom("sys_platform", "==", "darwin")
Markers ==
  {Always, And(<<Old>>), And(<<New, Linux>>), And(<<New, NotLinux, Atom("other", "==", "x")>>),
   And(<<Darwin>>), [Always EXCEPT !.extra = TRUE], Or(<<Old, Linux>>), Or(<<Linux, Old>>)}
Two == V(<<2>>, <<>>)
Need(name) == Req(name, {}, Always)
Releases(pkg) == <<File(pkg, Two, "none-any", None, {}), File(pkg, Plain, "none-any", None, {})>>
Graphs ==
  LET older == {Clause("<", Two)}
      \* p needs q and another, q needs r, and r an older p
      requires(m, l, other) ==
        [pkg \in {"p", "q", "r"} |-> [v \in {Plain, Two} |->
          CASE pkg = "p" -> IF v = Two THEN <<Req("q", {}, m), other>> ELSE <<>>
            [] pkg = "q" -> <<Req("r", {Clause("==", Plain)}, l)>>
            [] pkg = "r" -> <<Req("p", older, Always)>>]]
  IN {<<[index |-> [pkg \in {"p", "q", "r"} |-> Releases(pkg)], requires |-> requires(m, l, other),
         targets |-> Targets, policy |-> Portable], it>> :
        m \in Markers, l \in Markers,
        other \in {Need("win32"), Parenthesized(Need("r"))}
          \cup {Req(pkg, cs, Always) : pkg \in {"q", "r"}, cs \in {{}, older, {Clause(">", Two)}}},
        it \in {Need("p"), Parenthesized(Need("p")), Need("win32")}}

PypiWorlds == Selections \cup Wheels \cup Graphs

-----------------------------------------------------------------------------
(* Maven: an application whose parent is its own grandparent, a library    *)
(* that needs the application, two BOMs that may import each other         *)
MavenRefs == {"${v}", "${w}", "${project.version}"}
NoParent == [a |-> "", v |-> ""]
Dep(a, v, scope, typ) == [a |-> a, v |-> v, scope |-> scope, typ |-> typ, cls |-> "", opt |-> FALSE]
Pom(v, parent, props, dm, deps) ==
  [v |-> v, packaging |-> "jar", parent |-> parent, props |-> props, dm |-> dm, deps |-> deps]
Import(a, v) == Dep(a, v, "import", "pom")
Lib(v) == Dep("lib", v, "", "")

Tables(v) == {<<>>, <<Lib(v)>>, <<Import("bom", "1")>>, <<Lib(v), Import("bom", "1")>>, <<Import("bom", "1"), Lib(v)>>}
Repository(appDM, parentDM, w, back, deps, packaging) ==
  LET app == Pom("", [a |-> "parent", v |-> "${v}"], "${v}" :> "1", appDM, deps)
  IN    <<"app", "1">> :> [app EXCEPT !.packaging = packaging]
     @@ <<"parent", "1">> :> Pom("1", [a |-> "parent", v |-> "1"], "${w}" :> w, parentDM, <<>>)
     @@ <<"bom", "1">> :> Pom("", NoParent, "${w}" :> "3", <<Import("bom", back), Lib("${w}")>>, <<>>)
     @@ <<"bom", "2">> :> Pom("2", NoParent, <<>>, <<Import("bom", "1"), Lib("${project.version}")>>, <<>>)
     @@ <<"lib", "1">> :> Pom("1", NoParent, <<>>, <<>>, <<Dep("app", "${project.version}", "runtime", "")>>)
     @@ <<"lib", "2">> :> Pom("2", NoParent, <<>>, <<>>, <<Dep("app", "1", "test", ""), Dep("tool", "1", "", "test-jar")>>)
Root == [a |-> "app", v |-> "1", typ |-> "jar", cls |-> ""]
MavenProjects ==
  {<<Repository(appDM, parentDM, IF back = "" THEN "2" ELSE "${v}", back, deps, packaging), Root>> :
     appDM \in Tables("1"), parentDM \in Tables("${w}"), back \in {"", "2"},
     deps \in {<<>>, <<Lib("")>>, <<Lib(""), [Dep("opt", "1", "", "") EXCEPT !.opt = TRUE]>>},
     packaging \in {"jar", "pom"}}

-----------------------------------------------------------------------------
(* npm: versions with pre-releases, and ranges of every kind *)
N(maj, min, pat) == [n |-> <<maj, min, pat>>, pre |-> 0]
Beta(v) == [v EXCEPT !.pre = 1]
NpmVersions ==
  {N(0, 2, 0), N(0, 3, 0), N(1, 0, 0), N(1, 0, 1), N(1, 10, 0), Beta(N(1, 10, 0)), N(2, 0, 0),
   Beta(N(2, 0, 0)), [N(2, 0, 0) EXCEPT !.pre = 2], N(2, 1, 0)}
Cl(op, base) == [op |-> op, base |-> base]
RangeOf(alts) == [kind |-> "range", name |-> "", alts |-> alts]
One(op, base) == RangeOf({{Cl(op, base)}})
Tag(name) == [kind |-> "tag", name |-> name, alts |-> {}]
Elsewhere == [kind |-> "other", name |-> "", alts |-> {}]
AnyVersion == One("*", None)
Ranges ==
  {One(op, b) : op \in {"^", "~", ">=", "<=", ">", "<", "="}, b \in {N(1, 0, 0), N(1, 10, 0), Beta(N(2, 0, 0))}}
    \cup {RangeOf({{Cl(">=", N(1, 0, 0)), Cl("<", N(2, 0, 0))}}), RangeOf({{Cl("^", N(0, 2, 0))}, {Cl("=", N(2, 0, 0))}}),
          RangeOf({{Cl("?", N(1, 0, 0))}}), AnyVersion, Tag("latest"), Tag("next")}

Doc(vs, latest, deps) == [versions |-> vs, tags |-> ("latest" :> latest), deps |-> deps]
NoDeps(vs) == [v \in vs |-> <<>>]
NpmSelections ==
  {<<[x \in {"p"} |-> Doc({a, b, c}, c, NoDeps({a, b, c}))], [name |-> "p", spec |-> spec]>> :
     a \in NpmVersions, b \in NpmVersions, c \in {N(1, 0, 1), Beta(N(2, 0, 0))}, spec \in Ranges}

(* p needs q and r, q another r, and r an older p, or something outside *)
NpmGraphs ==
  LET both == {N(1, 0, 0), N(2, 0, 0)}
      newest(deps) == Doc(both, N(2, 0, 0), [v \in both |-> IF v = N(2, 0, 0) THEN deps ELSE <<>>])
      all(deps) == Doc(both, N(1, 0, 0), [v \in both |-> deps])
  IN {<<("p" :> newest("q" :> AnyVersion @@ "r" :> r)) @@ ("q" :> all("r" :> qr)) @@ ("r" :> all("p" :> rp @@ "s" :> s)),
        [name |-> "p", spec |-> spec]>> :
        r \in {One("^", N(1, 0, 0)), Elsewhere}, qr \in {One("^", N(2, 0, 0)), One("=", N(1, 0, 1))},
        rp \in {One("<", N(2, 0, 0)), AnyVersion}, s \in {Tag("latest"), Elsewhere},
        spec \in {AnyVersion, One("^", N(1, 0, 0))}}

NpmRegistries == NpmSelections \cup NpmGraphs
=============================================================================
