---------------------------- MODULE PypiSelect ----------------------------
(* handlers/pypi/resolve.go: which files of a package's index a            *)
(* requirement selects, and which of those a prefetch keeps.               *)
(*                                                                         *)
(* A version as it is spelled is [epoch, rel, tail, local]: `rel` the      *)
(* numbers of its release, `tail` the labels after them, each a pair of a  *)
(* kind and a number ("?" for text that is no label), `local` what follows *)
(* a "+".  A file of an index is [name, ver, build, kind, py, words]:      *)
(* `build` is the wheel's build number, spelled as a version, or None;     *)
(* `words` the platform words that occur in its name.                      *)
EXTENDS Integers, SequencesExt

CONSTANT None

PreKind == [a |-> 1, b |-> 2, rc |-> 3]
Labels == DOMAIN PreKind \cup {"post", "dev"}

(* consumeLabel and consumePostOrDev: the last label of a kind counts *)
consume(v, label) ==
  CASE label[1] = "post" -> [v EXCEPT !.post = label[2]]
    [] label[1] = "dev"  -> [v EXCEPT !.dev = label[2]]
    [] OTHER             -> [v EXCEPT !.pre = PreKind[label[1]], !.num = label[2]]

(* ParseVersion: everything from the first text that is no label on is     *)
(* ignored, and so is the local part                                       *)
ParseVersion(s) ==
  LET unknown == SelectInSeq(s.tail, LAMBDA label : label[1] \notin Labels)
      labels == IF unknown = 0 THEN s.tail ELSE SubSeq(s.tail, 1, unknown - 1)
  IN FoldLeft(consume,
              [original |-> s, epoch |-> s.epoch, release |-> s.rel,
               pre |-> 0, num |-> 0, post |-> -1, dev |-> -1],
              labels)
Parsable(s) == s # None /\ s.rel # <<>>

-----------------------------------------------------------------------------
cmpInt(a, b) == IF a < b THEN -1 ELSE IF a > b THEN 1 ELSE 0

(* The first of several comparisons that decides *)
Decided(cs) == LET i == SelectInSeq(cs, LAMBDA c : c # 0) IN IF i = 0 THEN 0 ELSE cs[i]

(* A release is followed by zeros *)
At(release, i) == IF i <= Len(release) THEN release[i] ELSE 0

(* Mutant: without the zeros, the longer one is the higher *)
cmpReleaseUnpadded(a, b) ==
  Decided([i \in 1..(Len(a) + Len(b)) |->
    IF i \in DOMAIN a \cap DOMAIN b THEN cmpInt(a[i], b[i]) ELSE cmpInt(Len(a), Len(b))])

cmpRelease(a, b) ==
  Decided([i \in 1..(IF Len(a) < Len(b) THEN Len(b) ELSE Len(a)) |-> cmpInt(At(a, i), At(b, i))])

Final == 4    \* behind every kind of pre-release

Spelled(s) ==
  /\ s.epoch \in Nat /\ s.rel \in Seq(Nat) /\ s.tail \in Seq(ToSet(s.tail))
  /\ \A label \in ToSet(s.tail) : label[2] \in Nat

Compare(a, b) ==
  LET devOnly(v) == v.dev >= 0 /\ v.pre = 0
      rank(v) == IF devOnly(v) THEN 0 ELSE 1
      pre(v) == IF v.pre = 0 THEN Final ELSE v.pre
      ended(v) == IF v.dev < 0 THEN 1 ELSE 0
  IN Decided(<<cmpInt(a.epoch, b.epoch), cmpRelease(a.release, b.release),
               cmpInt(rank(a), rank(b)), cmpInt(pre(a), pre(b)), cmpInt(a.num, b.num),
               cmpInt(a.post, b.post), cmpInt(ended(a), ended(b)), cmpInt(a.dev, b.dev)>>)

equalPublic(a, b) ==
  /\ <<a.epoch, a.pre, a.num, a.post, a.dev>> = <<b.epoch, b.pre, b.num, b.post, b.dev>>
  /\ cmpRelease(a.release, b.release) = 0

(* Without zeros, and without the epoch *)
compatibleRelease(v, base) == IsPrefix(Front(base.release), v.release)

checkOne(v, c) ==
  LET tv == ParseVersion(c.ver)
      cmp == Compare(v, tv)
  IN CASE c.op = "==" -> equalPublic(v, tv)
       [] c.op = "===" -> v.original = tv.original
       [] c.op = "!=" -> ~equalPublic(v, tv)
       [] c.op = ">"  -> cmp > 0
       [] c.op = ">=" -> cmp >= 0
       [] c.op = "<"  -> cmp < 0
       [] c.op = "<=" -> cmp <= 0
       [] c.op = "~=" -> cmp >= 0 /\ compatibleRelease(v, tv)

Satisfy(v, constraints) == \A c \in constraints : checkOne(v, c)

-----------------------------------------------------------------------------
(* What a loop appends that skips the others *)
Where(seq, wanted) ==
  FoldLeft(LAMBDA out, x : IF x \in wanted THEN Append(out, x) ELSE out, <<>>, seq)

(* ParseArtifactFilename takes the last part of the name that begins with  *)
(* a digit: of a wheel with a build number, that number                    *)
fileVersion(f) == IF f.build = None THEN f.ver ELSE f.build

(* SelectFiles: the first of the highest versions, and every file that is  *)
(* spelled like it                                                         *)
NoFiles == [version |-> None, files |-> <<>>]
SelectFiles(links, constraints) ==
  LET named == Where(links, {f \in ToSet(links) : Parsable(fileVersion(f))})
      versions == [i \in DOMAIN named |-> ParseVersion(fileVersion(named[i]))]
      matched == Where(versions, {v \in ToSet(versions) : Satisfy(v, constraints)})
      higher(best, v) == IF Compare(v, best) > 0 THEN v ELSE best
      best == FoldLeft(higher, Head(matched), Tail(matched)).original
  IN IF matched = <<>> THEN NoFiles
     ELSE [version |-> best, files |-> Where(named, {f \in ToSet(named) : fileVersion(f) = best})]

-----------------------------------------------------------------------------
(* FilterArtifacts, for prefetches.  What it knows of a wheel's platform   *)
(* are the words that occur anywhere in its name.                          *)
wheelIsARM(w) == w \cap {"aarch64", "arm64", "win_arm", "_armv7", "_armv6"} # {}
wheelIsMac(w) == w \cap {"macosx", "darwin"} # {}
wheelIsLinuxFamily(w) ==
  "win" \notin w /\ ~wheelIsMac(w) /\ w \cap {"manylinux", "musllinux", "linux_"} # {}

wheelMatchesPlatform(w, plat) ==
  CASE plat = "win32"      -> "win" \in w /\ "win_arm" \notin w
    [] plat = "win-arm"    -> "win_arm" \in w
    [] plat = "darwin"     -> wheelIsMac(w) /\ ("universal2" \in w \/ ~wheelIsARM(w))
    [] plat = "darwin-arm" -> wheelIsMac(w) /\ ("universal2" \in w \/ wheelIsARM(w))
    [] plat = "linux-arm"  -> wheelIsLinuxFamily(w) /\ wheelIsARM(w)
    [] plat = "linux"      -> wheelIsLinuxFamily(w) /\ ~wheelIsARM(w)

(* [mode, tags, plats]: "all" or "portable", the python tags of the target *)
(* versions with the extra ones, and the target platforms                  *)
Kept(f, policy) ==
  \/ f.kind \in {"sdist", "none-any"}
  \/ /\ f.kind = "wheel"
     /\ \E plat \in policy.plats : wheelMatchesPlatform(f.words, plat)
     /\ policy.mode = "all" \/ f.py \in policy.tags

Distinct(seq) == FoldLeft(LAMBDA out, x : IF Contains(out, x) THEN out ELSE Append(out, x), <<>>, seq)
FilterArtifacts(files, policy) ==
  Distinct(Where(files, {f \in ToSet(files) : Kept(f, policy)}))
=============================================================================
