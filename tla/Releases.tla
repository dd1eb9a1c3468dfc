------------------------------ MODULE Releases ------------------------------
(***************************************************************************)
(* Versions and the choice of a release                                    *)
(* (src/internal/upgrade/version.go, release.go, fetch.go).  A version is  *)
(* its three numbers and its pre-release identifiers, each a number or a   *)
(* word; a word is its place in the alphabet.                              *)
(***************************************************************************)
EXTENDS Integers, Sequences

Num(n) == [word |-> FALSE, at |-> n]
Word(n) == [word |-> TRUE, at |-> n]
Version(core, pre) == [core |-> core, pre |-> pre]

NoRelease == [error |-> "no release"]

cmpInt(a, b) == CASE a < b -> -1 [] a > b -> 1 [] OTHER -> 0

(* Numeric identifiers are older than words.                               *)
comparePre(a, b) ==
  CASE a.word = b.word -> cmpInt(a.at, b.at)
    [] OTHER -> IF a.word THEN 1 ELSE -1

First(D) == IF D = {} THEN 0 ELSE CHOOSE i \in D : \A j \in D : i <= j

Compare(a, b) ==
  LET least == IF Len(a.pre) < Len(b.pre) THEN Len(a.pre) ELSE Len(b.pre)
      c == First({i \in 1 .. 3 : a.core[i] # b.core[i]})
      p == First({i \in 1 .. least : a.pre[i] # b.pre[i]})
  IN CASE c # 0 -> cmpInt(a.core[c], b.core[c])
       [] c = 0 /\ a.pre = b.pre -> 0
       [] c = 0 /\ a.pre # b.pre /\ a.pre = <<>> -> 1
       [] c = 0 /\ a.pre # b.pre /\ b.pre = <<>> -> -1
       [] OTHER -> IF p # 0 THEN comparePre(a.pre[p], b.pre[p]) ELSE cmpInt(Len(a.pre), Len(b.pre))

(* The releases of a document of checksums that are for this host and, if  *)
(* one is asked for, are it; there must be exactly one.  An entry has the  *)
(* version it names, the platform, the hash it lists, the hash the archive *)
(* has, and the program in it by the version it reports, if it has one.    *)
(* want is empty or holds the one version asked for.                       *)
Matching(sums, want, platform) ==
  {r \in sums : r.platform = platform /\ \A v \in want : Compare(r.version, v) = 0}

Resolve(sums, want, platform) ==
  LET found == Matching(sums, want, platform)
  IN IF \E r \in found : found = {r} THEN CHOOSE r \in found : TRUE ELSE NoRelease

(* What a download may be trusted for: its hash is the listed one, a       *)
(* program is in it, and that program reports the version wanted.          *)
Verified(r) == r.hash = r.listed /\ \E v \in r.holds : Compare(v, r.version) = 0
=============================================================================
