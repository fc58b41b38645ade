----------------------------- MODULE VirtualFsProofs -----------------------------
(***************************************************************************)
(* Theorems about VirtualFs, for any names and paths of any depth.  The    *)
(* calls of TreeFs keep a tree; those of VirtualFs implement them, fail    *)
(* without a trace, and leave what the queries find by two ways the same,  *)
(* as long as no call is made where it is Reckless.                        *)
(***************************************************************************)
EXTENDS VirtualFs, Lemmas

(***************************************************************************)
(* Paths                                                                   *)
(***************************************************************************)

LEMMA Initial ==
    ASSUME NEW p \in Seq(Names), NEW n \in 0 .. Len(p)
    PROVE  /\ SubSeq(p, 1, n) \in Seq(Names) /\ Len(SubSeq(p, 1, n)) = n
           /\ \A i \in 1 .. n : SubSeq(p, 1, n)[i] = p[i]
<1>1. Len(p) \in Nat /\ \A i \in 1 .. n : p[i] \in Names
  BY ElementOfSeq, LenProperties
<1>2. /\ SubSeq(p, 1, n) \in Seq(Names)
      /\ Len(SubSeq(p, 1, n)) = IF 1 <= n THEN n - 1 + 1 ELSE 0
      /\ \A i \in 1 .. n - 1 + 1 : SubSeq(p, 1, n)[i] = p[1 + i - 1]
  BY <1>1, SubSeqProperties
<1> QED
  BY <1>1, <1>2

LEMMA PrefixAgrees ==
    ASSUME NEW p \in Seq(Names), NEW q \in Seq(Names)
    PROVE  IsPrefix(p, q) <=> Len(p) <= Len(q) /\ \A i \in 1 .. Len(p) : p[i] = q[i]
<1>0. Len(p) \in Nat /\ Len(q) \in Nat
  BY LenProperties
<1>1. SubSeq(p, 1, Len(p)) = p
  BY SubSeqFull
<1>2. ASSUME Len(p) <= Len(q)
      PROVE  p = SubSeq(q, 1, Len(p)) <=> \A i \in 1 .. Len(p) : p[i] = q[i]
  <2>1. /\ SubSeq(q, 1, Len(p)) \in Seq(Names) /\ Len(SubSeq(q, 1, Len(p))) = Len(p)
        /\ \A i \in 1 .. Len(p) : SubSeq(q, 1, Len(p))[i] = q[i]
    BY <1>0, <1>2, Initial
  <2>2. ASSUME \A i \in 1 .. Len(p) : p[i] = q[i]
        PROVE  p = SubSeq(q, 1, Len(p))
    BY <2>1, <2>2, SeqEqual
  <2> QED
    BY <2>1, <2>2
<1> QED
  BY <1>1, <1>2 DEF IsPrefix

\* What lies above a path are the shorter paths that begin it.
LEMMA AboveBegins ==
    ASSUME NEW p \in Seq(Names), NEW q
    PROVE  q \in Above(p) <=> q \in Seq(Names) /\ IsPrefix(q, p) /\ Len(q) < Len(p)
<1>0. Len(p) \in Nat /\ SubSeq(p, 1, Len(p)) = p
  BY LenProperties, SubSeqFull
<1>1. ASSUME q \in Above(p)
      PROVE  q \in Seq(Names) /\ IsPrefix(q, p) /\ Len(q) < Len(p)
  <2>1. PICK n \in 0 .. Len(p) : q = SubSeq(p, 1, n)
    BY <1>1 DEF Above, Prefixes
  <2>2. n # Len(p)
    BY <1>0, <1>1, <2>1 DEF Above
  <2>3. q \in Seq(Names) /\ Len(q) = n /\ \A i \in 1 .. n : q[i] = p[i]
    BY <2>1, Initial
  <2>4. Len(q) < Len(p)
    <3>1. Len(p) \in Nat /\ n \in 0 .. Len(p)
      BY <1>0, <2>1
    <3> QED
      BY <2>2, <2>3, <3>1
  <2>5. \A i \in 1 .. Len(q) : q[i] = p[i]
    BY <2>3
  <2> QED
    BY <1>0, <2>3, <2>4, <2>5, PrefixAgrees
<1>2. ASSUME q \in Seq(Names), IsPrefix(q, p), Len(q) < Len(p)
      PROVE  q \in Above(p)
  <2>1. Len(q) \in 0 .. Len(p) /\ q = SubSeq(p, 1, Len(q))
    BY <1>0, <1>2, LenProperties, SubSeqFull DEF IsPrefix
  <2>2. q \in Prefixes(p)
    BY <2>1 DEF Prefixes
  <2>3. q # p
    BY <1>0, <1>2
  <2> QED
    BY <2>2, <2>3 DEF Above
<1> QED
  BY <1>1, <1>2

LEMMA PrefixesAre ==
    ASSUME NEW p \in Seq(Names)
    PROVE  Prefixes(p) = Above(p) \cup {p}
<1>1. Len(p) \in 0 .. Len(p) /\ SubSeq(p, 1, Len(p)) = p
  BY LenProperties, SubSeqFull
<1>2. p \in Prefixes(p)
  BY <1>1 DEF Prefixes
<1> QED
  BY <1>2 DEF Above

LEMMA PrefixOrder ==
    ASSUME NEW p \in Seq(Names), NEW q \in Seq(Names), NEW r \in Seq(Names)
    PROVE  /\ IsPrefix(p, p)
           /\ IsPrefix(p, q) /\ IsPrefix(q, r) => IsPrefix(p, r)
           /\ IsPrefix(p, q) /\ p # q => p \in Above(q)
<1>0. Len(p) \in Nat /\ Len(q) \in Nat /\ Len(r) \in Nat
  BY LenProperties
<1>1. IsPrefix(p, p)
  BY <1>0, PrefixAgrees
<1>2. IsPrefix(p, q) /\ IsPrefix(q, r) => IsPrefix(p, r)
  BY <1>0, PrefixAgrees
<1>3. ASSUME IsPrefix(p, q), p # q PROVE p \in Above(q)
  <2>1. Len(p) <= Len(q) /\ \A i \in 1 .. Len(p) : p[i] = q[i]
    BY <1>3, PrefixAgrees
  <2>2. Len(p) # Len(q)
    BY <1>3, <2>1, SeqEqual
  <2> QED
    BY <1>0, <1>3, <2>1, <2>2, AboveBegins
<1> QED
  BY <1>1, <1>2, <1>3

\* Above goes all the way up.
LEMMA AboveAbove ==
    ASSUME NEW p \in Seq(Names), NEW q \in Above(p), NEW r \in Above(q)
    PROVE  r \in Above(p) /\ q \in Seq(Names) /\ r \in Seq(Names) /\ r # q /\ q # p
<1>1. q \in Seq(Names) /\ IsPrefix(q, p) /\ Len(q) < Len(p)
  BY AboveBegins
<1>2. r \in Seq(Names) /\ IsPrefix(r, q) /\ Len(r) < Len(q)
  BY <1>1, AboveBegins
<1>3. IsPrefix(r, p)
  BY <1>1, <1>2, PrefixOrder
<1>4. Len(p) \in Nat /\ Len(q) \in Nat /\ Len(r) \in Nat
  BY <1>1, <1>2, LenProperties
<1> QED
  BY <1>1, <1>2, <1>3, <1>4, AboveBegins

\* The parent is the lowest of them.
LEMMA ParentIsAbove ==
    ASSUME NEW p \in Seq(Names), Len(p) > 0
    PROVE  /\ Parent(p) \in Above(p) /\ Parent(p) \in Seq(Names)
           /\ \A q \in Above(p) : q = Parent(p) \/ q \in Above(Parent(p))
<1>0. Len(p) \in Nat /\ Len(p) - 1 \in 0 .. Len(p)
  BY LenProperties
<1>1. /\ Parent(p) \in Seq(Names) /\ Len(Parent(p)) = Len(p) - 1
      /\ \A i \in 1 .. Len(p) - 1 : Parent(p)[i] = p[i]
  BY <1>0, Initial DEF Parent
<1>2. Parent(p) \in Above(p)
  <2>1. IsPrefix(Parent(p), p)
    BY <1>0, <1>1, PrefixAgrees
  <2> QED
    BY <1>0, <1>1, <2>1, AboveBegins
<1>3. ASSUME NEW q \in Above(p) PROVE q = Parent(p) \/ q \in Above(Parent(p))
  <2>1. q \in Seq(Names) /\ IsPrefix(q, p) /\ Len(q) < Len(p) /\ Len(q) \in Nat
    BY AboveBegins, LenProperties
  <2>2. \A i \in 1 .. Len(q) : q[i] = p[i]
    BY <2>1, PrefixAgrees
  <2>3. Len(q) <= Len(Parent(p)) /\ \A i \in 1 .. Len(q) : q[i] = Parent(p)[i]
    BY <1>0, <1>1, <2>1, <2>2
  <2>4. IsPrefix(q, Parent(p))
    BY <1>1, <2>1, <2>3, PrefixAgrees
  <2> QED
    BY <1>1, <2>1, <2>4, PrefixOrder
<1> QED
  BY <1>1, <1>2, <1>3

-----------------------------------------------------------------------------
(* Move takes what lies below p to the same place below q, and back. *)

Rebased(r, p, q) == q \o SubSeq(r, Len(p) + 1, Len(r))

\* t is q, and then what r has after p.
Continues(t, q, r, p) ==
    /\ Len(t) = Len(q) + Len(r) - Len(p)
    /\ \A i \in 1 .. Len(q) : t[i] = q[i]
    /\ \A i \in Len(q) + 1 .. Len(q) + Len(r) - Len(p) : t[i] = r[i - Len(q) + Len(p)]

LEMMA RebasedIs ==
    ASSUME NEW p \in Seq(Names), NEW q \in Seq(Names), NEW r \in Seq(Names),
           IsPrefix(p, r)
    PROVE  /\ Rebased(r, p, q) \in Seq(Names) /\ IsPrefix(q, Rebased(r, p, q))
           /\ Continues(Rebased(r, p, q), q, r, p)
<1> DEFINE m    == Len(p)
           n    == Len(r)
           rest == SubSeq(r, m + 1, n)
           t    == q \o rest
<1>0. m \in Nat /\ n \in Nat /\ Len(q) \in Nat /\ m <= n
  BY LenProperties, PrefixAgrees
<1>1. rest \in Seq(Names) /\ Len(rest) = n - m /\ \A i \in 1 .. n - m : rest[i] = r[m + i]
  <2>1. \A i \in m + 1 .. n : r[i] \in Names
    BY <1>0, ElementOfSeq
  <2>2. /\ rest \in Seq(Names) /\ Len(rest) = IF m + 1 <= n THEN n - (m + 1) + 1 ELSE 0
        /\ \A i \in 1 .. n - (m + 1) + 1 : rest[i] = r[m + 1 + i - 1]
    BY <1>0, <2>1, SubSeqProperties
  <2> QED
    BY <1>0, <2>2
<1> HIDE DEF rest
<1>2. /\ t \in Seq(Names) /\ Len(t) = Len(q) + Len(rest)
      /\ \A i \in 1 .. Len(q) + Len(rest) :
            t[i] = IF i <= Len(q) THEN q[i] ELSE rest[i - Len(q)]
  BY <1>1, ConcatProperties
<1> HIDE DEF t
<1>3. \A i \in 1 .. Len(q) : t[i] = q[i]
  BY <1>0, <1>1, <1>2
<1>4. ASSUME NEW i \in Len(q) + 1 .. Len(q) + n - m
      PROVE  t[i] = r[i - Len(q) + m]
  <2>1. i - Len(q) \in 1 .. n - m /\ i \in 1 .. Len(q) + Len(rest) /\ ~(i <= Len(q))
    BY <1>0, <1>1
  <2>2. t[i] = rest[i - Len(q)] /\ rest[i - Len(q)] = r[m + (i - Len(q))]
    BY <1>1, <1>2, <2>1
  <2>3. m + (i - Len(q)) = i - Len(q) + m
    BY <1>0
  <2> QED
    BY <2>2, <2>3
<1>5. IsPrefix(q, t)
  BY <1>0, <1>1, <1>2, <1>3, PrefixAgrees
<1>6. t = Rebased(r, p, q)
  BY DEF t, rest, Rebased
<1>7. Len(t) = Len(q) + n - m
  BY <1>0, <1>1, <1>2
<1> QED
  BY <1>2, <1>3, <1>4, <1>5, <1>6, <1>7 DEF Continues

LEMMA ThereAndBack ==
    ASSUME NEW p \in Seq(Names), NEW q \in Seq(Names), NEW r \in Seq(Names),
           IsPrefix(p, r)
    PROVE  Rebased(Rebased(r, p, q), q, p) = r
<1> DEFINE t == Rebased(r, p, q)
           u == Rebased(t, q, p)
<1>0. Len(p) \in Nat /\ Len(q) \in Nat /\ Len(r) \in Nat /\ Len(p) <= Len(r)
      /\ \A i \in 1 .. Len(p) : p[i] = r[i]
  BY LenProperties, PrefixAgrees
<1>1. /\ t \in Seq(Names) /\ Len(t) = Len(q) + Len(r) - Len(p) /\ IsPrefix(q, t)
      /\ \A i \in Len(q) + 1 .. Len(q) + Len(r) - Len(p) : t[i] = r[i - Len(q) + Len(p)]
  BY RebasedIs DEF Continues
<1> HIDE DEF t
<1>2. /\ u \in Seq(Names) /\ Len(u) = Len(p) + Len(t) - Len(q)
      /\ \A i \in 1 .. Len(p) : u[i] = p[i]
      /\ \A i \in Len(p) + 1 .. Len(p) + Len(t) - Len(q) : u[i] = t[i - Len(p) + Len(q)]
  <2>1. u \in Seq(Names) /\ Continues(u, p, t, q)
    BY <1>1, RebasedIs
  <2> QED
    BY <2>1 DEF Continues
<1> HIDE DEF u
<1>3. Len(u) = Len(r)
  BY <1>0, <1>1, <1>2
<1>4. ASSUME NEW i \in 1 .. Len(r) PROVE u[i] = r[i]
  <2>1. CASE i <= Len(p)
    BY <1>0, <1>2, <2>1
  <2>2. CASE ~(i <= Len(p))
    <3> DEFINE j == i - Len(p) + Len(q)
    <3>1. i \in Len(p) + 1 .. Len(p) + Len(t) - Len(q)
          /\ j \in Len(q) + 1 .. Len(q) + Len(r) - Len(p)
          /\ j - Len(q) + Len(p) = i
      BY <1>0, <1>1, <2>2
    <3>2. u[i] = t[j]
      BY <1>2, <3>1
    <3> HIDE DEF j
    <3>3. t[j] = r[j - Len(q) + Len(p)]
      BY <1>1, <3>1
    <3> QED
      BY <3>1, <3>2, <3>3
  <2> QED
    BY <2>1, <2>2
<1> QED
  BY <1>2, <1>3, <1>4, SeqEqual DEF u, t

\* What lies above the new place lies above q, or comes from above the old.
LEMMA AboveRebased ==
    ASSUME NEW p \in Seq(Names), NEW q \in Seq(Names), NEW r \in Seq(Names),
           IsPrefix(p, r), NEW a \in Above(Rebased(r, p, q))
    PROVE  \/ a \in Above(q)
           \/ /\ IsPrefix(q, a) /\ IsPrefix(p, Rebased(a, q, p))
              /\ Rebased(a, q, p) \in Above(r)
<1> DEFINE t == Rebased(r, p, q)
           b == Rebased(a, q, p)
<1>0. Len(p) \in Nat /\ Len(q) \in Nat /\ Len(r) \in Nat /\ Len(p) <= Len(r)
      /\ \A i \in 1 .. Len(p) : p[i] = r[i]
  BY LenProperties, PrefixAgrees
<1>1. /\ t \in Seq(Names) /\ Len(t) = Len(q) + Len(r) - Len(p)
      /\ \A i \in 1 .. Len(q) : t[i] = q[i]
      /\ \A i \in Len(q) + 1 .. Len(q) + Len(r) - Len(p) : t[i] = r[i - Len(q) + Len(p)]
  <2>1. t \in Seq(Names) /\ Continues(t, q, r, p)
    BY RebasedIs
  <2> QED
    BY <2>1 DEF Continues
<1>2. a \in Seq(Names) /\ IsPrefix(a, t) /\ Len(a) < Len(t)
  BY <1>1, AboveBegins
<1>3. Len(a) \in Nat /\ \A i \in 1 .. Len(a) : a[i] = t[i]
  BY <1>1, <1>2, LenProperties, PrefixAgrees
<1> HIDE DEF t
<1>4. CASE Len(a) < Len(q)
  <2>1. \A i \in 1 .. Len(a) : a[i] = q[i]
    BY <1>0, <1>1, <1>3, <1>4
  <2>2. IsPrefix(a, q)
    BY SMTT(30), <1>0, <1>2, <1>3, <1>4, <2>1, PrefixAgrees
  <2> QED
    BY <1>2, <1>4, <2>2, AboveBegins
<1>5. CASE ~(Len(a) < Len(q))
  <2>1. \A i \in 1 .. Len(q) : q[i] = a[i]
    BY <1>0, <1>1, <1>3, <1>5
  <2>2. IsPrefix(q, a)
    BY <1>0, <1>2, <1>3, <1>5, <2>1, PrefixAgrees
  <2>3. /\ b \in Seq(Names) /\ Len(b) = Len(p) + Len(a) - Len(q) /\ IsPrefix(p, b)
        /\ \A i \in 1 .. Len(p) : b[i] = p[i]
        /\ \A i \in Len(p) + 1 .. Len(p) + Len(a) - Len(q) : b[i] = a[i - Len(p) + Len(q)]
    <3>1. b \in Seq(Names) /\ Continues(b, p, a, q) /\ IsPrefix(p, b)
      BY <1>2, <2>2, RebasedIs
    <3> QED
      BY <3>1 DEF Continues
  <2> HIDE DEF b
  <2>4. Len(b) < Len(r) /\ Len(b) \in Nat
    BY <1>0, <1>1, <1>2, <1>3, <1>5, <2>3
  <2>5. ASSUME NEW i \in 1 .. Len(b) PROVE b[i] = r[i]
    <3>1. CASE i <= Len(p)
      BY <1>0, <2>3, <3>1
    <3>2. CASE ~(i <= Len(p))
      <4> DEFINE j == i - Len(p) + Len(q)
      <4>1. /\ i \in Len(p) + 1 .. Len(p) + Len(a) - Len(q)
            /\ j \in 1 .. Len(a) /\ j \in Len(q) + 1 .. Len(q) + Len(r) - Len(p)
            /\ j - Len(q) + Len(p) = i
        BY <1>0, <1>1, <1>2, <1>3, <1>5, <2>3, <2>4, <3>2
      <4>2. b[i] = a[j]
        BY <2>3, <4>1
      <4> HIDE DEF j
      <4>3. a[j] = t[j] /\ t[j] = r[j - Len(q) + Len(p)]
        BY <1>1, <1>3, <4>1
      <4> QED
        BY <4>1, <4>2, <4>3
    <3> QED
      BY <3>1, <3>2
  <2>6. IsPrefix(b, r)
    <3>1. Len(b) <= Len(r) /\ b \in Seq(Names)
      BY <1>0, <2>3, <2>4
    <3> QED
      BY <2>5, <3>1, PrefixAgrees
  <2>7. b \in Above(r)
    BY <2>3, <2>4, <2>6, AboveBegins
  <2> QED
    BY <2>2, <2>3, <2>7 DEF b
<1> QED
  BY <1>4, <1>5

\* A path of bounded depth is a sequence of names.
LEMMA PathsAreSequences ==
    ASSUME NEW p
    PROVE  p \in Paths <=> p \in Seq(Names) /\ Len(p) <= MaxDepth
<1>1. ASSUME p \in Paths PROVE p \in Seq(Names) /\ Len(p) <= MaxDepth
  <2>1. PICK m \in 0 .. MaxDepth : p \in [1 .. m -> Names]
    BY <1>1, Zenon DEF Paths, BoundedSeq, SeqOf
  <2>2. m \in Nat
    BY VirtualFsAssumption
  <2>3. p \in Seq(Names) /\ Len(p) = m
    BY <2>1, <2>2
  <2> QED
    BY <2>1, <2>3, VirtualFsAssumption
<1>2. ASSUME p \in Seq(Names), Len(p) <= MaxDepth PROVE p \in Paths
  <2>1. Len(p) \in 0 .. MaxDepth /\ p \in [1 .. Len(p) -> Names]
    BY <1>2, LenProperties, VirtualFsAssumption
  <2>2. p \in SeqOf(Names, MaxDepth)
    BY <2>1, Zenon DEF SeqOf
  <2> QED
    BY <2>2, Zenon DEF Paths, BoundedSeq
<1> QED
  BY <1>1, <1>2

LEMMA NothingAboveRoot == <<>> \in Seq(Names) /\ Len(<<>>) = 0 /\ Above(<<>>) = {}
<1>1. <<>> \in Seq(Names) /\ Len(<<>>) = 0
  BY EmptySeq
<1>2. ASSUME NEW q \in Above(<<>>) PROVE FALSE
  <2>1. q \in Seq(Names) /\ Len(q) < 0
    BY <1>1, AboveBegins
  <2> QED
    BY <2>1, LenProperties
<1> QED
  BY <1>1, <1>2

-----------------------------------------------------------------------------
(***************************************************************************)
(* Everything above an entry is a directory: what a step needs to know of  *)
(* the whole way up, where IsTree only tells of the next directory.        *)
(***************************************************************************)

DirsAbove == \A p \in DOMAIN entries : \A q \in Above(p) : IsDir(q)

\* The terms of VirtualFs and of TreeFs.
LEMMA SamePrefixes ==
    ASSUME NEW p
    PROVE  /\ Tree!Prefixes(p) = Prefixes(p)
           /\ \A q : Tree!IsPrefix(p, q) <=> IsPrefix(p, q)
           /\ \A S : Tree!Restrict(p, S) = Restrict(p, S)
  BY DEF Tree!Prefixes, Tree!IsPrefix, Tree!Restrict, Prefixes, IsPrefix, Restrict

LEMMA SameTerms ==
    ASSUME NEW p
    PROVE  /\ Tree!IsDir(p) <=> IsDir(p)
           /\ Tree!IsFile(p) <=> IsFile(p)
           /\ Tree!Above(p) = Above(p)
           /\ Tree!Below(p) = Within(p)
           /\ Tree!Parent(p) = Parent(p)
           /\ Tree!Prefixes(p) = Prefixes(p)
           /\ \A q : Tree!IsPrefix(p, q) <=> IsPrefix(p, q)
           /\ \A S : Tree!Restrict(p, S) = Restrict(p, S)
  BY SamePrefixes DEF Tree!IsDir, Tree!IsFile, Tree!Above, Tree!Below, Tree!Parent,
                      IsDir, IsFile, Above, Within, Parent

LEMMA DirsAboveIsTree ==
    ASSUME DOMAIN entries \subseteq Seq(Names), DirsAbove
    PROVE  Tree!IsTree
BY ParentIsAbove, SameTerms DEF DirsAbove, Tree!IsTree

LEMMA PutKeepsDirs ==
    ASSUME DOMAIN entries \subseteq Seq(Names), DirsAbove,
           NEW p \in Seq(Names), NEW c, Tree!Put(p, c)
    PROVE  DirsAbove' /\ (DOMAIN entries)' \subseteq Seq(Names)
<1>1. /\ DOMAIN entries' = {p} \cup DOMAIN entries \cup Above(p)
      /\ \A q \in DOMAIN entries' :
            entries'[q] = IF q = p THEN c ELSE IF q \in DOMAIN entries THEN entries[q] ELSE Dir
  BY PrefixesAre, SameTerms DEF Tree!Put, Tree!WithDirs
<1>2. \A q \in Above(p) : q \in Seq(Names) /\ q # p /\ Above(q) \subseteq Above(p)
  BY AboveBegins, AboveAbove
<1>3. \A q \in Above(p) : q \in DOMAIN entries' /\ entries'[q] = Dir
  BY <1>1, <1>2, SameTerms DEF Tree!Put, IsFile
<1>4. \A r \in DOMAIN entries : \A q \in Above(r) : q \in DOMAIN entries' /\ entries'[q] = Dir
  BY <1>1, SameTerms DEF Tree!Put, DirsAbove, IsDir
<1>5. DOMAIN entries' \subseteq Seq(Names)
  BY <1>1, <1>2
<1> QED
  BY <1>1, <1>2, <1>3, <1>4, <1>5 DEF DirsAbove, IsDir

LEMMA MakeDirKeepsDirs ==
    ASSUME DOMAIN entries \subseteq Seq(Names), DirsAbove,
           NEW p \in Seq(Names), Tree!MakeDir(p)
    PROVE  DirsAbove' /\ (DOMAIN entries)' \subseteq Seq(Names)
<1>1. /\ DOMAIN entries' = DOMAIN entries \cup Prefixes(p)
      /\ \A q \in DOMAIN entries' : entries'[q] = IF q \in DOMAIN entries THEN entries[q] ELSE Dir
  BY SameTerms DEF Tree!MakeDir, Tree!WithDirs
<1>2. Prefixes(p) = Above(p) \cup {p}
  BY PrefixesAre
<1>3. \A q \in Above(p) : q \in Seq(Names) /\ Above(q) \subseteq Above(p)
  BY AboveBegins, AboveAbove
<1>4. \A q \in Above(p) : q \in DOMAIN entries' /\ entries'[q] = Dir
  BY <1>1, <1>2, SameTerms DEF Tree!MakeDir, IsFile
<1>5. \A r \in DOMAIN entries : \A q \in Above(r) : q \in DOMAIN entries' /\ entries'[q] = Dir
  BY <1>1 DEF DirsAbove, IsDir
<1>6. DOMAIN entries' \subseteq Seq(Names)
  BY <1>1, <1>2, <1>3
<1> QED
  BY <1>1, <1>2, <1>3, <1>4, <1>5, <1>6 DEF DirsAbove, IsDir

LEMMA DeleteKeepsDirs ==
    ASSUME DOMAIN entries \subseteq Seq(Names), DirsAbove,
           NEW p \in Seq(Names), Tree!Delete(p)
    PROVE  DirsAbove' /\ (DOMAIN entries)' \subseteq Seq(Names)
<1>1. /\ DOMAIN entries' = DOMAIN entries \ {p}
      /\ \A q \in DOMAIN entries' : entries'[q] = entries[q]
  BY SameTerms DEF Tree!Delete, Restrict
<1>2. ASSUME NEW r \in DOMAIN entries', NEW q \in Above(r)
      PROVE  q # p
  <2>1. IsPrefix(q, r)
    BY <1>1, AboveBegins
  <2>2. r \notin Within(p)
    BY <1>1, SameTerms DEF Tree!Delete
  <2> QED
    BY <1>1, <2>1, <2>2 DEF Within
<1> QED
  BY <1>1, <1>2 DEF DirsAbove, IsDir

LEMMA EmptyKeepsDirs ==
    ASSUME DOMAIN entries \subseteq Seq(Names), DirsAbove,
           NEW p \in Seq(Names), Tree!Empty(p)
    PROVE  DirsAbove' /\ (DOMAIN entries)' \subseteq Seq(Names)
<1>1. /\ DOMAIN entries' = DOMAIN entries \ (Within(p) \ {<<>>})
      /\ \A q \in DOMAIN entries' : entries'[q] = entries[q]
  <2>1. entries' = Restrict(entries, DOMAIN entries \ (Within(p) \ {<<>>}))
    BY SameTerms DEF Tree!Empty
  <2> QED
    BY <2>1 DEF Restrict
<1>2. ASSUME NEW r \in DOMAIN entries', NEW q \in Above(r)
      PROVE  q \in DOMAIN entries'
  <2>1. /\ r \in Seq(Names) /\ q \in Seq(Names) /\ IsPrefix(q, r)
        /\ Len(q) < Len(r) /\ q \in DOMAIN entries
    BY <1>1, AboveBegins DEF DirsAbove, IsDir
  <2>2. r # <<>>
    BY <2>1, LenProperties, EmptySeq
  <2>3. ~IsPrefix(p, r)
    BY <1>1, <2>2 DEF Within
  <2>4. ~IsPrefix(p, q)
    BY <2>1, <2>3, PrefixOrder
  <2> QED
    BY <1>1, <2>1, <2>4 DEF Within
<1> QED
  BY <1>1, <1>2 DEF DirsAbove, IsDir

LEMMA MoveKeepsDirs ==
    ASSUME DOMAIN entries \subseteq Seq(Names), DirsAbove,
           NEW p \in Seq(Names), NEW q \in Seq(Names), Tree!Move(p, q)
    PROVE  DirsAbove' /\ (DOMAIN entries)' \subseteq Seq(Names)
<1> DEFINE Old(r) == IF IsPrefix(q, r) THEN Rebased(r, q, p) ELSE r
           Stay   == DOMAIN entries \ Within(p)
           Go     == {Rebased(r, p, q) : r \in Within(p)}
<1>0. /\ p \in DOMAIN entries /\ q \notin DOMAIN entries /\ IsDir(Parent(q)) /\ ~IsPrefix(p, q)
      /\ DOMAIN entries' = Stay \cup Go
      /\ \A r \in DOMAIN entries' : entries'[r] = entries[Old(r)]
  BY SameTerms DEF Tree!Move, Rebased
<1>1. \A r \in Within(p) : r \in DOMAIN entries /\ r \in Seq(Names) /\ IsPrefix(p, r)
  BY DEF Within
<1>2. DOMAIN entries' \subseteq Seq(Names)
  BY <1>0, <1>1, RebasedIs
<1> HIDE DEF Old
<1>3. ASSUME NEW a \in DOMAIN entries, entries[a] = Dir, ~IsPrefix(p, a), ~IsPrefix(q, a)
      PROVE  a \in DOMAIN entries' /\ entries'[a] = Dir
  <2>1. a \in DOMAIN entries'
    BY <1>0, <1>3 DEF Within
  <2> QED
    BY <1>0, <1>3, <2>1 DEF Old
\* What is not moved keeps its directories: none of them was moved either.
<1>4. ASSUME NEW r \in Stay, NEW a \in Above(r)
      PROVE  a \in DOMAIN entries' /\ entries'[a] = Dir
  <2>1. r \in Seq(Names) /\ a \in Seq(Names) /\ IsPrefix(a, r)
    BY AboveBegins
  <2>2. a \in DOMAIN entries /\ entries[a] = Dir
    BY DEF DirsAbove, IsDir
  <2>3. ~IsPrefix(p, a)
    BY <2>1, PrefixOrder DEF Within
  <2>4. ~IsPrefix(q, a)
    BY <1>0, <2>1, <2>2, PrefixOrder DEF DirsAbove, IsDir
  <2> QED
    BY <1>3, <2>2, <2>3, <2>4
\* What lies above the new place is in the entries already.
<1>5. ASSUME NEW a \in Above(q)
      PROVE  a \in DOMAIN entries' /\ entries'[a] = Dir
  <2>1. a \in Seq(Names) /\ IsPrefix(a, q) /\ Len(a) < Len(q)
        /\ Len(a) \in Nat /\ Len(q) \in Nat
    BY AboveBegins, LenProperties
  <2>2. a = Parent(q) \/ a \in Above(Parent(q))
    BY <2>1, ParentIsAbove
  <2>3. a \in DOMAIN entries /\ entries[a] = Dir
    BY <1>0, <2>2 DEF DirsAbove, IsDir
  <2>4. ~IsPrefix(p, a)
    BY <1>0, <2>1, PrefixOrder
  <2>5. ~IsPrefix(q, a)
    BY <2>1, PrefixAgrees
  <2> QED
    BY <1>3, <2>3, <2>4, <2>5
\* What is moved finds the directories it had below p below q again.
<1>6. ASSUME NEW r \in Within(p), NEW a \in Above(Rebased(r, p, q))
      PROVE  a \in DOMAIN entries' /\ entries'[a] = Dir
  <2> DEFINE b == Rebased(a, q, p)
  <2>1. CASE a \in Above(q)
    BY <1>5, <2>1
  <2>2. CASE IsPrefix(q, a) /\ IsPrefix(p, b) /\ b \in Above(r)
    <3>1. Rebased(r, p, q) \in Seq(Names) /\ a \in Seq(Names)
      BY <1>1, RebasedIs, AboveBegins
    <3>2. b \in DOMAIN entries /\ entries[b] = Dir
      BY <1>1, <2>2 DEF DirsAbove, IsDir
    <3>3. b \in Within(p)
      BY <2>2, <3>2 DEF Within
    <3>4. Rebased(b, p, q) = a
      BY <2>2, <3>1, ThereAndBack
    <3>5. a \in DOMAIN entries'
      BY <1>0, <3>3, <3>4
    <3>6. Old(a) = b
      BY <2>2 DEF Old
    <3> QED
      BY <1>0, <3>2, <3>5, <3>6
  <2> QED
    BY <1>1, <2>1, <2>2, AboveRebased
<1>7. ASSUME NEW r \in DOMAIN entries', NEW a \in Above(r)
      PROVE  a \in DOMAIN entries' /\ entries'[a] = Dir
  BY <1>0, <1>4, <1>6
<1> QED
  BY <1>2, <1>7 DEF DirsAbove, IsDir

\* Whatever calls are made of the tree that the map stands for, everything but
\* the root is in a directory: no mkdir -p, rename of a subtree or removal
\* leaves an entry that a walk from the root cannot reach.
THEOREM TreeStaysTree == Tree!Spec => []Tree!IsTree
<1> DEFINE TreeInv == DOMAIN entries \subseteq Seq(Names) /\ DirsAbove
<1>0. Paths \subseteq Seq(Names)
  BY PathsAreSequences
<1>1. Tree!Init => TreeInv
  <2>1. <<>> \in Seq(Names) /\ Above(<<>>) = {}
    BY NothingAboveRoot
  <2>2. Tree!Init => DOMAIN entries \subseteq {<<>>}
    BY DEF Tree!Init
  <2> QED
    BY <2>1, <2>2 DEF DirsAbove
<1>2. TreeInv /\ [Tree!Next]_entries => TreeInv'
  <2> SUFFICES ASSUME TreeInv, [Tree!Next]_entries PROVE TreeInv'
    OBVIOUS
  <2>1. CASE UNCHANGED entries
    BY <2>1 DEF DirsAbove, IsDir
  <2>2. CASE Tree!Next
    <3> PICK p \in Paths :
            \/ \E c \in Contents : Tree!Put(p, c)
            \/ Tree!MakeDir(p) \/ Tree!Delete(p) \/ Tree!Empty(p)
            \/ \E q \in Paths : Tree!Move(p, q)
      BY <2>2 DEF Tree!Next
    <3> QED
      BY <1>0, PutKeepsDirs, MakeDirKeepsDirs, DeleteKeepsDirs, EmptyKeepsDirs, MoveKeepsDirs
  <2> QED
    BY <2>1, <2>2
<1>3. TreeInv => Tree!IsTree
  BY DirsAboveIsTree
<1> QED
  BY <1>1, <1>2, <1>3, PTL DEF Tree!Spec

-----------------------------------------------------------------------------
(* The order of the map, and rename's copies in it *)

\* Where p and q part, from p's side.
Parts(p, q, i) ==
    /\ i \in 1 .. Len(q) /\ i <= Len(p) + 1
    /\ \A j \in 1 .. i - 1 : p[j] = q[j]
    /\ i = Len(p) + 1 \/ p[i] < q[i]

LEMMA BeforeParts ==
    ASSUME NEW p \in Seq(Names), NEW q \in Seq(Names)
    PROVE  Before(p, q) <=> \E i \in Nat : Parts(p, q, i)
<1>0. /\ Len(p) \in Nat /\ DOMAIN p = 1 .. Len(p)
      /\ Len(q) \in Nat /\ DOMAIN q = 1 .. Len(q)
  BY LenProperties
<1>1. ASSUME IsStrictPrefix(p, q) PROVE Parts(p, q, Len(p) + 1)
  <2>1. Len(p) <= Len(q) /\ p # q /\ \A i \in 1 .. Len(p) : p[i] = q[i]
    BY <1>1, PrefixAgrees DEF IsStrictPrefix
  <2>2. Len(p) # Len(q)
    BY <2>1, SeqEqual
  <2>3. Len(p) + 1 \in 1 .. Len(q) /\ (Len(p) + 1) - 1 = Len(p)
    <3> DEFINE m == Len(p)
               n == Len(q)
    <3>1. m \in Nat /\ n \in Nat /\ m <= n /\ m # n
      BY <1>0, <2>1, <2>2
    <3> HIDE DEF m, n
    <3>2. m + 1 \in 1 .. n /\ (m + 1) - 1 = m
      BY <3>1
    <3> QED
      BY <3>2 DEF m, n
  <2> QED
    BY <2>1, <2>3 DEF Parts
<1>2. ASSUME NEW i \in DOMAIN p \cap DOMAIN q, p[i] < q[i],
             \A j \in 1 .. i - 1 : p[j] = q[j]
      PROVE  Parts(p, q, i)
  BY <1>0, <1>2 DEF Parts
<1>3. ASSUME NEW i \in Nat, Parts(p, q, i) PROVE Before(p, q)
  <2>1. CASE i = Len(p) + 1
    <3>1. Len(p) <= Len(q) /\ Len(p) # Len(q) /\ \A j \in 1 .. Len(p) : p[j] = q[j]
      <4>1. i - 1 = Len(p) /\ i \in 1 .. Len(q) /\ \A j \in 1 .. i - 1 : p[j] = q[j]
        BY <1>0, <1>3, <2>1 DEF Parts
      <4>2. Len(p) <= Len(q) /\ Len(p) # Len(q)
        <5> DEFINE m == Len(p)
                   n == Len(q)
        <5>1. m \in Nat /\ n \in Nat /\ i - 1 = m /\ i \in 1 .. n
          BY <1>0, <4>1
        <5> HIDE DEF m, n
        <5>2. m <= n /\ m # n
          BY <5>1
        <5> QED
          BY <5>2 DEF m, n
      <4> QED
        BY <4>1, <4>2
    <3>2. IsPrefix(p, q) /\ p # q
      BY <3>1, PrefixAgrees
    <3> QED
      BY <3>2 DEF Before, IsStrictPrefix
  <2>2. CASE i # Len(p) + 1
    <3>1. i \in DOMAIN p \cap DOMAIN q /\ p[i] < q[i] /\ \A j \in 1 .. i - 1 : p[j] = q[j]
      BY <1>0, <1>3, <2>2 DEF Parts
    <3> QED
      BY <3>1 DEF Before
  <2> QED
    BY <2>1, <2>2
<1>4. Before(p, q) => \E i \in Nat : Parts(p, q, i)
  <2>1. ASSUME Before(p, q) PROVE \E i \in Nat : Parts(p, q, i)
    <3>1. CASE IsStrictPrefix(p, q)
      BY <1>0, <1>1, <3>1
    <3>2. CASE \E i \in DOMAIN p \cap DOMAIN q :
                  p[i] < q[i] /\ \A j \in 1 .. i - 1 : p[j] = q[j]
      BY <1>0, <1>2, <3>2
    <3> QED
      BY <2>1, <3>1, <3>2 DEF Before
  <2> QED
    BY <2>1
<1> QED
  BY <1>3, <1>4

LEMMA BeforeIsOrder ==
    ASSUME NEW p \in Seq(Names), NEW q \in Seq(Names), NEW r \in Seq(Names)
    PROVE  /\ ~Before(p, p)
           /\ Before(p, q) /\ Before(q, r) => Before(p, r)
<1>0. /\ Len(p) \in Nat /\ \A i \in 1 .. Len(p) : p[i] \in Nat
      /\ Len(q) \in Nat /\ \A i \in 1 .. Len(q) : q[i] \in Nat
      /\ Len(r) \in Nat /\ \A i \in 1 .. Len(r) : r[i] \in Nat
  BY LenProperties, ElementOfSeq, VirtualFsAssumption
<1>1. ~Before(p, p)
  <2>1. ASSUME NEW i \in Nat PROVE ~Parts(p, p, i)
    BY <1>0 DEF Parts
  <2> QED
    BY <2>1, BeforeParts
<1>2. ASSUME NEW i \in Nat, Parts(p, q, i), NEW k \in Nat, Parts(q, r, k)
      PROVE  \E m \in Nat : Parts(p, r, m)
  <2>1. CASE i <= k
    <3>1. Parts(p, r, i)
      BY <1>0, <1>2, <2>1 DEF Parts
    <3> QED
      BY <3>1
  <2>2. CASE k < i
    <3>1. Parts(p, r, k)
      BY <1>0, <1>2, <2>2 DEF Parts
    <3> QED
      BY <3>1
  <2> QED
    BY <2>1, <2>2
<1> QED
  BY <1>1, <1>2, BeforeParts

LEMMA BeforeIsTotal ==
    ASSUME NEW p \in Seq(Names), NEW q \in Seq(Names), p # q
    PROVE  Before(p, q) \/ Before(q, p)
<1>0. /\ Len(p) \in Nat /\ \A i \in 1 .. Len(p) : p[i] \in Nat
      /\ Len(q) \in Nat /\ \A i \in 1 .. Len(q) : q[i] \in Nat
  BY LenProperties, ElementOfSeq, VirtualFsAssumption
<1> DEFINE D == {i \in Nat : i \in 1 .. Len(p) /\ i \in 1 .. Len(q) /\ p[i] # q[i]}
<1>1. CASE D = {}
  <2>1. \A i \in 1 .. Len(p) : i <= Len(q) => p[i] = q[i]
    BY <1>0, <1>1
  <2>2. CASE Len(p) < Len(q)
    <3>1. Parts(p, q, Len(p) + 1)
      BY <1>0, <2>1, <2>2 DEF Parts
    <3> QED
      BY <1>0, <3>1, BeforeParts
  <2>3. CASE Len(q) < Len(p)
    <3>1. Parts(q, p, Len(q) + 1)
      BY <1>0, <2>1, <2>3 DEF Parts
    <3> QED
      BY <1>0, <3>1, BeforeParts
  <2>4. Len(p) # Len(q)
    BY <1>0, <2>1, SeqEqual
  <2> QED
    BY <1>0, <2>2, <2>3, <2>4
<1>2. CASE D # {}
  <2>1. PICK i \in D : \A j \in D : i <= j
    <3>1. D \subseteq Nat
      OBVIOUS
    <3> HIDE DEF D
    <3> QED
      BY <1>2, <3>1, LeastNat
  <2>2. i \in Nat /\ i \in 1 .. Len(p) /\ i \in 1 .. Len(q) /\ p[i] # q[i]
    OBVIOUS
  <2>3. \A j \in 1 .. i - 1 : p[j] = q[j]
    BY <1>0, <2>1, <2>2
  <2>4. Parts(p, q, i) \/ Parts(q, p, i)
    BY <1>0, <2>2, <2>3 DEF Parts
  <2> QED
    BY <2>2, <2>4, BeforeParts
<1> QED
  BY <1>1, <1>2

\* iter() goes over every entry of the map, and nothing else.
LEMMA SortedGoesOverAll ==
    ASSUME NEW S, S \subseteq Seq(Names), IsFiniteSet(S)
    PROVE  /\ Cardinality(S) \in Nat
           /\ Sorted(S) \in [1 .. Cardinality(S) -> S]
           /\ \A p \in S : \E k \in 1 .. Cardinality(S) : Sorted(S)[k] = p
<1> DEFINE n == Cardinality(S)
           First(p) == {q \in S : Before(q, p)}
           rank == [p \in S |-> Cardinality(First(p))]
<1>0. n \in Nat
  BY FS_CardinalityType
<1>1. ASSUME NEW p \in S
      PROVE  First(p) \in SUBSET S /\ IsFiniteSet(First(p)) /\ p \notin First(p)
  <2>1. ~Before(p, p)
    BY BeforeIsOrder
  <2>2. First(p) \in SUBSET S
    OBVIOUS
  <2> QED
    BY <2>1, <2>2, FS_Subset
<1>2. ASSUME NEW p \in S PROVE rank[p] \in 0 .. n - 1
  <2>1. Cardinality(First(p)) \in Nat /\ Cardinality(First(p)) <= n
    BY <1>1, FS_CardinalityType, FS_Subset
  <2>2. First(p) # S
    BY <1>1
  <2>3. Cardinality(First(p)) # n
    BY <1>1, <2>2, FS_Subset
  <2>4. rank[p] = Cardinality(First(p))
    OBVIOUS
  <2> HIDE DEF n, rank
  <2> QED
    BY <1>0, <2>1, <2>3, <2>4
<1>3. ASSUME NEW p \in S, NEW q \in S, Before(p, q) PROVE rank[p] # rank[q]
  <2>1. First(p) \in SUBSET First(q)
    BY <1>3, BeforeIsOrder
  <2>2. p \in First(q)
    BY <1>3
  <2>3. First(p) # First(q)
    BY <1>1, <2>2
  <2>4. Cardinality(First(p)) # Cardinality(First(q))
    BY <1>1, <2>1, <2>3, FS_Subset
  <2> QED
    BY <2>4
<1>4. ASSUME NEW p \in S, NEW q \in S, p # q PROVE rank[p] # rank[q]
  BY <1>3, <1>4, BeforeIsTotal
<1>5. rank \in Injection(S, 0 .. n - 1)
  <2>1. rank \in [S -> 0 .. n - 1]
    BY <1>2
  <2>2. IsInjective(rank)
    <3> HIDE DEF rank
    <3> QED
      BY <1>4, <2>1 DEF IsInjective
  <2> HIDE DEF rank
  <2> QED
    BY <2>1, <2>2 DEF Injection
<1>6. \A m \in 0 .. n - 1 : \E p \in S : rank[p] = m
  <2>1. IsFiniteSet(0 .. n - 1) /\ Cardinality(0 .. n - 1) = n
    <3> HIDE DEF n
    <3>1. 0 \in Int /\ n - 1 \in Int
      BY <1>0
    <3> QED
      BY <1>0, <3>1, FS_Interval
  <2> DEFINE T == 0 .. n - 1
  <2> HIDE DEF rank, T
  <2>2. rank \in Injection(S, T) /\ IsFiniteSet(T) /\ Cardinality(T) = Cardinality(S)
    BY <1>5, <2>1 DEF T
  <2>3. rank \in Surjection(S, T)
    BY <2>2, FS_Injection
  <2> QED
    BY <2>3 DEF Surjection, T
<1>7. ASSUME NEW k \in 1 .. n
      PROVE  Sorted(S)[k] \in S /\ rank[Sorted(S)[k]] = k - 1
  <2>1. \E p \in S : Cardinality(First(p)) = k - 1
    <3>1. k - 1 \in 0 .. n - 1
      BY <1>0
    <3> QED
      BY <1>6, <3>1
  <2>2. Sorted(S)[k] = CHOOSE p \in S : Cardinality(First(p)) = k - 1
    <3>1. Sorted(S) = [j \in 1 .. n |-> CHOOSE p \in S : Cardinality(First(p)) = j - 1]
      BY Zenon DEF Sorted
    <3> HIDE DEF First
    <3> QED
      BY <3>1
  <2> QED
    BY <2>1, <2>2
<1>8. Sorted(S) \in [1 .. n -> S]
  <2>1. Sorted(S) = [k \in 1 .. n |-> Sorted(S)[k]]
    <3>1. Sorted(S) = [j \in 1 .. n |-> CHOOSE p \in S : Cardinality(First(p)) = j - 1]
      BY Zenon DEF Sorted
    <3> HIDE DEF First, n
    <3> QED
      BY <3>1
  <2> QED
    BY <1>7, <2>1
<1>9. ASSUME NEW p \in S PROVE \E k \in 1 .. n : Sorted(S)[k] = p
  <2> DEFINE k == rank[p] + 1
  <2>1. k \in 1 .. n /\ k - 1 = rank[p]
    <3>1. rank[p] \in 0 .. n - 1
      BY <1>2
    <3> HIDE DEF rank, n
    <3> QED
      BY <1>0, <3>1
  <2>2. Sorted(S)[k] \in S /\ rank[Sorted(S)[k]] = rank[p]
    BY <1>7, <2>1
  <2>3. Sorted(S)[k] = p
    <3> HIDE DEF rank, k
    <3> QED
      BY <1>4, <2>2
  <2> QED
    BY <2>1, <2>3
<1> QED
  BY <1>0, <1>8, <1>9

-----------------------------------------------------------------------------
(* normalize *)

\* One component at a time, a path grows by at most one name.
LEMMA ComponentIs ==
    ASSUME NEW k \in Nat, NEW p, NEW c \in Names \cup {Dot, Up},
           p = Invalid \/ (p \in Seq(Names) /\ Len(p) <= k)
    PROVE  \/ Component(p, c) = Invalid
           \/ Component(p, c) \in Seq(Names) /\ Len(Component(p, c)) <= k + 1
<1>1. CASE p = Invalid
  BY <1>1 DEF Component
<1>2. CASE p # Invalid
  <2>0. p \in Seq(Names) /\ Len(p) <= k /\ Len(p) \in Nat
    BY <1>2, LenProperties
  <2>1. CASE c = Dot
    BY <2>0, <2>1 DEF Component
  <2>2. CASE c # Dot /\ c # Up
    <3>1. Component(p, c) = Append(p, c) /\ c \in Names
      BY <1>2, <2>2 DEF Component
    <3> QED
      BY <2>0, <3>1, AppendProperties
  <2>3. CASE c = Up
    <3>1. c # Dot
      BY <2>3 DEF Dot, Up
    <3>2. CASE p = Root
      BY <2>3, <3>1, <3>2 DEF Component
    <3>3. CASE p # Root
      <4>1. Component(p, c) = SubSeq(p, 1, Len(p) - 1)
        BY <1>2, <2>3, <3>1, <3>3 DEF Component, Front
      <4>2. Len(p) # 0
        BY <2>0, <3>3, EmptySeq DEF Root
      <4>3. Len(p) - 1 \in 0 .. Len(p)
        BY <2>0, <4>2
      <4>4. SubSeq(p, 1, Len(p) - 1) \in Seq(Names) /\ Len(SubSeq(p, 1, Len(p) - 1)) = Len(p) - 1
        BY <2>0, <4>3, Initial
      <4> QED
        BY <2>0, <4>1, <4>4
    <3> QED
      BY <3>2, <3>3
  <2> QED
    BY <2>1, <2>2, <2>3
<1> QED
  BY <1>1, <1>2

\* normalize returns a path that is no longer than the text, or fails.
LEMMA NormalizeIs ==
    ASSUME NEW raw \in Raws
    PROVE  Normalize(raw) = Invalid \/ Normalize(raw) \in Paths
<1> DEFINE n == Len(raw)
           body(g) == [s \in SUBSET (DOMAIN raw) |->
                         IF s = {} THEN Root
                         ELSE Component(g[s \ {Max(s)}], raw[Max(s)])]
           it == CHOOSE g : g = body(g)
           R == {Invalid} \cup Seq(Names)
           step == [p \in (1 .. n) \X R |-> Component(p[2], raw[p[1]])]
<1>1. /\ n \in Nat /\ DOMAIN raw = 1 .. n /\ n <= MaxDepth
      /\ \A i \in 1 .. n : raw[i] \in Names \cup {Dot, Up}
  <2>1. raw \in Seq(Names \cup {Dot, Up})
    BY VirtualFsAssumption
  <2> QED
    BY <2>1, VirtualFsAssumption, LenProperties, ElementOfSeq
<1>2. Root \in R /\ Root \in Seq(Names) /\ Len(Root) = 0
  BY EmptySeq DEF Root
<1>3. step \in [(1 .. n) \X R -> R]
  <2> SUFFICES ASSUME NEW i \in 1 .. n, NEW p \in R PROVE Component(p, raw[i]) \in R
    OBVIOUS
  <2>1. raw[i] \in Names \cup {Dot, Up}
    BY <1>1
  <2>2. p = Invalid \/ (p \in Seq(Names) /\ Len(p) <= Len(p) /\ Len(p) \in Nat)
    BY LenProperties
  <2>3. CASE p = Invalid
    BY <2>3 DEF Component
  <2>4. CASE p # Invalid
    BY <2>1, <2>2, <2>4, ComponentIs
  <2> QED
    BY <2>3, <2>4
<1>4. \A k \in 1 .. n : /\ 1 .. k \in SUBSET (1 .. n) /\ 1 .. k # {}
                        /\ Max(1 .. k) = k /\ (1 .. k) \ {k} = 1 .. k - 1
  BY <1>1, MaxOfRange
<1>5. FoldLeft(Component, Root, raw) = it[1 .. n]
  BY <1>1 DEF FoldLeft, MapThenFoldSet
<1>6. \E g : g = body(g)
  <2> HIDE DEF step, R, n
  <2>1. PICK g \in [SUBSET (1 .. n) -> R] : IsMaxFold(g, n, Root, step)
    BY <1>1, <1>2, <1>3, MaxFold
  <2>2. ASSUME NEW s \in SUBSET (1 .. n), s # {}
        PROVE  g[s] = Component(g[s \ {Max(s)}], raw[Max(s)])
    <3>1. Max(s) \in 1 .. n /\ g[s \ {Max(s)}] \in R
      BY <2>1, <2>2 DEF IsMaxFold
    <3> QED
      BY <2>1, <2>2, <3>1 DEF step, IsMaxFold
  <2>3. g = body(g)
    BY <1>1, <2>1, <2>2 DEF IsMaxFold
  <2> QED
    BY <2>3
<1>7. it = body(it)
  BY <1>6
<1> HIDE DEF it
<1>8. \A s \in SUBSET (1 .. n) :
         it[s] = IF s = {} THEN Root ELSE Component(it[s \ {Max(s)}], raw[Max(s)])
  BY <1>1, <1>7
<1> HIDE DEF n, step, R
<1> DEFINE Ok(p, k) == p = Invalid \/ (p \in Seq(Names) /\ Len(p) <= k)
           T == {k \in Nat : k <= n => Ok(it[1 .. k], k)}
<1>9. 0 \in T
  <2>1. 1 .. 0 = {} /\ {} \in SUBSET (1 .. n)
    OBVIOUS
  <2>2. it[{}] = Root
    BY <1>8, <2>1
  <2>3. Ok(it[1 .. 0], 0)
    <3>1. it[1 .. 0] = Root
      BY <2>1, <2>2, Zenon
    <3> QED
      BY <1>2, <3>1
  <2> QED
    BY <2>3
<1>10. ASSUME NEW k \in Nat, k \in T PROVE k + 1 \in T
  <2> SUFFICES ASSUME k + 1 <= n PROVE Ok(it[1 .. k + 1], k + 1)
    OBVIOUS
  <2>1. k + 1 \in 1 .. n /\ (k + 1) - 1 = k
    BY <1>1
  <2>2. /\ 1 .. k + 1 \in SUBSET (1 .. n) /\ 1 .. k + 1 # {}
        /\ Max(1 .. k + 1) = k + 1
        /\ (1 .. k + 1) \ {k + 1} = 1 .. k
    BY <1>4, <2>1
  <2>3. it[1 .. k + 1] = Component(it[1 .. k], raw[k + 1])
    BY <1>8, <2>2
  <2>4. Ok(it[1 .. k], k)
    BY <1>1, <1>10
  <2>5. raw[k + 1] \in Names \cup {Dot, Up}
    BY <1>1, <2>1
  <2> QED
    BY <2>3, <2>4, <2>5, ComponentIs
<1>11. n \in T
  <2> HIDE DEF T
  <2> QED
    BY <1>1, <1>9, <1>10, NatSetInduction
<1>12. Ok(it[1 .. n], n)
  BY <1>1, <1>11
<1>13. Normalize(raw) \in {Invalid, it[1 .. n]}
  BY <1>5 DEF Normalize
<1>14. CASE it[1 .. n] # Invalid
  <2>1. it[1 .. n] \in Seq(Names) /\ Len(it[1 .. n]) \in Nat /\ Len(it[1 .. n]) <= MaxDepth
    BY <1>1, <1>12, <1>14, LenProperties, VirtualFsAssumption
  <2> QED
    BY <1>13, <2>1, PathsAreSequences
<1> QED
  BY <1>13, <1>14

-----------------------------------------------------------------------------
(* What a call does to the map *)

Shape ==
    /\ entries \in [DOMAIN entries -> Contents \cup {Dir}]
    /\ DOMAIN entries \subseteq Paths
    /\ IsFiniteSet(DOMAIN entries)

LEMMA AboveIsFinite ==
    ASSUME NEW p \in Paths
    PROVE  IsFiniteSet(Above(p)) /\ Above(p) \subseteq Paths
<1>0. p \in Seq(Names) /\ Len(p) \in Nat /\ Len(p) <= MaxDepth /\ MaxDepth \in Nat
  BY PathsAreSequences, LenProperties, VirtualFsAssumption
<1> DEFINE T == 0 .. Len(p)
           P == Prefixes(p)
           f == [n \in T |-> SubSeq(p, 1, n)]
<1>1. f \in Surjection(T, P)
  BY DEF Surjection, Prefixes
<1>2. IsFiniteSet(T)
  BY <1>0, FS_Interval
<1>3. IsFiniteSet(P)
  <2> HIDE DEF T, P, f
  <2> QED
    BY <1>1, <1>2, FS_Surjection
<1>4. IsFiniteSet(Above(p))
  <2>1. Above(p) \subseteq P
    BY DEF Above
  <2> HIDE DEF P
  <2> QED
    BY <1>3, <2>1, FS_Subset
<1>5. ASSUME NEW q \in Above(p) PROVE q \in Paths
  <2>1. q \in Seq(Names) /\ Len(q) < Len(p)
    BY <1>0, AboveBegins
  <2>2. Len(q) \in Nat /\ Len(q) <= MaxDepth
    BY <1>0, <2>1, LenProperties
  <2> QED
    BY <2>1, <2>2, PathsAreSequences
<1> QED
  BY <1>4, <1>5

\* Of two paths above a third, the shorter one is above the longer one.
LEMMA AboveChain ==
    ASSUME NEW p \in Seq(Names), NEW q \in Above(p), NEW f \in Above(p), Len(q) < Len(f)
    PROVE  q \in Above(f)
<1>1. q \in Seq(Names) /\ IsPrefix(q, p) /\ f \in Seq(Names) /\ IsPrefix(f, p)
  BY AboveBegins
<1>2. /\ Len(q) \in Nat /\ Len(f) \in Nat
      /\ \A i \in 1 .. Len(q) : q[i] = p[i]
      /\ \A i \in 1 .. Len(f) : f[i] = p[i]
  BY <1>1, LenProperties, PrefixAgrees
<1>3. Len(q) <= Len(f) /\ \A i \in 1 .. Len(q) : q[i] = f[i]
  BY <1>2
<1>4. IsPrefix(q, f)
  BY <1>1, <1>3, PrefixAgrees
<1> QED
  BY <1>1, <1>4, AboveBegins

-----------------------------------------------------------------------------
(* What each call does to the map: what the tree's call does, or nothing *)

LEMMA PathFacts ==
    ASSUME NEW p \in Paths
    PROVE  /\ p \in Seq(Names) /\ Len(p) \in Nat /\ Len(p) <= MaxDepth
           /\ Prefixes(p) = Above(p) \cup {p} /\ p \notin Above(p)
           /\ Above(p) \subseteq Paths /\ IsFiniteSet(Above(p))
  BY PathsAreSequences, LenProperties, PrefixesAre, AboveIsFinite DEF Above

LEMMA WriteFilePuts ==
    ASSUME Shape, DirsAbove, NEW p \in Paths, NEW c \in Contents, WriteFile(p, c), ~IsDir(p)
    PROVE  \/ Tree!Put(p, c) /\ Shape' /\ ret' = "ok"
           \/ UNCHANGED entries
<1> DEFINE files   == {q \in Above(p) : IsFile(q)}
           missing == {q \in Above(p) : \A f \in files : Len(q) < Len(f)}
           parents == OrDirs(entries, missing)
<1>0. /\ p \in Seq(Names) /\ Prefixes(p) = Above(p) \cup {p} /\ p \notin Above(p)
      /\ Above(p) \subseteq Paths /\ IsFiniteSet(Above(p))
  BY PathFacts
<1>1. CASE files = {} /\ entries' = Insert(parents, p, c) /\ ret' = "ok"
  <2>1. missing = Above(p)
    BY <1>1
  <2>2. entries' = Insert(OrDirs(entries, Above(p)), p, c)
    BY <1>1, <2>1
  <2> HIDE DEF files, missing, parents
  <2>3. /\ DOMAIN entries' = DOMAIN entries \cup Prefixes(p)
        /\ entries' = [q \in DOMAIN entries \cup Prefixes(p) |->
                          IF q = p THEN c ELSE IF q \in DOMAIN entries THEN entries[q] ELSE Dir]
    BY <1>0, <2>2 DEF Insert, OrDirs
  <2>4. Tree!WithDirs(entries, Prefixes(p)) =
           [q \in DOMAIN entries \cup Prefixes(p) |->
               IF q \in DOMAIN entries THEN entries[q] ELSE Dir]
    BY DEF Tree!WithDirs
  <2>5. entries' = [Tree!WithDirs(entries, Prefixes(p)) EXCEPT ![p] = c]
    BY <1>0, <2>3, <2>4
  <2>6. Tree!Put(p, c)
    <3>1. \A q \in Above(p) : ~IsFile(q)
      BY <1>1 DEF files
    <3> QED
      BY <2>5, <3>1, SameTerms DEF Tree!Put
  <2>7. Shape'
    <3>1. IsFiniteSet(DOMAIN entries \cup Above(p)) /\ IsFiniteSet(DOMAIN entries')
      BY <1>0, <2>3, FS_Union, FS_AddElement DEF Shape
    <3>2. entries' \in [DOMAIN entries' -> Contents \cup {Dir}] /\ DOMAIN entries' \subseteq Paths
      BY <1>0, <2>3 DEF Shape
    <3> QED
      BY <3>1, <3>2 DEF Shape
  <2> QED
    BY <1>1, <2>6, <2>7
<1>2. CASE files # {} /\ entries' = parents
  <2>1. PICK f \in Above(p) : IsFile(f) /\ \A q \in missing : Len(q) < Len(f)
    BY <1>2
  <2>2. ASSUME NEW q \in missing PROVE q \in DOMAIN entries
    <3>1. q \in Above(p) /\ Len(q) < Len(f)
      BY <2>1
    <3>2. q \in Above(f)
      BY <1>0, <2>1, <3>1, AboveChain
    <3> QED
      BY <2>1, <3>2 DEF DirsAbove, IsFile, IsDir
  <2> HIDE DEF missing
  <2>3. OrDirs(entries, missing) = entries
    BY <2>2 DEF OrDirs, Shape
  <2> QED
    BY <1>2, <2>3
<1> QED
  BY <1>1, <1>2 DEF WriteFile, Returns

LEMMA CreateDirMakes ==
    ASSUME Shape, DirsAbove, NEW p \in Paths, CreateDir(p), \A q \in Above(p) : ~IsFile(q)
    PROVE  \/ Tree!MakeDir(p) /\ Shape' /\ ret' = "ok"
           \/ UNCHANGED entries
<1>0. /\ Prefixes(p) = Above(p) \cup {p} /\ Above(p) \subseteq Paths /\ IsFiniteSet(Above(p))
  BY PathFacts
<1>1. CASE p \notin DOMAIN entries /\ entries' = OrDirs(entries, Prefixes(p)) /\ ret' = "ok"
  <2>1. Tree!MakeDir(p)
    BY <1>1, SameTerms DEF Tree!MakeDir, Tree!WithDirs, OrDirs
  <2>2. /\ DOMAIN entries' = DOMAIN entries \cup Prefixes(p)
        /\ entries' = [q \in DOMAIN entries \cup Prefixes(p) |->
                          IF q \in DOMAIN entries THEN entries[q] ELSE Dir]
    BY <1>1 DEF OrDirs
  <2>3. IsFiniteSet(DOMAIN entries \cup Above(p)) /\ IsFiniteSet(DOMAIN entries')
    <3>1. IsFiniteSet(DOMAIN entries \cup Above(p))
      BY <1>0, FS_Union DEF Shape
    <3>2. DOMAIN entries' = (DOMAIN entries \cup Above(p)) \cup {p}
      BY <1>0, <2>2
    <3> QED
      BY <3>1, <3>2, FS_AddElement
  <2>4. entries' \in [DOMAIN entries' -> Contents \cup {Dir}] /\ DOMAIN entries' \subseteq Paths
    BY <1>0, <2>2 DEF Shape
  <2> QED
    BY <1>1, <2>1, <2>3, <2>4 DEF Shape
<1> QED
  BY <1>1 DEF CreateDir, Returns, Refuses

LEMMA WithoutKeepsShape ==
    ASSUME Shape, NEW S, entries' = Without(entries, S)
    PROVE  Shape'
<1>1. /\ DOMAIN entries' = DOMAIN entries \ S
      /\ entries' = [q \in DOMAIN entries \ S |-> entries[q]]
  BY DEF Without, Restrict
<1>2. DOMAIN entries' \in SUBSET DOMAIN entries
  BY <1>1
<1>3. IsFiniteSet(DOMAIN entries')
  BY <1>2, FS_Subset DEF Shape
<1> QED
  BY <1>1, <1>3 DEF Shape

LEMMA RemoveFileDeletes ==
    ASSUME Shape, DirsAbove, NEW p \in Paths, RemoveFile(p)
    PROVE  \/ Tree!Delete(p) /\ Shape' /\ ret' = "ok"
           \/ UNCHANGED entries
<1>1. CASE IsFile(p) /\ entries' = Without(entries, {p}) /\ ret' = "ok"
  <2>1. Within(p) = {p}
    <3>1. ASSUME NEW q \in Within(p), q # p PROVE FALSE
      <4>1. q \in DOMAIN entries /\ q \in Seq(Names) /\ p \in Seq(Names) /\ IsPrefix(p, q)
        BY PathFacts DEF Within, Shape
      <4>2. p \in Above(q)
        BY <3>1, <4>1, PrefixOrder
      <4> QED
        BY <1>1, <4>1, <4>2 DEF DirsAbove, IsDir, IsFile
    <3>2. p \in Within(p)
      BY <1>1, PathFacts, PrefixOrder DEF Within, IsFile
    <3> QED
      BY <3>1, <3>2
  <2>2. Tree!Delete(p)
    BY <1>1, <2>1, SameTerms DEF Tree!Delete, Without
  <2> QED
    BY <1>1, <2>2, WithoutKeepsShape
<1> QED
  BY <1>1 DEF RemoveFile, Returns, Refuses

LEMMA RemoveDirDeletes ==
    ASSUME Shape, DirsAbove, NEW p \in Paths, RemoveDir(p)
    PROVE  \/ Tree!Delete(p) /\ Shape' /\ ret' = "ok"
           \/ UNCHANGED entries
<1>1. CASE IsDir(p) /\ ChildCount(p) = 0 /\ entries' = Without(entries, {p}) /\ ret' = "ok"
  <2>1. Within(p) = {p}
    <3>1. Within(p) \ {p} \in SUBSET DOMAIN entries
      BY DEF Within
    <3>2. IsFiniteSet(Within(p) \ {p})
      BY <3>1, FS_Subset DEF Shape
    <3>3. Within(p) \ {p} = {}
      BY <1>1, <3>2, FS_EmptySet DEF ChildCount
    <3>4. p \in Within(p)
      BY <1>1, PathFacts, PrefixOrder DEF Within, IsDir
    <3> QED
      BY <3>3, <3>4
  <2>2. Tree!Delete(p)
    BY <1>1, <2>1, SameTerms DEF Tree!Delete, Without
  <2> QED
    BY <1>1, <2>2, WithoutKeepsShape
<1> QED
  BY <1>1 DEF RemoveDir, Returns, Refuses

LEMMA RemoveDirAllEmpties ==
    ASSUME Shape, DirsAbove, NEW p \in Paths, RemoveDirAll(p)
    PROVE  \/ Tree!Empty(p) /\ Shape' /\ ret' = "ok"
           \/ UNCHANGED entries
<1>1. CASE /\ IsDir(p) /\ entries' = Without(entries, Within(p) \ {Root}) /\ ret' = "ok"
  <2>1. Tree!Empty(p)
    BY <1>1, SameTerms DEF Tree!Empty, Without, Root
  <2> QED
    BY <1>1, <2>1, WithoutKeepsShape
<1> QED
  BY <1>1 DEF RemoveDirAll, Returns, Refuses

-----------------------------------------------------------------------------
(* rename *)

\* What is found at x was at Old(x, p, q), and what was in D has gone to q.
Old(x, p, q) == IF IsPrefix(q, x) THEN Rebased(x, q, p) ELSE x

HasMoved(es, D, p, q) ==
    /\ \A x : x \in DOMAIN es <=> \/ x \in DOMAIN entries \ D
                                  \/ \E r \in D : x = Rebased(r, p, q)
    /\ \A x \in DOMAIN es : es[x] = entries[Old(x, p, q)]

\* What a caller of rename that is not reckless asks for.
Movable(p, q) ==
    /\ p \in DOMAIN entries /\ q \notin DOMAIN entries
    /\ ~IsPrefix(p, q) /\ IsDir(Parent(q))

LEMMA MoveEntryMoves ==
    ASSUME Shape, DirsAbove, NEW p \in Paths, NEW q \in Paths, Movable(p, q),
           NEW r \in Within(p), NEW D \in SUBSET Within(p), NEW es, HasMoved(es, D, p, q)
    PROVE  HasMoved(MoveEntry(p, q, es, r), D \cup {r}, p, q)
<1> DEFINE t    == Rebased(r, p, q)
           next == MoveEntry(p, q, es, r)
<1>0. p \in Seq(Names) /\ q \in Seq(Names)
  BY PathFacts
<1>1. \A s \in Within(p) : s \in DOMAIN entries /\ s \in Seq(Names) /\ IsPrefix(p, s)
  BY PathFacts DEF Within, Shape
\* Nothing of what there is lies at or below the new place.
<1>2. \A s \in DOMAIN entries : ~IsPrefix(q, s)
  <2> SUFFICES ASSUME NEW s \in DOMAIN entries, IsPrefix(q, s) PROVE FALSE
    OBVIOUS
  <2>1. s \in Seq(Names) /\ s # q
    BY PathFacts DEF Shape, Movable
  <2>2. q \in Above(s)
    BY <1>0, <2>1, PrefixOrder
  <2> QED
    BY <2>2 DEF DirsAbove, IsDir, Movable
<1>3. \A s \in Within(p) : IsPrefix(q, Rebased(s, p, q)) /\ Old(Rebased(s, p, q), p, q) = s
  BY <1>0, <1>1, RebasedIs, ThereAndBack DEF Old
<1>4. /\ DOMAIN next = (DOMAIN es \ {r}) \cup {t}
      /\ \A x \in DOMAIN next : next[x] = IF x = t THEN entries[r] ELSE es[x]
  BY DEF MoveEntry, Insert, Without, Restrict, Rebased
<1> HIDE DEF next, t
<1>5. t = Rebased(r, p, q) /\ Old(t, p, q) = r
  BY <1>3 DEF t
<1>6. \A s \in D : Rebased(s, p, q) # r
  BY <1>1, <1>2, <1>3
<1>7. ASSUME NEW x
      PROVE  x \in DOMAIN next <=> \/ x \in DOMAIN entries \ (D \cup {r})
                                   \/ \E s \in D \cup {r} : x = Rebased(s, p, q)
  BY <1>4, <1>5, <1>6 DEF HasMoved
<1>8. ASSUME NEW x \in DOMAIN next PROVE next[x] = entries[Old(x, p, q)]
  BY <1>4, <1>5 DEF HasMoved
<1>9. next = MoveEntry(p, q, es, r)
  BY DEF next
<1> QED
  BY <1>7, <1>8, <1>9 DEF HasMoved

Map == UNION {[D -> Contents \cup {Dir}] : D \in SUBSET Seq(Names)}

LEMMA MoveEntryIsMap ==
    ASSUME Shape, NEW p \in Paths, NEW q \in Paths, NEW r \in Within(p), NEW es \in Map
    PROVE  MoveEntry(p, q, es, r) \in Map
<1> DEFINE t    == Rebased(r, p, q)
           next == MoveEntry(p, q, es, r)
           C    == Contents \cup {Dir}
<1>1. p \in Seq(Names) /\ q \in Seq(Names) /\ r \in Seq(Names) /\ IsPrefix(p, r)
      /\ r \in DOMAIN entries /\ entries[r] \in C
  BY PathFacts DEF Within, Shape
<1>2. t \in Seq(Names)
  BY <1>1, RebasedIs
<1>3. next = [x \in (DOMAIN es \ {r}) \cup {t} |-> IF x = t THEN entries[r] ELSE es[x]]
  <2>1. Without(es, {r}) = [x \in DOMAIN es \ {r} |-> es[x]]
    BY DEF Without, Restrict
  <2> DEFINE w == Without(es, {r})
  <2>2. next = [x \in DOMAIN w \cup {t} |-> IF x = t THEN entries[r] ELSE w[x]]
    BY Zenon DEF MoveEntry, Insert, Rebased
  <2> HIDE DEF next, t, w
  <2>3. DOMAIN w = DOMAIN es \ {r} /\ \A x \in DOMAIN w : w[x] = es[x]
    BY <2>1 DEF w
  <2> QED
    BY <2>2, <2>3
<1> HIDE DEF next, t, C
<1>4. PICK D \in SUBSET Seq(Names) : es \in [D -> C]
  BY DEF Map, C
<1>5. next \in [(D \ {r}) \cup {t} -> C] /\ (D \ {r}) \cup {t} \in SUBSET Seq(Names)
  BY <1>1, <1>2, <1>3, <1>4
<1>6. next \in Map
  BY <1>5 DEF Map, C
<1> QED
  BY <1>6 DEF next

LEMMA RenameFolds ==
    ASSUME Shape, DirsAbove, NEW p \in Paths, NEW q \in Paths, Movable(p, q), Rename(p, q)
    PROVE  HasMoved(entries', Within(p), p, q) /\ entries' \in Map /\ ret' = "ok"
<1> DEFINE S == Within(p)
           n == Cardinality(S)
           moved == Sorted(S)
           body(g) == [s \in SUBSET (DOMAIN moved) |->
                         IF s = {} THEN entries
                         ELSE MoveEntry(p, q, g[s \ {Max(s)}], moved[Max(s)])]
           it == CHOOSE g : g = body(g)
           step == [i \in (1 .. n) \X Map |-> MoveEntry(p, q, i[2], moved[i[1]])]
<1>1. /\ n \in Nat /\ moved \in [1 .. n -> S]
      /\ \A r \in S : \E k \in 1 .. n : moved[k] = r
  <2>1. S \in SUBSET DOMAIN entries /\ S \subseteq Seq(Names)
    BY PathFacts DEF Within, Shape
  <2>2. IsFiniteSet(S)
    BY <2>1, FS_Subset DEF Shape
  <2> HIDE DEF S
  <2> QED
    BY <2>1, <2>2, SortedGoesOverAll
<1>2. DOMAIN moved = 1 .. n
  BY <1>1
<1>3. entries' = FoldLeft(LAMBDA es, r : MoveEntry(p, q, es, r), entries, moved) /\ ret' = "ok"
  BY DEF Rename, Movable, Refuses, Returns
<1>4. FoldLeft(LAMBDA es, r : MoveEntry(p, q, es, r), entries, moved) = it[DOMAIN moved]
  <2> HIDE DEF moved
  <2> QED
    BY DEF FoldLeft, MapThenFoldSet
<1> HIDE DEF S, n, moved
<1>5. entries \in Map
  BY PathFacts DEF Shape, Map
<1>6. step \in [(1 .. n) \X Map -> Map]
  <2> SUFFICES ASSUME NEW i \in 1 .. n, NEW es \in Map PROVE MoveEntry(p, q, es, moved[i]) \in Map
    OBVIOUS
  <2>1. moved[i] \in Within(p)
    BY <1>1 DEF S
  <2> QED
    BY <2>1, MoveEntryIsMap
<1>7. PICK g \in [SUBSET (1 .. n) -> Map] : IsMaxFold(g, n, entries, step)
  <2> HIDE DEF step
  <2> QED
    BY <1>1, <1>5, <1>6, MaxFold
<1>8. g = body(g)
  <2>1. ASSUME NEW s \in SUBSET (1 .. n), s # {}
        PROVE  g[s] = MoveEntry(p, q, g[s \ {Max(s)}], moved[Max(s)])
    <3>1. Max(s) \in 1 .. n /\ g[s \ {Max(s)}] \in Map
      BY <1>7, <2>1 DEF IsMaxFold
    <3>2. g[s] = step[<<Max(s), g[s \ {Max(s)}]>>]
      BY <1>7, <2>1 DEF IsMaxFold
    <3> QED
      BY <3>1, <3>2
  <2> HIDE DEF step
  <2> QED
    BY <1>2, <1>7, <2>1 DEF IsMaxFold
<1>9. it = body(it)
  BY <1>8
<1> HIDE DEF it, step
<1>10. \A s \in SUBSET (1 .. n) :
          it[s] = IF s = {} THEN entries ELSE MoveEntry(p, q, it[s \ {Max(s)}], moved[Max(s)])
  BY <1>2, <1>9
<1>11. \A k \in 1 .. n : /\ 1 .. k \in SUBSET (1 .. n) /\ 1 .. k # {}
                         /\ Max(1 .. k) = k /\ (1 .. k) \ {k} = 1 .. k - 1
  BY <1>1, MaxOfRange
<1> DEFINE Gone(k) == {r \in S : \E i \in 1 .. k : moved[i] = r}
           T == {k \in Nat : k <= n => HasMoved(it[1 .. k], Gone(k), p, q) /\ it[1 .. k] \in Map}
<1>12. 0 \in T
  <2>0. 1 .. 0 = {} /\ {} \in SUBSET (1 .. n)
    OBVIOUS
  <2>1. 1 .. 0 = {} /\ {} \in SUBSET (1 .. n) /\ Gone(0) = {}
    BY <2>0
  <2>2. it[1 .. 0] = entries
    <3>1. it[{}] = entries
      BY <1>10, <2>1
    <3> QED
      BY <2>1, <3>1, Zenon
  <2>3. HasMoved(entries, {}, p, q)
    <3>1. ASSUME NEW x \in DOMAIN entries PROVE ~IsPrefix(q, x)
      <4>1. x \in Seq(Names) /\ q \in Seq(Names) /\ x # q
        BY PathFacts DEF Shape, Movable
      <4>2. IsPrefix(q, x) => q \in Above(x)
        BY <4>1, PrefixOrder
      <4> QED
        BY <4>2 DEF DirsAbove, IsDir, Movable
    <3> QED
      BY <3>1 DEF HasMoved, Old
  <2>4. HasMoved(it[1 .. 0], Gone(0), p, q)
    <3> HIDE DEF Gone
    <3> QED
      BY <2>1, <2>2, <2>3, Zenon
  <2>5. it[1 .. 0] \in Map
    BY <1>5, <2>2
  <2> QED
    BY <2>4, <2>5
<1>13. ASSUME NEW k \in Nat, k \in T PROVE k + 1 \in T
  <2> SUFFICES ASSUME k + 1 <= n
               PROVE  HasMoved(it[1 .. k + 1], Gone(k + 1), p, q) /\ it[1 .. k + 1] \in Map
    BY <1>1
  <2>1. k + 1 \in 1 .. n /\ (k + 1) - 1 = k
    BY <1>1
  <2>2. /\ 1 .. k + 1 \in SUBSET (1 .. n) /\ 1 .. k + 1 # {}
        /\ Max(1 .. k + 1) = k + 1
        /\ (1 .. k + 1) \ {k + 1} = 1 .. k
    BY <1>11, <2>1
  <2>3. it[1 .. k + 1] = MoveEntry(p, q, it[1 .. k], moved[k + 1])
    BY <1>10, <2>2
  <2>4. HasMoved(it[1 .. k], Gone(k), p, q) /\ it[1 .. k] \in Map
    BY <1>1, <1>13
  <2>5. moved[k + 1] \in Within(p) /\ Gone(k) \in SUBSET Within(p)
    BY <1>1, <2>1 DEF S
  <2>6. Gone(k + 1) = Gone(k) \cup {moved[k + 1]}
    <3>1. \A i \in 1 .. k + 1 : i \in 1 .. k \/ i = k + 1
      OBVIOUS
    <3>2. 1 .. k \subseteq 1 .. k + 1 /\ k + 1 \in 1 .. k + 1
      OBVIOUS
    <3> QED
      BY <2>5, <3>1, <3>2 DEF S
  <2> HIDE DEF Gone
  <2>7. HasMoved(MoveEntry(p, q, it[1 .. k], moved[k + 1]), Gone(k) \cup {moved[k + 1]}, p, q)
    BY <2>4, <2>5, MoveEntryMoves
  <2>8. MoveEntry(p, q, it[1 .. k], moved[k + 1]) \in Map
    BY <2>4, <2>5, MoveEntryIsMap
  <2> QED
    BY <2>3, <2>6, <2>7, <2>8
<1>14. n \in T
  <2> HIDE DEF T
  <2> QED
    BY <1>1, <1>12, <1>13, NatSetInduction
<1>15. Gone(n) = S
  BY <1>1
<1> HIDE DEF Gone
<1>16. HasMoved(it[1 .. n], S, p, q) /\ it[1 .. n] \in Map
  BY <1>1, <1>14, <1>15
<1> QED
  BY <1>2, <1>3, <1>4, <1>16 DEF S

LEMMA RenameMoves ==
    ASSUME Shape, DirsAbove, NEW p \in Paths, NEW q \in Paths, Rename(p, q),
           q \notin DOMAIN entries => IsDir(Parent(q)) /\ ~IsPrefix(p, q)
    PROVE  \/ Tree!Move(p, q) /\ Shape' /\ ret' = "ok"
           \/ UNCHANGED entries
<1>1. CASE p \in DOMAIN entries /\ q \notin DOMAIN entries
  <2> DEFINE Go == {Rebased(r, p, q) : r \in Within(p)}
             D  == (DOMAIN entries \ Within(p)) \cup Go
  <2>1. Movable(p, q)
    BY <1>1 DEF Movable
  <2>2. HasMoved(entries', Within(p), p, q) /\ entries' \in Map /\ ret' = "ok"
    BY <2>1, RenameFolds
  <2>3. DOMAIN entries' = D /\ \A x \in D : entries'[x] = entries[Old(x, p, q)]
    BY <2>2 DEF HasMoved
  <2>4. entries' = [x \in D |-> entries[Old(x, p, q)]]
    <3>1. entries' = [x \in DOMAIN entries' |-> entries'[x]]
      BY <2>2 DEF Map
    <3> HIDE DEF D
    <3> QED
      BY <2>3, <3>1
  <2>5. Tree!Move(p, q)
    <3>1. entries' = [x \in (DOMAIN entries \ Within(p)) \cup {q \o SubSeq(r, Len(p) + 1, Len(r)) : r \in Within(p)}
                        |-> entries[IF IsPrefix(q, x) THEN p \o SubSeq(x, Len(q) + 1, Len(x)) ELSE x]]
      BY <2>4, Zenon DEF Old, Rebased
    <3> QED
      BY <2>1, <3>1, Zenon DEF Movable, Within, IsPrefix, IsDir, Parent, Tree!Move, Tree!Below,
                              Tree!IsPrefix, Tree!IsDir, Tree!Parent
  <2>6. DOMAIN entries' \subseteq Paths
    <3>1. ASSUME NEW r \in Within(p) PROVE Rebased(r, p, q) \in Paths
      <4>1. r \in Seq(Names) /\ IsPrefix(p, r) /\ p \in Seq(Names) /\ q \in Seq(Names)
        BY PathFacts DEF Within, Shape
      <4>2. Rebased(r, p, q) \in Seq(Names) /\ Len(Rebased(r, p, q)) = Len(q) + Len(r) - Len(p)
        BY <4>1, RebasedIs DEF Continues
      <4>3. Len(q) + Len(r) - Len(p) <= MaxDepth
        BY <1>1 DEF Rename, Refuses
      <4> QED
        BY <4>2, <4>3, PathsAreSequences
    <3> QED
      BY <2>3, <3>1 DEF Shape
  <2>7. IsFiniteSet(DOMAIN entries')
    <3> DEFINE W == Within(p)
               f == [r \in W |-> Rebased(r, p, q)]
    <3>1. W \in SUBSET DOMAIN entries /\ DOMAIN entries \ W \in SUBSET DOMAIN entries
      BY DEF Within
    <3>2. IsFiniteSet(W) /\ IsFiniteSet(DOMAIN entries \ W)
      BY <3>1, FS_Subset DEF Shape
    <3>3. f \in Surjection(W, Go)
      BY DEF Surjection
    <3> HIDE DEF f, W, Go
    <3>4. IsFiniteSet(Go)
      BY <3>2, <3>3, FS_Surjection
    <3>5. DOMAIN entries' = (DOMAIN entries \ W) \cup Go
      BY <2>3 DEF W
    <3> QED
      BY <3>2, <3>4, <3>5, FS_Union
  <2>8. entries' \in [DOMAIN entries' -> Contents \cup {Dir}]
    BY <2>2 DEF Map
  <2> QED
    BY <2>2, <2>5, <2>6, <2>7, <2>8 DEF Shape
<1>2. CASE ~(p \in DOMAIN entries /\ q \notin DOMAIN entries)
  BY <1>2 DEF Rename, Refuses
<1> QED
  BY <1>1, <1>2

-----------------------------------------------------------------------------
(***************************************************************************)
(* The theorems are about callers that are careful: no call is made where  *)
(* it is Reckless.                                                         *)
(***************************************************************************)

Careful == Avoided = {"write_file", "create_dir", "rename"}

FsInv == Shape /\ DirsAbove

LEMMA InitFsInv == Init => FsInv
<1>1. <<>> \in Paths /\ Above(<<>>) = {}
  <2>1. <<>> \in Seq(Names) /\ Len(<<>>) <= MaxDepth
    BY NothingAboveRoot, VirtualFsAssumption
  <2> QED
    BY <2>1, NothingAboveRoot, PathsAreSequences, Zenon
<1>2. CASE entries = <<>>
  <2>1. DOMAIN entries = {} /\ entries \in [DOMAIN entries -> Contents \cup {Dir}]
    BY <1>2
  <2>2. IsFiniteSet(DOMAIN entries)
    BY <2>1, FS_EmptySet
  <2> QED
    BY <2>1, <2>2 DEF FsInv, Shape, DirsAbove
<1>3. CASE entries = [p \in {Root} |-> Dir]
  <2>1. DOMAIN entries = {<<>>} /\ entries \in [DOMAIN entries -> Contents \cup {Dir}]
    BY <1>3 DEF Root
  <2>2. IsFiniteSet(DOMAIN entries)
    BY <2>1, FS_Singleton
  <2> QED
    BY <1>1, <2>1, <2>2 DEF FsInv, Shape, DirsAbove
<1> QED
  BY <1>2, <1>3 DEF Init

\* The call of the tree that p and q are given to.
TreeCall(p, q) ==
    \/ \E c \in Contents : Tree!Put(p, c)
    \/ Tree!MakeDir(p) \/ Tree!Delete(p) \/ Tree!Empty(p)
    \/ Tree!Move(p, q)

LEMMA TreeCallKeepsDirs ==
    ASSUME FsInv, NEW p \in Paths, NEW q \in Paths, TreeCall(p, q)
    PROVE  DirsAbove'
<1>1. p \in Seq(Names) /\ q \in Seq(Names) /\ DOMAIN entries \subseteq Seq(Names) /\ DirsAbove
  BY PathFacts DEF FsInv, Shape
<1> QED
  BY <1>1, PutKeepsDirs, MakeDirKeepsDirs, DeleteKeepsDirs, EmptyKeepsDirs, MoveKeepsDirs
  DEF TreeCall

\* Every call does what one call of the tree does and returns "ok", or nothing.
LEMMA CallIsTreeCall ==
    ASSUME Careful, FsInv, Next
    PROVE  \/ UNCHANGED entries
           \/ /\ \E p \in Paths, q \in Paths : TreeCall(p, q)
              /\ Shape' /\ DirsAbove' /\ ret' = "ok"
<1> DEFINE Outcome == \/ UNCHANGED entries
                      \/ /\ \E p \in Paths, q \in Paths : TreeCall(p, q)
                         /\ Shape' /\ ret' = "ok"
<1>0. Shape /\ DirsAbove
  BY DEF FsInv
<1>1. ASSUME NEW raw \in Raws, NEW c \in Contents,
             Call("write_file", Normalize(raw), Normalize(raw), WriteFile(Normalize(raw), c))
      PROVE  Outcome
  <2> DEFINE p == Normalize(raw)
  <2>1. p = Invalid \/ p \in Paths
    BY NormalizeIs
  <2> HIDE DEF p
  <2>2. Call("write_file", p, p, WriteFile(p, c))
    BY <1>1 DEF p
  <2>3. CASE p = Invalid
    BY <2>2, <2>3 DEF Call, Refuses
  <2>4. CASE p # Invalid
    <3>1. p \in Paths /\ WriteFile(p, c) /\ ~IsDir(p)
      BY <2>1, <2>2, <2>4 DEF Call, Careful, Reckless
    <3> QED
      BY <1>0, <3>1, WriteFilePuts DEF TreeCall
  <2> QED
    BY <2>3, <2>4
<1>2. ASSUME NEW raw \in Raws,
             Call("create_dir", Normalize(raw), Normalize(raw), CreateDir(Normalize(raw)))
      PROVE  Outcome
  <2> DEFINE p == Normalize(raw)
  <2>1. p = Invalid \/ p \in Paths
    BY NormalizeIs
  <2> HIDE DEF p
  <2>2. Call("create_dir", p, p, CreateDir(p))
    BY <1>2 DEF p
  <2>3. CASE p = Invalid
    BY <2>2, <2>3 DEF Call, Refuses
  <2>4. CASE p # Invalid
    <3>1. p \in Paths /\ CreateDir(p) /\ \A q \in Above(p) : ~IsFile(q)
      BY <2>1, <2>2, <2>4 DEF Call, Careful, Reckless
    <3> QED
      BY <1>0, <3>1, CreateDirMakes DEF TreeCall
  <2> QED
    BY <2>3, <2>4
<1>3. ASSUME NEW raw \in Raws,
             \/ Call("remove_file", Normalize(raw), Normalize(raw), RemoveFile(Normalize(raw)))
             \/ Call("remove_dir", Normalize(raw), Normalize(raw), RemoveDir(Normalize(raw)))
             \/ Call("remove_dir_all", Normalize(raw), Normalize(raw), RemoveDirAll(Normalize(raw)))
      PROVE  Outcome
  <2> DEFINE p == Normalize(raw)
  <2>1. p = Invalid \/ p \in Paths
    BY NormalizeIs
  <2> HIDE DEF p
  <2>2. \/ Call("remove_file", p, p, RemoveFile(p))
        \/ Call("remove_dir", p, p, RemoveDir(p))
        \/ Call("remove_dir_all", p, p, RemoveDirAll(p))
    BY <1>3 DEF p
  <2>3. CASE p = Invalid
    BY <2>2, <2>3 DEF Call, Refuses
  <2>4. CASE p # Invalid
    <3>1. p \in Paths /\ (RemoveFile(p) \/ RemoveDir(p) \/ RemoveDirAll(p))
      BY <2>1, <2>2, <2>4 DEF Call
    <3> QED
      BY <1>0, <3>1, RemoveFileDeletes, RemoveDirDeletes, RemoveDirAllEmpties DEF TreeCall
  <2> QED
    BY <2>3, <2>4
<1>4. ASSUME NEW raw \in Raws, NEW to \in Raws,
             Call("rename", Normalize(raw), Normalize(to), Rename(Normalize(raw), Normalize(to)))
      PROVE  Outcome
  <2> DEFINE p == Normalize(raw)
             q == Normalize(to)
  <2>1. (p = Invalid \/ p \in Paths) /\ (q = Invalid \/ q \in Paths)
    BY NormalizeIs
  <2> HIDE DEF p, q
  <2>2. Call("rename", p, q, Rename(p, q))
    BY <1>4 DEF p, q
  <2>3. CASE p = Invalid \/ q = Invalid
    BY <2>2, <2>3 DEF Call, Refuses
  <2>4. CASE p # Invalid /\ q # Invalid
    <3>1. p \in Paths /\ q \in Paths /\ Rename(p, q) /\ ~Reckless("rename", p, q)
      BY <2>1, <2>2, <2>4 DEF Call, Careful
    <3>2. CASE p \notin DOMAIN entries
      BY <3>1, <3>2 DEF Rename, Refuses
    <3>3. CASE p \in DOMAIN entries
      <4>1. q \notin DOMAIN entries => IsDir(Parent(q)) /\ ~IsPrefix(p, q)
        BY <3>1, <3>3 DEF Reckless
      <4> QED
        BY <1>0, <3>1, <4>1, RenameMoves DEF TreeCall
    <3> QED
      BY <3>2, <3>3
  <2> QED
    BY <2>3, <2>4
<1>5. Outcome
  <2> HIDE DEF Outcome
  <2> PICK raw \in Raws :
        \/ \E c \in Contents :
              Call("write_file", Normalize(raw), Normalize(raw), WriteFile(Normalize(raw), c))
        \/ Call("create_dir", Normalize(raw), Normalize(raw), CreateDir(Normalize(raw)))
        \/ Call("remove_file", Normalize(raw), Normalize(raw), RemoveFile(Normalize(raw)))
        \/ Call("remove_dir", Normalize(raw), Normalize(raw), RemoveDir(Normalize(raw)))
        \/ Call("remove_dir_all", Normalize(raw), Normalize(raw), RemoveDirAll(Normalize(raw)))
        \/ \E to \in Raws :
              Call("rename", Normalize(raw), Normalize(to), Rename(Normalize(raw), Normalize(to)))
    BY Zenon DEF Next
  <2> QED
    BY <1>1, <1>2, <1>3, <1>4
<1> QED
  BY <1>5, TreeCallKeepsDirs

LEMMA NextFsInv ==
    ASSUME Careful, FsInv, [Next]_vars
    PROVE  FsInv'
<1>1. CASE UNCHANGED entries
  BY <1>1 DEF FsInv, Shape, DirsAbove, IsDir
<1>2. CASE ~UNCHANGED entries
  BY <1>2, CallIsTreeCall DEF FsInv, vars
<1> QED
  BY <1>1, <1>2

LEMMA FsInvAlways == ASSUME Careful PROVE Spec => []FsInv
<1>1. FsInv /\ [Next]_vars => FsInv'
  BY NextFsInv
<1> QED
  BY <1>1, InitFsInv, PTL DEF Spec

\* Every call of a careful caller does what a POSIX file system does, all of
\* it at once, or nothing: no order of the checks in a call, and none of the
\* entries rename moves one by one, shows.
THEOREM CallsImplementTree == ASSUME Careful PROVE Spec => ImplementsTreeFs
<1>1. Init => Tree!Init
  BY DEF Init, Tree!Init, Root, Dir
<1>2. FsInv /\ [Next]_vars => [Tree!Next]_entries
  <2> SUFFICES ASSUME FsInv, [Next]_vars, ~UNCHANGED entries PROVE Tree!Next
    OBVIOUS
  <2>1. \E p \in Paths, q \in Paths : TreeCall(p, q)
    BY CallIsTreeCall DEF vars
  <2> QED
    BY <2>1 DEF TreeCall, Tree!Next
<1> QED
  BY <1>1, <1>2, FsInvAlways, PTL DEF Spec, ImplementsTreeFs, Tree!Spec

\* A call that fails leaves the map as it was, directories that write_file
\* made on the way to the file in its way included.
THEOREM FailedCallsChangeNothing == ASSUME Careful PROVE Spec => FailuresChangeNothing
<1>1. FsInv /\ [Next]_vars => [ret' # "ok" => UNCHANGED entries]_vars
  <2> SUFFICES ASSUME FsInv, [Next]_vars, ~UNCHANGED vars, ret' # "ok" PROVE UNCHANGED entries
    OBVIOUS
  <2> QED
    BY CallIsTreeCall
<1> QED
  BY <1>1, FsInvAlways, PTL DEF Spec, FailuresChangeNothing

-----------------------------------------------------------------------------
(* The queries *)

Depth(n) == {p \in DOMAIN entries : Len(p) = n}

\* list_dir has the names of what is one level below, and of nothing else.
LEMMA ListDirIs ==
    ASSUME FsInv, NEW p \in DOMAIN entries
    PROVE  {Append(p, x) : x \in ListDir(p)} = {r \in Within(p) : Len(r) = Len(p) + 1}
<1> DEFINE Kids == {r \in Within(p) : Len(r) = Len(p) + 1}
<1>1. ASSUME NEW r \in Kids PROVE r = Append(p, Last(r))
  <2>1. /\ r \in Seq(Names) /\ p \in Seq(Names) /\ IsPrefix(p, r) /\ Len(r) = Len(p) + 1
        /\ Len(p) \in Nat
    BY PathFacts DEF Within, FsInv, Shape
  <2>2. \A i \in 1 .. Len(p) : p[i] = r[i]
    BY <2>1, PrefixAgrees
  <2>3. r[Len(r)] \in Names /\ Last(r) = r[Len(r)]
    <3>1. Len(r) \in 1 .. Len(r)
      BY <2>1
    <3> QED
      BY <2>1, <3>1, ElementOfSeq DEF Last
  <2> DEFINE t == Append(p, Last(r))
  <2>4. /\ t \in Seq(Names) /\ Len(t) = Len(p) + 1
        /\ \A i \in 1 .. Len(p) : t[i] = p[i]
        /\ t[Len(p) + 1] = Last(r)
    BY <2>1, <2>3, AppendProperties
  <2> HIDE DEF t
  <2>5. \A i \in 1 .. Len(r) : t[i] = r[i]
    BY <2>1, <2>2, <2>3, <2>4
  <2>6. t = r
    BY <2>1, <2>4, <2>5, SeqEqual
  <2> QED
    BY <2>6 DEF t
<1>2. ListDir(p) = {Last(r) : r \in Kids}
  BY Zenon DEF ListDir
<1> HIDE DEF Kids
<1>3. {Append(p, x) : x \in ListDir(p)} = Kids
  <2>1. ASSUME NEW x \in ListDir(p) PROVE Append(p, x) \in Kids
    <3>1. PICK r \in Kids : x = Last(r)
      BY <1>2
    <3> QED
      BY <1>1, <3>1
  <2>2. ASSUME NEW r \in Kids PROVE \E x \in ListDir(p) : r = Append(p, x)
    BY <1>1, <1>2
  <2> QED
    BY <2>1, <2>2
<1> QED
  BY <1>3 DEF Kids

\* One round of the walk goes from one level to the next.
LEMMA NextLevel ==
    ASSUME FsInv, NEW n \in 1 .. MaxDepth
    PROVE  UNION {{Append(p, x) : x \in ListDir(p)} : p \in {q \in Depth(n - 1) : IsDir(q)}}
           = Depth(n)
<1> DEFINE Listed == UNION {{Append(p, x) : x \in ListDir(p)} : p \in {q \in Depth(n - 1) : IsDir(q)}}
           Below(p) == {r \in Within(p) : Len(r) = Len(p) + 1}
<1>0. n \in Nat /\ n > 0 /\ MaxDepth \in Nat
  BY VirtualFsAssumption
<1>1. ASSUME NEW r
      PROVE  r \in Listed <=> \E p \in Depth(n - 1) : IsDir(p) /\ r \in Below(p)
  <2>1. \A p \in Depth(n - 1) : {Append(p, x) : x \in ListDir(p)} = Below(p)
    BY ListDirIs DEF Depth
  <2>2. r \in Listed <=> \E p \in Depth(n - 1) : IsDir(p) /\ r \in {Append(p, x) : x \in ListDir(p)}
    BY Zenon
  <2> HIDE DEF Listed, Below
  <2> QED
    BY <2>1, <2>2
<1> HIDE DEF Listed
<1>2. ASSUME NEW r \in Listed PROVE r \in Depth(n)
  <2>1. PICK p \in Depth(n - 1) : r \in Below(p)
    BY <1>1
  <2>2. r \in DOMAIN entries /\ Len(r) = n
    BY <1>0, <2>1 DEF Depth, Within
  <2> QED
    BY <2>2 DEF Depth
<1>3. ASSUME NEW r \in Depth(n) PROVE r \in Listed
  <2>1. r \in DOMAIN entries /\ Len(r) = n /\ r \in Seq(Names) /\ Len(r) > 0
    BY <1>0, PathFacts DEF Depth, FsInv, Shape
  <2> DEFINE p == Parent(r)
  <2>2. p \in Above(r) /\ p \in Seq(Names)
    BY <2>1, ParentIsAbove
  <2>3. IsDir(p) /\ IsPrefix(p, r)
    BY <2>1, <2>2, AboveBegins DEF FsInv, DirsAbove
  <2>4. Len(p) = n - 1
    <3>1. n - 1 \in 0 .. Len(r)
      BY <1>0, <2>1
    <3>2. Len(SubSeq(r, 1, n - 1)) = n - 1
      BY <2>1, <3>1, Initial
    <3> QED
      BY <2>1, <3>2 DEF Parent
  <2> HIDE DEF p
  <2>5. p \in Depth(n - 1) /\ r \in Below(p)
    BY <1>0, <2>1, <2>3, <2>4 DEF Depth, IsDir, Within
  <2> QED
    BY <1>1, <2>3, <2>5
<1>4. Listed = Depth(n)
  BY <1>2, <1>3
<1> QED
  BY <1>4 DEF Listed

LEMMA FsInvWalk == ASSUME FsInv PROVE WalkFindsAll
<1> DEFINE Listed(S) == UNION {{Append(p, x) : x \in ListDir(p)} : p \in {q \in S : IsDir(q)}}
           body(g) == [n \in 0 .. MaxDepth |->
                         IF n = 0 THEN DOMAIN entries \cap {Root} ELSE Listed(g[n - 1])]
           level == CHOOSE g : g = body(g)
           depth == [n \in 0 .. MaxDepth |-> Depth(n)]
<1>0. MaxDepth \in Nat
  BY VirtualFsAssumption
<1>1. Depth(0) = DOMAIN entries \cap {Root}
  <2>1. \A p \in DOMAIN entries : Len(p) = 0 <=> p = Root
    BY PathFacts, EmptySeq DEF FsInv, Shape, Root
  <2> QED
    BY <2>1 DEF Depth
<1>2. \A n \in 1 .. MaxDepth : Listed(Depth(n - 1)) = Depth(n)
  BY NextLevel
<1>3. WalkFindsAll <=> UNION {level[n] : n \in 0 .. MaxDepth} = DOMAIN entries
  BY Zenon DEF WalkFindsAll
<1> HIDE DEF Listed
<1>4. depth = body(depth)
  <2>1. ASSUME NEW n \in 0 .. MaxDepth, n # 0
        PROVE  depth[n] = Listed(depth[n - 1])
    <3>1. n \in 1 .. MaxDepth /\ n - 1 \in 0 .. MaxDepth
      BY <1>0, <2>1
    <3> QED
      BY <1>2, <3>1
  <2> QED
    BY <1>1, <2>1
<1>5. level = body(level)
  BY <1>4
<1> HIDE DEF level
<1> DEFINE T == {n \in Nat : n <= MaxDepth => level[n] = Depth(n)}
<1>6. 0 \in T
  BY <1>0, <1>1, <1>5
<1>7. ASSUME NEW n \in Nat, n \in T PROVE n + 1 \in T
  <2> SUFFICES ASSUME n + 1 <= MaxDepth PROVE level[n + 1] = Depth(n + 1)
    OBVIOUS
  <2>1. n + 1 \in 1 .. MaxDepth /\ n + 1 \in 0 .. MaxDepth /\ (n + 1) - 1 = n
    BY <1>0
  <2>2. level[n] = Depth(n)
    BY <1>0, <1>7
  <2>3. level[n + 1] = Listed(level[n])
    <3> DEFINE i == n + 1
    <3>1. i \in 0 .. MaxDepth /\ i # 0 /\ i - 1 = n
      BY <1>0, <2>1
    <3> HIDE DEF i
    <3>2. body(level)[i] = Listed(level[i - 1])
      BY <3>1
    <3>3. level[i] = Listed(level[n])
      BY <1>5, <3>1, <3>2
    <3> QED
      BY <3>3 DEF i
  <2>4. Listed(Depth(n)) = Depth(n + 1)
    BY <1>2, <2>1
  <2> QED
    BY <2>2, <2>3, <2>4
<1>8. ASSUME NEW n \in 0 .. MaxDepth PROVE level[n] = Depth(n)
  <2>1. Nat \subseteq T
    <3> HIDE DEF T
    <3> QED
      BY <1>6, <1>7, NatSetInduction
  <2> QED
    BY <1>0, <2>1
<1>9. \A p \in DOMAIN entries : Len(p) \in 0 .. MaxDepth
  BY <1>0, PathFacts DEF FsInv, Shape
<1>10. UNION {level[n] : n \in 0 .. MaxDepth} = DOMAIN entries
  BY <1>8, <1>9 DEF Depth
<1> QED
  BY <1>3, <1>10

\* A walk with list_dir from the root finds everything that paths() returns,
\* whatever has been created, moved and removed.
THEOREM WalksFindAll == ASSUME Careful PROVE Spec => []WalkFindsAll
<1>1. FsInv => WalkFindsAll
  BY FsInvWalk
<1> QED
  BY <1>1, FsInvAlways, PTL

\* Where a walk to p stops, and what it says then.
Stops(p, n) == {k \in 0 .. n : ~IsDir(SubSeq(p, 1, k))}

WalkSays(p, stops) ==
    LET at == SubSeq(p, 1, Min(stops))
    IN IF stops = {} THEN "IsADirectory"
       ELSE IF ~IsFile(at) THEN "NotFound"
       ELSE IF at = p THEN entries[p]
       ELSE "NotADirectory"

LEMMA FsInvErrno ==
    ASSUME FsInv, NEW p \in Paths, NEW n, n = Len(p)
    PROVE  ReadFile(p) = WalkSays(p, Stops(p, n))
<1> DEFINE stops == Stops(p, n)
           at    == SubSeq(p, 1, Min(stops))
<1>0. /\ stops = {k \in 0 .. n : ~IsDir(SubSeq(p, 1, k))}
      /\ WalkSays(p, stops) = IF stops = {} THEN "IsADirectory"
                              ELSE IF ~IsFile(at) THEN "NotFound"
                              ELSE IF at = p THEN entries[p]
                              ELSE "NotADirectory"
      /\ at = SubSeq(p, 1, Min(stops))
  BY DEF Stops, WalkSays
<1> HIDE DEF stops, at
<1>1. p \in Seq(Names) /\ n \in Nat /\ SubSeq(p, 1, n) = p /\ DirsAbove /\ Len(p) = n
      /\ n \in 0 .. n
  BY PathFacts, SubSeqFull DEF FsInv
<1>2. ASSUME NEW k \in 0 .. n, k < n
      PROVE  SubSeq(p, 1, k) \in Above(p)
  <2>1. SubSeq(p, 1, k) \in Prefixes(p)
    BY DEF Prefixes
  <2>2. Len(SubSeq(p, 1, k)) = k
    BY <1>1, Initial
  <2>3. SubSeq(p, 1, k) # p
    BY <1>1, <1>2, <2>2
  <2> QED
    BY <2>1, <2>3 DEF Above
<1>3. CASE p \in DOMAIN entries
  <2>1. \A k \in 0 .. n : k < n => IsDir(SubSeq(p, 1, k))
    BY <1>1, <1>2, <1>3 DEF DirsAbove
  <2>2. CASE IsDir(p)
    <3>1. stops = {}
      <4>1. \A k \in 0 .. n : k < n \/ k = n
        BY <1>1
      <4> QED
        BY <1>1, <1>0, <2>1, <2>2, <4>1
    <3>2. ReadFile(p) = "IsADirectory"
      BY <2>2 DEF ReadFile, IsDir, IsFile
    <3> QED
      BY <1>0, <3>1, <3>2 DEF stops
  <2>3. CASE IsFile(p)
    <3>1. stops = {n}
      <4>1. \A k \in 0 .. n : k < n \/ k = n
        BY <1>1
      <4>2. ~IsDir(SubSeq(p, 1, n))
        BY <1>1, <2>3 DEF IsDir, IsFile
      <4> QED
        BY <1>1, <1>0, <2>1, <4>1, <4>2
    <3>2. Min(stops) = n
      BY <1>1, <3>1 DEF Min
    <3>3. at = p
      BY <1>1, <1>0, <3>2
    <3>4. ReadFile(p) = entries[p]
      BY <2>3 DEF ReadFile, IsDir, IsFile
    <3> QED
      BY <1>0, <2>3, <3>1, <3>3, <3>4 DEF stops
  <2> QED
    BY <1>3, <2>2, <2>3 DEF IsDir, IsFile
<1>4. CASE p \notin DOMAIN entries
  <2> DEFINE m == Min(stops)
  <2>1. m \in stops /\ \A k \in stops : m <= k
    <3>1. n \in stops
      BY <1>1, <1>0, <1>4 DEF IsDir
    <3>2. stops \subseteq Nat
      BY <1>0
    <3>3. \E k \in stops : \A j \in stops : k <= j
      BY <3>1, <3>2, LeastNat
    <3> QED
      BY <3>3 DEF Min
  <2> HIDE DEF m
  <2>2. at = SubSeq(p, 1, m) /\ m \in 0 .. n /\ ~IsDir(at)
    BY <1>0, <2>1 DEF m
  <2>3. at = p \/ at \in Above(p)
    BY <1>1, <1>2, <2>2
  <2>4. ReadFile(p) = IF \E q \in Above(p) : IsFile(q) THEN "NotADirectory" ELSE "NotFound"
    BY <1>4 DEF ReadFile, IsDir, IsFile
  <2>5. ASSUME NEW q \in Above(p), IsFile(q) PROVE at = q
    <3>1. PICK j \in 0 .. n : q = SubSeq(p, 1, j)
      BY DEF Above, Prefixes
    <3>2. j \in stops
      BY <1>0, <2>5, <3>1 DEF IsDir, IsFile
    <3>3. m <= j /\ m \in Nat /\ j \in Nat
      BY <1>1, <2>1, <2>2, <3>1, <3>2
    <3>4. ASSUME m < j PROVE FALSE
      <4>1. Len(at) = m /\ Len(q) = j
        BY <1>1, <2>2, <3>1, Initial
      <4>2. at \in Above(p)
        <5>1. j <= n /\ m < n
          BY <1>1, <3>1, <3>3, <3>4
        <5> QED
          BY <1>2, <2>2, <5>1
      <4>3. at \in Above(q)
        BY <1>1, <3>4, <4>1, <4>2, AboveChain
      <4> QED
        BY <1>1, <2>2, <2>5, <4>3 DEF DirsAbove, IsFile
    <3>5. m = j
      BY <3>3, <3>4
    <3> QED
      BY <2>2, <3>1, <3>5
  <2>6. stops # {}
    BY <2>1
  <2>7. CASE \E q \in Above(p) : IsFile(q)
    <3>1. at \in Above(p) /\ IsFile(at)
      BY <2>5, <2>7
    <3>2. at # p
      BY <3>1 DEF Above
    <3> QED
      BY <1>0, <2>4, <2>6, <2>7, <3>1, <3>2 DEF stops
  <2>8. CASE ~\E q \in Above(p) : IsFile(q)
    <3>1. ~IsFile(at)
      BY <1>4, <2>3, <2>8 DEF IsFile
    <3> QED
      BY <1>0, <2>4, <2>6, <2>8, <3>1 DEF stops
  <2> QED
    BY <2>7, <2>8
<1> QED
  BY <1>3, <1>4

\* read_file fails as a walk from the root would, although it looks at the
\* path first and at what is above it only afterwards.
THEOREM ErrnosAreRight == ASSUME Careful PROVE Spec => []ErrnoRight
<1>1. FsInv => ErrnoRight
  <2> SUFFICES ASSUME FsInv PROVE ErrnoRight
    OBVIOUS
  <2> QED
    BY FsInvErrno, Zenon DEF ErrnoRight, WalkSays, Stops
<1> QED
  BY <1>1, FsInvAlways, PTL

=============================================================================
