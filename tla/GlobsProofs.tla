---------------------------- MODULE GlobsProofs ----------------------------
(***************************************************************************)
(* Theorems of the two matchers, for patterns and texts of any length: the *)
(* one inside a name accepts what its stars stand for although it never    *)
(* tries a second split, and the one over segments what some deal of the   *)
(* segments to the pattern allows.                                         *)
(*                                                                         *)
(* A definition by recursion is a CHOOSE to the prover: that a function    *)
(* which satisfies its equation exists is shown first, from the least      *)
(* length that would have none.  Then the two computations are compared    *)
(* token by token: the set of places a pattern may reach in a text, and    *)
(* the one place the code keeps, which is the least of them.               *)
(***************************************************************************)
EXTENDS Globs, SequenceTheorems, WellFoundedInduction, TLAPS

Less == {pair \in Nat \X Nat : pair[1] < pair[2]}

\* What numbers have: a least one, and what steps from each to the next reaches
\* all.
LEMMA LeastOf ==
  ASSUME NEW S \in SUBSET Nat, S # {}
  PROVE \E n \in S : \A k \in S : n <= k
<1>1. OpToRel(<, Nat) = Less
  BY Zenon DEF OpToRel, Less
<1>2. IsWellFoundedOn(Less, Nat)
  BY <1>1, NatLessThanWellFounded, Zenon
<1>3. PICK x \in S : \A y \in S : ~(<<y, x>> \in Less)
  BY <1>2, WFMin, Zenon
<1>4. ASSUME NEW y \in S PROVE x <= y
  <2>1. x \in Nat /\ y \in Nat
    OBVIOUS
  <2>2. <<y, x>> \in Nat \X Nat /\ <<y, x>>[1] = y /\ <<y, x>>[2] = x
    BY <2>1
  <2>3. ~(y < x)
    BY <1>3, <2>2, Zenon DEF Less
  <2> QED BY <2>1, <2>3
<1> QED BY <1>4

LEMMA Induct ==
  ASSUME NEW P, 0 \in P, \A n \in Nat : n \in P => n + 1 \in P
  PROVE \A n \in Nat : n \in P
<1> DEFINE Bad == {n \in Nat : n \notin P}
<1> SUFFICES ASSUME Bad # {} PROVE FALSE
  OBVIOUS
<1>1. PICK n \in Bad : \A k \in Bad : n <= k
  BY LeastOf
<1>2. n \in Nat /\ n # 0
  BY <1>1
<1>3. n - 1 \in Nat /\ n - 1 \notin Bad
  BY <1>1, <1>2
<1> QED BY <1>1, <1>2, <1>3

LEMMA MinIsLeast ==
  ASSUME NEW S \in SUBSET Nat, S # {}
  PROVE Min(S) \in S /\ \A k \in S : Min(S) <= k
<1>1. PICK n \in S : \A k \in S : n <= k
  BY LeastOf
<1> QED BY <1>1 DEF Min

LEMMA MaxIsGreatest ==
  ASSUME NEW N \in Nat, NEW S \in SUBSET (0 .. N), S # {}
  PROVE Max(S) \in S /\ \A k \in S : k <= Max(S)
<1> DEFINE gaps == {N - k : k \in S}
<1>1. \A k \in S : k \in 0 .. N /\ N - k \in Nat
  OBVIOUS
<1>2. gaps \in SUBSET Nat /\ gaps # {}
  BY <1>1
<1>3. PICK g \in gaps : \A h \in gaps : g <= h
  BY <1>2, LeastOf
<1>4. PICK n \in S : g = N - n
  BY <1>3
<1>5. ASSUME NEW k \in S PROVE k <= n
  BY <1>1, <1>3, <1>4
<1>6. \E x \in S : \A y \in S : x >= y
  BY <1>1, <1>5
<1>7. Max(S) \in S /\ \A k \in S : Max(S) >= k
  BY <1>6, Zenon DEF Max
<1> QED BY <1>1, <1>7

-----------------------------------------------------------------------------
\* The places of s reached behind each of the first n tokens of a pattern.
Reaches(f, pattern, s, n) ==
  f = [i \in 0 .. n |-> IF i = 0 THEN {0} ELSE Onward(f[i - 1], pattern[i], s)]

LEMMA ReachExists ==
  ASSUME NEW pattern, NEW s, NEW N \in Nat
  PROVE \E f : Reaches(f, pattern, s, N)
<1> DEFINE P == {n \in Nat : \E f : Reaches(f, pattern, s, n)}
<1>1. 0 \in P
  <2>1. Reaches([i \in 0 .. 0 |-> {0}], pattern, s, 0)
    BY DEF Reaches
  <2> QED BY <2>1
<1>2. ASSUME NEW n \in Nat, n \in P PROVE n + 1 \in P
  <2>1. PICK f : Reaches(f, pattern, s, n)
    BY <1>2
  <2> DEFINE next == [i \in 0 .. n + 1 |->
                        IF i <= n THEN f[i] ELSE Onward(f[i - 1], pattern[i], s)]
  <2>2. ASSUME NEW i \in 0 .. n + 1
        PROVE next[i] = IF i = 0 THEN {0} ELSE Onward(next[i - 1], pattern[i], s)
    <3>1. CASE i = 0
      BY <2>1, <3>1 DEF Reaches
    <3>2. CASE i # 0
      <4>1. i - 1 \in 0 .. n /\ next[i - 1] = f[i - 1]
        BY <3>2
      <4>2. CASE i <= n
        <5>1. i \in 0 .. n /\ next[i] = f[i]
          BY <4>2
        <5>2. f[i] = Onward(f[i - 1], pattern[i], s)
          BY <2>1, <3>2, <5>1 DEF Reaches
        <5> QED BY <3>2, <4>1, <5>1, <5>2
      <4>3. CASE ~(i <= n)
        BY <3>2, <4>1, <4>3
      <4> QED BY <4>2, <4>3
    <3> QED BY <3>1, <3>2
  <2>3. next = [i \in 0 .. n + 1 |-> next[i]]
    OBVIOUS
  <2> HIDE DEF next
  <2>4. Reaches(next, pattern, s, n + 1)
    BY <2>2, <2>3 DEF Reaches
  <2> QED BY <2>4
<1> HIDE DEF P
<1>3. \A n \in Nat : n \in P
  BY <1>1, <1>2, Induct
<1> QED BY <1>3 DEF P

LEMMA StandsForReaches ==
  ASSUME NEW pattern, NEW s, Len(pattern) \in Nat
  PROVE \E f : /\ Reaches(f, pattern, s, Len(pattern))
               /\ StandsFor(pattern, s) <=> Len(s) \in f[Len(pattern)]
<1> DEFINE reach[i \in 0 .. Len(pattern)] ==
             IF i = 0 THEN {0} ELSE Onward(reach[i - 1], pattern[i], s)
<1>1. PICK f : Reaches(f, pattern, s, Len(pattern))
  BY ReachExists
<1>2. f = [i \in 0 .. Len(pattern) |->
             IF i = 0 THEN {0} ELSE Onward(f[i - 1], pattern[i], s)]
  BY <1>1 DEF Reaches
<1>3. reach = [i \in 0 .. Len(pattern) |->
                 IF i = 0 THEN {0} ELSE Onward(reach[i - 1], pattern[i], s)]
  BY <1>2
<1>4. StandsFor(pattern, s) <=> Len(s) \in reach[Len(pattern)]
  BY DEF StandsFor
<1> HIDE DEF reach
<1>5. Reaches(reach, pattern, s, Len(pattern))
  BY <1>3 DEF Reaches
<1> QED BY <1>4, <1>5

-----------------------------------------------------------------------------
LEMMA ReachAt ==
  ASSUME NEW n \in Nat, NEW f, NEW pattern, NEW s, Reaches(f, pattern, s, n)
  PROVE f[0] = {0} /\ \A i \in 1 .. n : f[i] = Onward(f[i - 1], pattern[i], s)
BY DEF Reaches

LEMMA ReachBounded ==
  ASSUME NEW n \in Nat, NEW f, NEW pattern, NEW s, Len(s) \in Nat, Reaches(f, pattern, s, n)
  PROVE \A i \in 0 .. n : f[i] \subseteq 0 .. Len(s)
<1> SUFFICES ASSUME NEW i \in 0 .. n PROVE f[i] \subseteq 0 .. Len(s)
  OBVIOUS
<1>1. CASE i = 0
  BY <1>1, ReachAt
<1>2. CASE i # 0
  <2>1. i \in 1 .. n
    BY <1>2
  <2>2. f[i] = Onward(f[i - 1], pattern[i], s)
    BY <2>1, ReachAt
  <2> QED BY <2>2 DEF Onward
<1> QED BY <1>1, <1>2

\* What is reached behind a run without a star is what was reached before it,
\* further on by as much, where the text has the run.
Runs(pattern, s, a, d, j) == \A t \in 1 .. d : s[j - d + t] = pattern[a + t]

LEMMA ReachOverRun ==
  ASSUME NEW n \in Nat, NEW f, NEW pattern, NEW s, Len(s) \in Nat, Reaches(f, pattern, s, n),
         NEW a \in 0 .. n, NEW b \in a .. n, \A i \in a + 1 .. b : pattern[i] # "*",
         NEW j
  PROVE j \in f[b] <=> /\ j \in 0 .. Len(s) /\ j - (b - a) \in f[a]
                       /\ Runs(pattern, s, a, b - a, j)
<1> DEFINE P == {d \in Nat : a + d <= b =>
                   \A k : k \in f[a + d] <=> /\ k \in 0 .. Len(s) /\ k - d \in f[a]
                                             /\ Runs(pattern, s, a, d, k)}
<1>1. 0 \in P
  BY ReachBounded DEF Runs
<1>2. ASSUME NEW d \in Nat, d \in P PROVE d + 1 \in P
  <2> SUFFICES ASSUME a + d + 1 <= b, NEW k
               PROVE k \in f[a + (d + 1)] <=>
                       /\ k \in 0 .. Len(s) /\ k - (d + 1) \in f[a]
                       /\ Runs(pattern, s, a, d + 1, k)
    OBVIOUS
  <2>1. /\ a + d + 1 \in 1 .. n /\ a + d \in 0 .. n /\ a + (d + 1) = a + d + 1
        /\ (a + d + 1) - 1 = a + d
        /\ pattern[a + d + 1] # "*"
    OBVIOUS
  <2>2. k \in f[a + d + 1] <=>
          k \in 1 .. Len(s) /\ k - 1 \in f[a + d] /\ s[k] = pattern[a + d + 1]
    <3>1. f[a + d + 1] = Onward(f[a + d], pattern[a + d + 1], s)
      BY <2>1, ReachAt
    <3> QED BY <2>1, <3>1 DEF Onward
  <2>3. \A h : h \in f[a + d] <=> /\ h \in 0 .. Len(s) /\ h - d \in f[a]
                                  /\ Runs(pattern, s, a, d, h)
    BY <1>2
  <2>4. f[a] \subseteq 0 .. Len(s)
    BY ReachBounded
  <2>5. ASSUME k \in Nat
        PROVE Runs(pattern, s, a, d + 1, k) <=>
                Runs(pattern, s, a, d, k - 1) /\ s[k] = pattern[a + d + 1]
    <3>1. \A t \in 1 .. d + 1 : k - (d + 1) + t = k - 1 - d + t
      BY <2>5
    <3>2. k - (d + 1) + (d + 1) = k
      BY <2>5
    <3>3. 1 .. d + 1 = (1 .. d) \cup {d + 1}
      OBVIOUS
    <3> QED BY <3>1, <3>2, <3>3, <2>1, <2>5 DEF Runs
  <2>6. k \in Nat => k - 1 - d = k - (d + 1)
    OBVIOUS
  <2>7. CASE k \in f[a + d + 1]
    <3>1. k \in 1 .. Len(s) /\ k - 1 - d \in f[a] /\ Runs(pattern, s, a, d, k - 1)
      BY <2>2, <2>3, <2>7
    <3>2. k \in Nat /\ s[k] = pattern[a + d + 1]
      BY <2>2, <2>7, <3>1
    <3> QED BY <2>1, <2>5, <2>6, <2>7, <3>1, <3>2
  <2>8. CASE k \in 0 .. Len(s) /\ k - (d + 1) \in f[a] /\ Runs(pattern, s, a, d + 1, k)
    <3>1. k - (d + 1) \in Nat /\ k \in 1 .. Len(s) /\ k - 1 \in 0 .. Len(s)
      BY <2>4, <2>8
    <3>2. k - 1 - d \in f[a] /\ Runs(pattern, s, a, d, k - 1) /\ s[k] = pattern[a + d + 1]
      BY <2>5, <2>6, <2>8, <3>1
    <3>3. k - 1 \in f[a + d]
      BY <2>3, <3>1, <3>2
    <3> QED BY <2>1, <2>2, <2>8, <3>1, <3>2, <3>3
  <2> QED BY <2>1, <2>7, <2>8
<1> HIDE DEF P
<1>3. b - a \in P /\ b - a \in Nat
  BY <1>1, <1>2, Induct
<1> QED BY <1>3 DEF P

-----------------------------------------------------------------------------
LEMMA SameSeq ==
  ASSUME NEW T, NEW u \in Seq(T), NEW v \in Seq(T), Len(u) = Len(v),
         \A t \in 1 .. Len(u) : u[t] = v[t]
  PROVE u = v
BY SeqEqual

LEMMA RunAt ==
  ASSUME NEW T, NEW p \in Seq(T), NEW s \in Seq(T), NEW a \in 0 .. Len(p), NEW d \in Nat,
         a + d <= Len(p), NEW j \in 0 .. Len(s), d <= j
  PROVE SubSeq(s, j - d + 1, j) = SubSeq(p, a + 1, a + d) <=> Runs(p, s, a, d, j)
<1> DEFINE u == SubSeq(s, j - d + 1, j)
           v == SubSeq(p, a + 1, a + d)
<1>1. /\ \A t \in j - d + 1 .. j : s[t] \in T
      /\ \A t \in a + 1 .. a + d : p[t] \in T
      /\ j - d + 1 \in Int /\ j \in Int /\ a + 1 \in Int /\ a + d \in Int
  BY LenProperties, ElementOfSeq
<1>2. /\ u \in Seq(T) /\ Len(u) = d
      /\ \A t \in 1 .. d : u[t] = s[j - d + t]
  BY <1>1, SubSeqProperties
<1>3. /\ v \in Seq(T) /\ Len(v) = d
      /\ \A t \in 1 .. d : v[t] = p[a + t]
  BY <1>1, SubSeqProperties
<1> HIDE DEF u, v
<1>4. u = v <=> \A t \in 1 .. d : u[t] = v[t]
  BY <1>2, <1>3, SameSeq
<1> QED BY <1>2, <1>3, <1>4 DEF u, v, Runs

LEMMA PrefixIs ==
  ASSUME NEW T, NEW p \in Seq(T), NEW s \in Seq(T), NEW k \in 1 .. Len(p)
  PROVE IsPrefix(Before(p, k), s) <=> k - 1 <= Len(s) /\ Runs(p, s, 0, k - 1, k - 1)
<1>1. /\ \A t \in 1 .. k - 1 : p[t] \in T
      /\ 1 \in Int /\ k - 1 \in Int /\ k - 1 \in Nat
  BY LenProperties, ElementOfSeq
<1>2. Before(p, k) \in Seq(T) /\ Len(Before(p, k)) = k - 1
  BY <1>1, SubSeqProperties DEF Before
<1>3. SubSeq(Before(p, k), 1, k - 1) = Before(p, k)
  BY <1>2, SubSeqFull
<1>4. CASE ~(k - 1 <= Len(s))
  BY <1>2, <1>4 DEF IsPrefix
<1>5. CASE k - 1 <= Len(s)
  <2> DEFINE d == k - 1
  <2>1. d \in Nat /\ d \in 0 .. Len(s) /\ 0 \in 0 .. Len(p) /\ 0 + d <= Len(p) /\ d <= d
    BY <1>1, <1>5
  <2> HIDE DEF d
  <2>2. SubSeq(s, d - d + 1, d) = SubSeq(p, 0 + 1, 0 + d) <=> Runs(p, s, 0, d, d)
    BY <2>1, RunAt
  <2>3. d - d + 1 = 1 /\ 0 + 1 = 1 /\ 0 + d = d
    BY <2>1
  <2> QED BY <1>2, <1>3, <1>5, <2>2, <2>3 DEF IsPrefix, Before, d
<1> QED BY <1>4, <1>5

LEMMA SuffixIs ==
  ASSUME NEW T, NEW p \in Seq(T), NEW s \in Seq(T), NEW k \in 0 .. Len(p),
         Len(p) - k <= Len(s)
  PROVE IsSuffix(From(p, k + 1), s) <=> Runs(p, s, k, Len(p) - k, Len(s))
<1> DEFINE tail == From(p, k + 1)
           d == Len(p) - k
           u == Reverse(tail)
           v == SubSeq(Reverse(s), 1, d)
<1>1. Len(p) \in Nat /\ Len(s) \in Nat /\ d \in Nat
  OBVIOUS
<1>2. /\ \A t \in k + 1 .. Len(p) : p[t] \in T
      /\ k + 1 \in Int /\ Len(p) \in Int
  BY LenProperties, ElementOfSeq
<1>3. /\ tail \in Seq(T) /\ Len(tail) = d
      /\ \A t \in 1 .. d : tail[t] = p[k + t]
  BY <1>2, SubSeqProperties DEF From
<1> HIDE DEF tail
<1>4. /\ u \in Seq(T) /\ Len(u) = d
      /\ \A t \in 1 .. d : u[t] = tail[d - t + 1]
  <2>1. \A t \in 1 .. d : d - t + 1 \in 1 .. d /\ tail[d - t + 1] \in T
    BY <1>3
  <2>2. u = [t \in 1 .. d |-> tail[d - t + 1]]
    BY <1>3 DEF Reverse
  <2> QED BY <1>1, <2>1, <2>2
<1>5. /\ Reverse(s) \in Seq(T) /\ Len(Reverse(s)) = Len(s)
      /\ \A t \in 1 .. Len(s) : Reverse(s)[t] = s[Len(s) - t + 1]
  <2>1. \A t \in 1 .. Len(s) : Len(s) - t + 1 \in 1 .. Len(s) /\ s[Len(s) - t + 1] \in T
    BY <1>1
  <2> QED BY <1>1, <2>1 DEF Reverse
<1>6. /\ v \in Seq(T) /\ Len(v) = d
      /\ \A t \in 1 .. d : v[t] = s[Len(s) - t + 1]
  <2>1. \A t \in 1 .. d : Reverse(s)[t] \in T /\ t \in 1 .. Len(s)
    BY <1>1, <1>5
  <2>2. /\ v \in Seq(T) /\ Len(v) = d
        /\ \A t \in 1 .. d - 1 + 1 : v[t] = Reverse(s)[1 + t - 1]
    <3> HIDE DEF d
    <3> QED BY <1>1, <2>1, SubSeqProperties
  <2> QED BY <1>1, <1>5, <2>1, <2>2
<1> HIDE DEF u, v, d
<1>7. SubSeq(u, 1, d) = u
  BY <1>4, SubSeqFull
<1>8. IsSuffix(tail, s) <=> u = v
  BY <1>1, <1>4, <1>5, <1>7 DEF IsSuffix, IsPrefix, u, v, d
<1>9. u = v <=> \A t \in 1 .. d : u[t] = v[t]
  BY <1>4, <1>6, SameSeq
<1>10. (\A t \in 1 .. d : u[t] = v[t]) <=> \A t \in 1 .. d : s[Len(s) - d + t] = p[k + t]
  <2>1. ASSUME NEW t \in 1 .. d
        PROVE /\ d - t + 1 \in 1 .. d
              /\ u[d - t + 1] = p[k + t]
              /\ v[d - t + 1] = s[Len(s) - d + t]
    <3>1. d - t + 1 \in 1 .. d /\ d - (d - t + 1) + 1 = t
          /\ Len(s) - (d - t + 1) + 1 = Len(s) - d + t
      BY <1>1
    <3> QED BY <1>3, <1>4, <1>6, <3>1
  <2>2. ASSUME NEW t \in 1 .. d
        PROVE /\ d - t + 1 \in 1 .. d
              /\ u[t] = p[k + (d - t + 1)]
              /\ v[t] = s[Len(s) - d + (d - t + 1)]
    <3>1. d - t + 1 \in 1 .. d /\ Len(s) - d + (d - t + 1) = Len(s) - t + 1
      BY <1>1
    <3> QED BY <1>3, <1>4, <1>6, <3>1
  <2> QED BY <2>1, <2>2
<1> QED BY <1>8, <1>9, <1>10 DEF Runs, tail, d

-----------------------------------------------------------------------------
Stars(pattern) == Places(pattern, "*")
StarBefore(pattern, k) == Max({j \in Stars(pattern) : j < k})

DoneAt(pattern, s, k, was) ==
  IF k = Min(Stars(pattern))
  THEN IF IsPrefix(Before(pattern, k), s) THEN k - 1 ELSE Len(s) + 1
  ELSE PastFirst(s, was, SubSeq(pattern, StarBefore(pattern, k) + 1, k - 1))

\* The one place the code keeps behind each star up to the n-th token.
Greedy(g, pattern, s, n) ==
  g = [k \in {j \in Stars(pattern) : j <= n} |->
         DoneAt(pattern, s, k, g[StarBefore(pattern, k)])]

\* Between a star and the one before it there is none.
LEMMA StarBeforeIs ==
  ASSUME NEW T, NEW p \in Seq(T), NEW k \in Stars(p), k # Min(Stars(p))
  PROVE /\ StarBefore(p, k) \in Stars(p) /\ StarBefore(p, k) < k
        /\ \A i \in StarBefore(p, k) + 1 .. k - 1 : p[i] # "*"
<1> DEFINE earlier == {j \in Stars(p) : j < k}
<1>1. Stars(p) \subseteq 1 .. Len(p) /\ Len(p) \in Nat
  BY DEF Stars, Places
<1>2. Min(Stars(p)) \in Stars(p) /\ Min(Stars(p)) <= k
  BY <1>1, MinIsLeast
<1>3. earlier \subseteq 0 .. Len(p) /\ earlier # {}
  BY <1>1, <1>2
<1>4. Max(earlier) \in earlier /\ \A j \in earlier : j <= Max(earlier)
  BY <1>1, <1>3, MaxIsGreatest
<1>5. StarBefore(p, k) = Max(earlier)
  BY DEF StarBefore
<1>6. ASSUME NEW i \in Max(earlier) + 1 .. k - 1 PROVE p[i] # "*"
  <2>1. i \in 1 .. Len(p) /\ i < k /\ ~(i <= Max(earlier))
    BY <1>1, <1>4
  <2>2. i \notin earlier
    BY <1>4, <2>1
  <2> QED BY <2>1, <2>2 DEF Stars, Places
<1> QED BY <1>1, <1>4, <1>5, <1>6

LEMMA GreedyExists ==
  ASSUME NEW T, NEW p \in Seq(T), NEW s, NEW N \in Nat
  PROVE \E g : Greedy(g, p, s, N)
<1> DEFINE P == {n \in Nat : \E g : Greedy(g, p, s, n)}
<1>1. Stars(p) \subseteq 1 .. Len(p) /\ Len(p) \in Nat
  BY DEF Stars, Places
<1>2. 0 \in P
  <2>1. {j \in Stars(p) : j <= 0} = {}
    BY <1>1
  <2>2. Greedy([k \in {} |-> 0], p, s, 0)
    BY <2>1 DEF Greedy
  <2> QED BY <2>2
<1>3. ASSUME NEW n \in Nat, n \in P PROVE n + 1 \in P
  <2>1. PICK g : Greedy(g, p, s, n)
    BY <1>3
  <2> DEFINE upto == {j \in Stars(p) : j <= n + 1}
             next == [k \in upto |-> IF k <= n THEN g[k]
                                     ELSE DoneAt(p, s, k, g[StarBefore(p, k)])]
  <2>2. ASSUME NEW k \in upto
        PROVE next[k] = DoneAt(p, s, k, next[StarBefore(p, k)])
    <3>1. CASE k = Min(Stars(p))
      <4>1. next[k] = DoneAt(p, s, k, g[StarBefore(p, k)])
        BY <2>1 DEF Greedy
      <4> QED BY <3>1, <4>1 DEF DoneAt
    <3>2. CASE k # Min(Stars(p))
      <4>1. k \in Nat /\ k <= n + 1 /\ k \in Stars(p)
        BY <1>1
      <4>2. StarBefore(p, k) \in Stars(p) /\ StarBefore(p, k) < k
        BY <3>2, <4>1, StarBeforeIs
      <4>3. StarBefore(p, k) \in Nat
        BY <1>1, <4>2
      <4>4. StarBefore(p, k) <= n
        BY <4>1, <4>2, <4>3
      <4>5. next[StarBefore(p, k)] = g[StarBefore(p, k)]
        BY <4>2, <4>3, <4>4
      <4>6. next[k] = DoneAt(p, s, k, g[StarBefore(p, k)])
        BY <2>1, <4>1 DEF Greedy
      <4> QED BY <4>5, <4>6
    <3> QED BY <3>1, <3>2
  <2>3. next = [k \in upto |-> next[k]]
    OBVIOUS
  <2> HIDE DEF next
  <2>4. Greedy(next, p, s, n + 1)
    BY <2>2, <2>3 DEF Greedy
  <2> QED BY <2>4
<1> HIDE DEF P
<1>4. \A n \in Nat : n \in P
  BY <1>2, <1>3, Induct
<1> QED BY <1>4 DEF P

LEMMA GlobIsGreedy ==
  ASSUME NEW T, NEW p \in Seq(T), NEW s
  PROVE \E g : /\ g = [k \in Stars(p) |-> DoneAt(p, s, k, g[StarBefore(p, k)])]
               /\ Glob(p, s) <=>
                    IF Stars(p) = {} THEN p = s
                    ELSE EndsIn(s, g[Max(Stars(p))], From(p, Max(Stars(p)) + 1))
<1> DEFINE done[k \in Stars(p)] ==
             IF k = Min(Stars(p))
             THEN IF IsPrefix(Before(p, k), s) THEN k - 1 ELSE Len(s) + 1
             ELSE PastFirst(s, done[StarBefore(p, k)],
                            SubSeq(p, StarBefore(p, k) + 1, k - 1))
<1>1. {j \in Stars(p) : j <= Len(p)} = Stars(p) /\ Len(p) \in Nat
  BY DEF Stars, Places
<1>2. PICK g : Greedy(g, p, s, Len(p))
  BY <1>1, GreedyExists
<1>3. g = [k \in Stars(p) |->
             IF k = Min(Stars(p))
             THEN IF IsPrefix(Before(p, k), s) THEN k - 1 ELSE Len(s) + 1
             ELSE PastFirst(s, g[StarBefore(p, k)],
                            SubSeq(p, StarBefore(p, k) + 1, k - 1))]
  BY <1>1, <1>2 DEF Greedy, DoneAt
<1>4. done = [k \in Stars(p) |->
             IF k = Min(Stars(p))
             THEN IF IsPrefix(Before(p, k), s) THEN k - 1 ELSE Len(s) + 1
             ELSE PastFirst(s, done[StarBefore(p, k)],
                            SubSeq(p, StarBefore(p, k) + 1, k - 1))]
  BY <1>3
<1>5. Glob(p, s) <=> IF Stars(p) = {} THEN p = s
                     ELSE EndsIn(s, done[Max(Stars(p))], From(p, Max(Stars(p)) + 1))
  BY DEF Glob, Stars, StarBefore
<1> HIDE DEF done
<1>6. done = [k \in Stars(p) |-> DoneAt(p, s, k, done[StarBefore(p, k)])]
  BY <1>4 DEF DoneAt
<1> QED BY <1>5, <1>6

-----------------------------------------------------------------------------
\* What is reached behind a star is everything from the least of it on.
LEMMA ReachOverStar ==
  ASSUME NEW n \in Nat, NEW f, NEW p, NEW s, Len(s) \in Nat, Reaches(f, p, s, n),
         NEW k \in 1 .. n, p[k] = "*"
  PROVE f[k] = {j \in 0 .. Len(s) : \E i \in f[k - 1] : i <= j}
<1>1. f[k] = Onward(f[k - 1], p[k], s)
  BY ReachAt
<1> QED BY <1>1 DEF Onward

LEMMA AllFromOn ==
  ASSUME NEW S, NEW least \in Nat, NEW N \in Nat,
         \A j : j \in S <=> j \in 0 .. N /\ least <= j
  PROVE S = least .. N
<1>1. \A j : j \in S <=> j \in least .. N
  OBVIOUS
<1> QED BY <1>1, Zenon

LEMMA FirstStarReaches ==
  ASSUME NEW T, NEW p \in Seq(T), NEW s \in Seq(T), NEW f, Reaches(f, p, s, Len(p)),
         NEW k \in Stars(p), k = Min(Stars(p)), NEW was
  PROVE /\ DoneAt(p, s, k, was) \in 0 .. Len(s) + 1
        /\ f[k] = DoneAt(p, s, k, was) .. Len(s)
<1>1. /\ k \in 1 .. Len(p) /\ p[k] = "*" /\ Len(p) \in Nat /\ Len(s) \in Nat
      /\ 0 \in 0 .. Len(p) /\ k - 1 \in 0 .. Len(p) /\ k - 1 \in Nat
  BY DEF Stars, Places
<1>2. \A i \in 1 .. k - 1 : p[i] # "*"
  <2>1. Stars(p) \in SUBSET Nat
    BY <1>1 DEF Stars, Places
  <2>2. \A i \in Stars(p) : k <= i
    BY <2>1, MinIsLeast
  <2>3. \A i \in 1 .. k - 1 : i \in DOMAIN p /\ ~(k <= i)
    BY <1>1
  <2> QED BY <2>2, <2>3 DEF Stars, Places
<1>3. ASSUME NEW j
      PROVE j \in f[k - 1] <=> /\ j \in 0 .. Len(s) /\ j = k - 1
                              /\ Runs(p, s, 0, k - 1, k - 1)
  <2> DEFINE b == k - 1
  <2>1. b \in 0 .. Len(p) /\ \A i \in 0 + 1 .. b : p[i] # "*"
    BY <1>1, <1>2
  <2> HIDE DEF b
  <2>2. j \in f[b] <=> j \in 0 .. Len(s) /\ j - (b - 0) \in f[0] /\ Runs(p, s, 0, b - 0, j)
    BY <1>1, <2>1, ReachOverRun
  <2>3. f[0] = {0}
    BY <1>1, ReachAt
  <2>4. b - 0 = b /\ (j \in 0 .. Len(s) => (j - b \in {0} <=> j = b))
    BY <2>1, <1>1
  <2> QED BY <2>2, <2>3, <2>4 DEF b
<1>4. f[k] = {j \in 0 .. Len(s) : \E i \in f[k - 1] : i <= j}
  BY <1>1, ReachOverStar
<1>5. IsPrefix(Before(p, k), s) <=> k - 1 <= Len(s) /\ Runs(p, s, 0, k - 1, k - 1)
  BY <1>1, PrefixIs
<1>6. CASE IsPrefix(Before(p, k), s)
  <2>1. f[k - 1] = {k - 1} /\ DoneAt(p, s, k, was) = k - 1
    BY <1>1, <1>3, <1>5, <1>6 DEF DoneAt
  <2>2. \A j : j \in f[k] <=> j \in 0 .. Len(s) /\ k - 1 <= j
    BY <1>4, <2>1
  <2>3. f[k] = k - 1 .. Len(s)
    BY <1>1, <2>2, AllFromOn
  <2> QED BY <1>1, <1>5, <1>6, <2>1, <2>3
<1>7. CASE ~IsPrefix(Before(p, k), s)
  <2>1. f[k - 1] = {} /\ DoneAt(p, s, k, was) = Len(s) + 1
    BY <1>1, <1>3, <1>5, <1>7 DEF DoneAt
  <2>2. f[k] = {}
    BY <1>4, <2>1
  <2> QED BY <1>1, <2>1, <2>2
<1> QED BY <1>6, <1>7

\* Where the run between two stars can end, and the first of it.
LEMMA NextStarReaches ==
  ASSUME NEW T, NEW p \in Seq(T), NEW s \in Seq(T), NEW f, Reaches(f, p, s, Len(p)),
         NEW k \in Stars(p), k # Min(Stars(p)), NEW was \in 0 .. Len(s) + 1,
         f[StarBefore(p, k)] = was .. Len(s)
  PROVE /\ DoneAt(p, s, k, was) \in 0 .. Len(s) + 1
        /\ f[k] = DoneAt(p, s, k, was) .. Len(s)
<1> DEFINE a == StarBefore(p, k)
           d == k - 1 - a
           run == SubSeq(p, a + 1, k - 1)
           places == {at \in was + 1 .. Len(s) - Len(run) + 1 :
                        SubSeq(s, at, at + Len(run) - 1) = run}
<1>1. /\ k \in 1 .. Len(p) /\ p[k] = "*" /\ Len(p) \in Nat /\ Len(s) \in Nat
      /\ a \in 1 .. Len(p) /\ a < k /\ \A i \in a + 1 .. k - 1 : p[i] # "*"
  BY StarBeforeIs DEF Stars, Places
<1>2. f[a] = was .. Len(s)
  OBVIOUS
<1>3. DoneAt(p, s, k, was) = IF places = {} THEN Len(s) + 1 ELSE Min(places) + Len(run) - 1
  BY DEF DoneAt, PastFirst
<1> HIDE DEF a
<1>4. /\ d \in Nat /\ a + d = k - 1 /\ a + d <= Len(p) /\ a \in 0 .. Len(p)
      /\ k - 1 \in a .. Len(p)
  BY <1>1
<1>5. Len(run) = d
  <2>1. a + 1 \in Int /\ k - 1 \in Int /\ \A i \in a + 1 .. k - 1 : p[i] \in T
    BY <1>1, ElementOfSeq
  <2> QED BY <1>1, <2>1, SubSeqProperties
<1>6. ASSUME NEW j
      PROVE j \in f[k - 1] <=> /\ j \in 0 .. Len(s) /\ was <= j - d
                              /\ Runs(p, s, a, d, j)
  <2> DEFINE b == k - 1
  <2>1. b \in a .. Len(p) /\ b - a = d /\ \A i \in a + 1 .. b : p[i] # "*"
    BY <1>1, <1>4
  <2> HIDE DEF b, d
  <2>2. j \in f[b] <=> j \in 0 .. Len(s) /\ j - (b - a) \in f[a] /\ Runs(p, s, a, b - a, j)
    BY <1>1, <1>4, <2>1, ReachOverRun
  <2>3. j \in 0 .. Len(s) => (j - d \in was .. Len(s) <=> was <= j - d)
    BY <1>1, <1>4
  <2> QED BY <1>2, <2>1, <2>2, <2>3 DEF b
<1>7. ASSUME NEW j \in 0 .. Len(s), was <= j - d
      PROVE SubSeq(s, j - d + 1, j) = run <=> Runs(p, s, a, d, j)
  <2>1. d <= j
    BY <1>1, <1>4, <1>7
  <2> HIDE DEF d
  <2>2. SubSeq(s, j - d + 1, j) = SubSeq(p, a + 1, a + d) <=> Runs(p, s, a, d, j)
    BY <1>4, <2>1, RunAt
  <2> QED BY <1>4, <2>2
<1> HIDE DEF run, d
<1>8. ASSUME NEW j \in f[k - 1]
      PROVE j - d + 1 \in places /\ j \in 0 .. Len(s)
  <2>1. j \in 0 .. Len(s) /\ was <= j - d /\ Runs(p, s, a, d, j)
    BY <1>6, <1>8
  <2>2. SubSeq(s, j - d + 1, j) = run
    BY <1>7, <2>1
  <2>3. j - d + 1 \in was + 1 .. Len(s) - d + 1 /\ (j - d + 1) + d - 1 = j
    BY <1>1, <1>4, <2>1
  <2> QED BY <1>5, <2>1, <2>2, <2>3
<1>9. ASSUME NEW at \in places
      PROVE at + d - 1 \in f[k - 1] /\ at \in Nat /\ at + d - 1 \in 0 .. Len(s)
  <2>1. at \in was + 1 .. Len(s) - d + 1 /\ SubSeq(s, at, at + d - 1) = run
    BY <1>5, <1>9
  <2>2. /\ at + d - 1 \in 0 .. Len(s) /\ was <= (at + d - 1) - d
        /\ (at + d - 1) - d + 1 = at /\ at \in Nat
    BY <1>1, <1>4, <2>1
  <2>3. Runs(p, s, a, d, at + d - 1)
    BY <1>7, <2>1, <2>2
  <2> QED BY <1>6, <2>2, <2>3
<1> HIDE DEF places
<1>10. f[k] = {j \in 0 .. Len(s) : \E i \in f[k - 1] : i <= j}
  BY <1>1, ReachOverStar
<1>11. CASE places = {}
  <2>1. f[k - 1] = {}
    BY <1>8, <1>11
  <2> QED BY <1>1, <1>3, <1>10, <1>11, <2>1
<1>12. CASE places # {}
  <2>1. places \in SUBSET Nat
    BY <1>9
  <2>2. Min(places) \in places /\ \A at \in places : Min(places) <= at
    BY <1>12, <2>1, MinIsLeast
  <2> DEFINE first == Min(places) + d - 1
  <2>3. first \in f[k - 1] /\ first \in 0 .. Len(s) /\ Min(places) \in Nat
    BY <1>9, <2>2
  <2>4. \A j \in f[k - 1] : first <= j /\ j \in 0 .. Len(s)
    <3> TAKE j \in f[k - 1]
    <3>1. j - d + 1 \in places /\ j \in 0 .. Len(s)
      BY <1>8
    <3>2. Min(places) <= j - d + 1
      BY <2>2, <3>1
    <3> QED BY <1>4, <2>3, <3>1, <3>2
  <2>5. DoneAt(p, s, k, was) = first
    BY <1>3, <1>5, <1>12
  <2> HIDE DEF first
  <2>6. \A j : j \in f[k] <=> j \in 0 .. Len(s) /\ first <= j
    BY <1>1, <1>10, <2>3, <2>4
  <2>7. f[k] = first .. Len(s)
    <3>1. first \in Nat /\ Len(s) \in Nat
      BY <1>1, <2>3
    <3> QED BY <2>6, <3>1, AllFromOn
  <2> QED BY <1>1, <2>3, <2>5, <2>7
<1> QED BY <1>11, <1>12

LEMMA GreedyReaches ==
  ASSUME NEW T, NEW p \in Seq(T), NEW s \in Seq(T), NEW f, Reaches(f, p, s, Len(p)),
         NEW g, g = [k \in Stars(p) |-> DoneAt(p, s, k, g[StarBefore(p, k)])],
         NEW k \in Stars(p)
  PROVE g[k] \in 0 .. Len(s) + 1 /\ f[k] = g[k] .. Len(s)
<1> DEFINE Bad == {h \in Stars(p) : ~(g[h] \in 0 .. Len(s) + 1 /\ f[h] = g[h] .. Len(s))}
<1>1. Stars(p) \subseteq 1 .. Len(p) /\ Len(p) \in Nat
  BY DEF Stars, Places
<1> SUFFICES ASSUME Bad # {} PROVE FALSE
  OBVIOUS
<1>2. PICK h \in Bad : \A i \in Bad : h <= i
  <2>1. Bad \in SUBSET Nat
    BY <1>1
  <2> HIDE DEF Bad
  <2> QED BY <2>1, LeastOf
<1>3. g[h] = DoneAt(p, s, h, g[StarBefore(p, h)])
  BY <1>2
<1>4. CASE h = Min(Stars(p))
  BY <1>2, <1>3, <1>4, FirstStarReaches
<1>5. CASE h # Min(Stars(p))
  <2>1. h \in Stars(p) /\ StarBefore(p, h) \in Stars(p) /\ StarBefore(p, h) < h
    BY <1>2, <1>5, StarBeforeIs
  <2>2. StarBefore(p, h) \notin Bad
    BY <1>1, <1>2, <2>1
  <2>3. /\ g[StarBefore(p, h)] \in 0 .. Len(s) + 1
        /\ f[StarBefore(p, h)] = g[StarBefore(p, h)] .. Len(s)
    BY <2>1, <2>2
  <2> QED BY <1>2, <1>3, <1>5, <2>1, <2>3, NextStarReaches
<1> QED BY <1>4, <1>5

\* The greedy matcher accepts exactly the texts its stars can be filled in to:
\* that a run is taken where it is found first, and never reconsidered, loses
\* nothing (matchSegment, internal/trustpolicy/match.go, and globMatch,
\* internal/keyless/cert.go).
THEOREM GlobIsStandsFor ==
  ASSUME NEW T, NEW pattern \in Seq(T), NEW s \in Seq(T)
  PROVE Glob(pattern, s) <=> StandsFor(pattern, s)
<1> DEFINE p == pattern
<1>1. Len(p) \in Nat /\ Len(s) \in Nat /\ DOMAIN p = 1 .. Len(p) /\ DOMAIN s = 1 .. Len(s)
  OBVIOUS
<1>2. PICK f : Reaches(f, p, s, Len(p)) /\ (StandsFor(p, s) <=> Len(s) \in f[Len(p)])
  BY <1>1, StandsForReaches
<1>3. PICK g : /\ g = [k \in Stars(p) |-> DoneAt(p, s, k, g[StarBefore(p, k)])]
               /\ Glob(p, s) <=>
                    IF Stars(p) = {} THEN p = s
                    ELSE EndsIn(s, g[Max(Stars(p))], From(p, Max(Stars(p)) + 1))
  BY GlobIsGreedy
<1>4. CASE Stars(p) = {}
  <2>1. \A i \in 0 + 1 .. Len(p) : p[i] # "*"
    BY <1>1, <1>4 DEF Stars, Places
  <2>2. Len(s) \in f[Len(p)] <=> /\ Len(s) \in 0 .. Len(s) /\ Len(s) - (Len(p) - 0) \in f[0]
                                 /\ Runs(p, s, 0, Len(p) - 0, Len(s))
    <3>1. 0 \in 0 .. Len(p) /\ Len(p) \in 0 .. Len(p)
      BY <1>1
    <3> HIDE DEF p
    <3> QED BY <1>1, <1>2, <2>1, <3>1, ReachOverRun
  <2>3. f[0] = {0}
    BY <1>1, <1>2, ReachAt
  <2>4. Len(s) \in f[Len(p)] <=> Len(s) = Len(p) /\ Runs(p, s, 0, Len(p), Len(s))
    <3>1. Len(p) - 0 = Len(p) /\ (Len(s) - Len(p) \in {0} <=> Len(s) = Len(p))
      BY <1>1
    <3>2. Len(s) - (Len(p) - 0) \in f[0] <=> Len(s) = Len(p)
      BY <2>3, <3>1
    <3>3. Runs(p, s, 0, Len(p) - 0, Len(s)) <=> Runs(p, s, 0, Len(p), Len(s))
      BY <3>1
    <3>4. Len(s) \in 0 .. Len(s)
      BY <1>1
    <3> QED BY <2>2, <3>2, <3>3, <3>4, Zenon
  <2>5. Len(s) = Len(p) => (Runs(p, s, 0, Len(p), Len(s)) <=> \A t \in 1 .. Len(p) : p[t] = s[t])
    BY <1>1 DEF Runs
  <2>6. p = s <=> Len(s) = Len(p) /\ \A t \in 1 .. Len(p) : p[t] = s[t]
    BY SameSeq
  <2> QED BY <1>2, <1>3, <1>4, <2>4, <2>5, <2>6
<1>5. CASE Stars(p) # {}
  <2> DEFINE k == Max(Stars(p))
  <2>1. Stars(p) \subseteq 0 .. Len(p)
    BY <1>1 DEF Stars, Places
  <2>2. k \in Stars(p) /\ \A i \in Stars(p) : i <= k
    BY <1>1, <1>5, <2>1, MaxIsGreatest
  <2> HIDE DEF k
  <2>3. k \in 1 .. Len(p) /\ Len(p) - k \in Nat
    BY <1>1, <2>2 DEF Stars, Places
  <2>4. \A i \in k + 1 .. Len(p) : p[i] # "*"
    BY <1>1, <2>2, <2>3 DEF Stars, Places
  <2>5. g[k] \in 0 .. Len(s) + 1 /\ f[k] = g[k] .. Len(s)
    BY <1>2, <1>3, <2>2, GreedyReaches
  <2>6. Len(s) \in f[Len(p)] <=> /\ Len(s) \in 0 .. Len(s) /\ Len(s) - (Len(p) - k) \in f[k]
                                 /\ Runs(p, s, k, Len(p) - k, Len(s))
    <3>1. k \in 0 .. Len(p) /\ Len(p) \in k .. Len(p)
      BY <1>1, <2>3
    <3> HIDE DEF p
    <3> QED BY <1>1, <1>2, <2>4, <3>1, ReachOverRun
  <2>7. Len(s) \in f[Len(p)] <=> /\ Len(s) - g[k] >= Len(p) - k
                                 /\ Runs(p, s, k, Len(p) - k, Len(s))
    BY <1>1, <2>3, <2>5, <2>6
  <2>8. Len(From(p, k + 1)) = Len(p) - k
    <3>1. k + 1 \in Int /\ Len(p) \in Int /\ \A i \in k + 1 .. Len(p) : p[i] \in T
      BY <1>1, <2>3, ElementOfSeq
    <3>2. Len(SubSeq(p, k + 1, Len(p))) = IF k + 1 <= Len(p) THEN Len(p) - (k + 1) + 1 ELSE 0
      BY <3>1, SubSeqProperties
    <3>3. (IF k + 1 <= Len(p) THEN Len(p) - (k + 1) + 1 ELSE 0) = Len(p) - k
      <4>1. ASSUME NEW n \in Nat, NEW h \in 1 .. n
            PROVE (IF h + 1 <= n THEN n - (h + 1) + 1 ELSE 0) = n - h
        OBVIOUS
      <4> QED BY <1>1, <2>3, <4>1
    <3>4. From(p, k + 1) = SubSeq(p, k + 1, Len(p))
      BY DEF From
    <3> QED BY <3>2, <3>3, <3>4, Zenon
  <2>9. Len(p) - k <= Len(s) =>
          (IsSuffix(From(p, k + 1), s) <=> Runs(p, s, k, Len(p) - k, Len(s)))
    BY <2>3, SuffixIs
  <2>10. EndsIn(s, g[k], From(p, k + 1)) <=> Len(s) \in f[Len(p)]
    BY <1>1, <2>3, <2>5, <2>7, <2>8, <2>9 DEF EndsIn
  <2> QED BY <1>2, <1>3, <1>5, <2>10 DEF k
<1> QED BY <1>4, <1>5

-----------------------------------------------------------------------------
\* What of the text a pattern leaves no choice about.

LEMMA ReachEarlier ==
  ASSUME NEW n \in Nat, NEW f, NEW p, NEW s, Len(s) \in Nat, Reaches(f, p, s, n),
         NEW b \in 0 .. n, NEW a \in 0 .. b, NEW j \in f[b]
  PROVE \E i \in f[a] : i <= j
<1> DEFINE P == {d \in Nat : d <= b => \E i \in f[b - d] : i <= j}
<1>1. \A i \in 0 .. n : f[i] \subseteq 0 .. Len(s)
  BY ReachBounded
<1>2. 0 \in P
  <2>1. b - 0 = b /\ j \in 0 .. Len(s)
    BY <1>1
  <2>2. j <= j
    BY <2>1
  <2> QED BY <2>1, <2>2
<1>3. ASSUME NEW d \in Nat, d \in P PROVE d + 1 \in P
  <2>1. CASE d + 1 <= b
    <3>1. PICK i \in f[b - d] : i <= j
      BY <1>3, <2>1
    <3>2. b - d \in 1 .. n /\ b - d - 1 = b - (d + 1) /\ b - d - 1 \in 0 .. n
          /\ j \in 0 .. Len(s) /\ b - d \in 0 .. n
      BY <1>1, <2>1
    <3>3. f[b - d] = Onward(f[b - d - 1], p[b - d], s)
      BY <3>2, ReachAt
    <3>4. f[b - d - 1] \subseteq 0 .. Len(s) /\ i \in 0 .. Len(s)
      BY <1>1, <3>1, <3>2
    <3>5. \E h \in f[b - d - 1] : h <= i
      <4>1. CASE p[b - d] = "*"
        BY <3>1, <3>3, <4>1 DEF Onward
      <4>2. CASE p[b - d] # "*"
        <5>1. i - 1 \in f[b - d - 1] /\ i - 1 <= i
          BY <3>1, <3>3, <3>4, <4>2 DEF Onward
        <5> QED BY <5>1
      <4> QED BY <4>1, <4>2
    <3>6. \E h \in f[b - d - 1] : h <= j
      BY <3>1, <3>2, <3>4, <3>5
    <3> QED BY <3>2, <3>6
  <2>2. CASE ~(d + 1 <= b)
    BY <2>2
  <2> QED BY <2>1, <2>2
<1> HIDE DEF P
<1>4. b - a \in P /\ b - a \in Nat /\ b - a <= b /\ b - (b - a) = a
  BY <1>2, <1>3, Induct
<1> QED BY <1>4 DEF P

\* It begins with what stands before the first star.
LEMMA GlobBegins ==
  ASSUME NEW T, NEW p \in Seq(T), NEW s \in Seq(T), Stars(p) # {}, Glob(p, s)
  PROVE LET k == Min(Stars(p))
        IN k \in Stars(p) /\ k - 1 <= Len(s) /\ \A t \in 1 .. k - 1 : s[t] = p[t]
<1> DEFINE k == Min(Stars(p))
           b == k - 1
<1>1. Stars(p) \in SUBSET (1 .. Len(p)) /\ Len(p) \in Nat /\ Len(s) \in Nat
  BY DEF Stars, Places
<1>2. Stars(p) \in SUBSET Nat
  BY <1>1
<1>3. k \in Stars(p) /\ \A i \in Stars(p) : k <= i
  BY <1>2, MinIsLeast
<1> HIDE DEF k
<1>4. b \in 0 .. Len(p) /\ 0 \in 0 .. Len(p) /\ b - 0 = b /\ 0 + 1 = 1
      /\ Len(p) \in 0 .. Len(p) /\ b \in 0 .. b /\ b \in Nat
  BY <1>1, <1>3
<1>5. \A i \in 0 + 1 .. b : p[i] # "*"
  <2>1. \A i \in 1 .. b : i \in DOMAIN p /\ ~(k <= i)
    BY <1>1, <1>3
  <2> QED BY <1>3, <2>1 DEF Stars, Places
<1>6. PICK f : Reaches(f, p, s, Len(p)) /\ (StandsFor(p, s) <=> Len(s) \in f[Len(p)])
  BY <1>1, StandsForReaches
<1>7. Len(s) \in f[Len(p)]
  BY <1>6, GlobIsStandsFor
<1> HIDE DEF b
<1>8. PICK i \in f[b] : i <= Len(s)
  BY <1>1, <1>4, <1>6, <1>7, ReachEarlier
<1>9. i \in 0 .. Len(s) /\ i - (b - 0) \in f[0] /\ Runs(p, s, 0, b - 0, i)
  BY <1>1, <1>4, <1>5, <1>6, <1>8, ReachOverRun
<1>10. f[0] = {0}
  BY <1>1, <1>6, ReachAt
<1>11. i = b
  <2>1. i - b = 0 /\ i \in Nat
    BY <1>4, <1>9, <1>10
  <2> QED BY <1>4, <2>1
<1>12. b <= Len(s) /\ \A t \in 1 .. b : s[t] = p[t]
  <2>1. \A t \in 1 .. b : b - b + t = t /\ 0 + t = t
    BY <1>4
  <2>2. Runs(p, s, 0, b, b)
    BY <1>4, <1>9, <1>11
  <2> QED BY <1>8, <1>11, <2>1, <2>2 DEF Runs
<1> QED BY <1>3, <1>12 DEF k, b

\* It ends with what stands after the last star, and has every other token of
\* the pattern before that.
LEMMA GlobEnds ==
  ASSUME NEW T, NEW p \in Seq(T), NEW s \in Seq(T), Stars(p) # {}, Glob(p, s)
  PROVE LET k == Max(Stars(p))
            d == Len(p) - k
        IN /\ k \in Stars(p) /\ \A i \in Stars(p) : i <= k
           /\ d \in 0 .. Len(s)
           /\ \A t \in 1 .. d : s[Len(s) - d + t] = p[k + t]
           /\ \A i \in 1 .. k - 1 : p[i] # "*" =>
                \E j \in 1 .. Len(s) - d : s[j] = p[i]
<1> DEFINE k == Max(Stars(p))
           d == Len(p) - k
<1>1. Stars(p) \subseteq 1 .. Len(p) /\ Len(p) \in Nat /\ Len(s) \in Nat
  BY DEF Stars, Places
<1>2. Stars(p) \subseteq 0 .. Len(p)
  BY <1>1
<1>3. k \in Stars(p) /\ \A i \in Stars(p) : i <= k
  BY <1>1, <1>2, MaxIsGreatest
<1> HIDE DEF k
<1>4. k \in 1 .. Len(p) /\ d \in Nat /\ k \in 0 .. Len(p) /\ Len(p) \in k .. Len(p)
      /\ Len(p) \in 0 .. Len(p)
  BY <1>1, <1>3
<1>5. \A i \in k + 1 .. Len(p) : p[i] # "*"
  <2>1. \A i \in k + 1 .. Len(p) : i \in DOMAIN p /\ ~(i <= k)
    BY <1>1, <1>4
  <2> QED BY <1>3, <2>1 DEF Stars, Places
<1>6. PICK f : Reaches(f, p, s, Len(p)) /\ (StandsFor(p, s) <=> Len(s) \in f[Len(p)])
  BY <1>1, StandsForReaches
<1>7. Len(s) \in f[Len(p)]
  BY <1>6, GlobIsStandsFor
<1>8. Len(s) - (Len(p) - k) \in f[k] /\ Runs(p, s, k, Len(p) - k, Len(s))
  BY <1>1, <1>4, <1>5, <1>6, <1>7, ReachOverRun
<1>9. f[k] \subseteq 0 .. Len(s)
  BY <1>1, <1>4, <1>6, ReachBounded
<1>10. d \in 0 .. Len(s) /\ \A t \in 1 .. d : s[Len(s) - d + t] = p[k + t]
  <2>1. Len(s) - d \in 0 .. Len(s)
    BY <1>8, <1>9
  <2> QED BY <1>1, <1>4, <1>8, <2>1 DEF Runs
<1>11. ASSUME NEW i \in 1 .. k - 1, p[i] # "*"
       PROVE \E j \in 1 .. Len(s) - d : s[j] = p[i]
  <2>1. i \in 0 .. k /\ i \in 1 .. Len(p)
    BY <1>4
  <2>2. Len(s) - d \in f[k]
    BY <1>8
  <2> HIDE DEF d
  <2>3. PICK j \in f[i] : j <= Len(s) - d
    BY <1>1, <1>4, <1>6, <2>1, <2>2, ReachEarlier
  <2>4. f[i] = Onward(f[i - 1], p[i], s)
    BY <1>1, <1>6, <2>1, ReachAt
  <2>5. j \in 1 .. Len(s) /\ s[j] = p[i]
    BY <1>11, <2>3, <2>4 DEF Onward
  <2>6. j \in 1 .. Len(s) - d
    <3>1. d \in Nat
      BY <1>4
    <3> QED BY <1>1, <2>3, <2>5, <3>1
  <2> QED BY <2>5, <2>6
<1> QED BY <1>3, <1>10, <1>11 DEF k, d

-----------------------------------------------------------------------------
\* From where on a name is matched by what is left of a pattern, from the n-th
\* segment to behind the last.
MatchTable(m, pattern, name, n) ==
  m = [i \in n .. Len(pattern) + 1 |->
         IF i > Len(pattern) THEN {Len(name) + 1}
         ELSE MatchesFrom(pattern[i], m[i + 1], name)]

LEMMA MatchingExists ==
  ASSUME NEW p, Len(p) \in Nat, NEW name
  PROVE \E m : MatchTable(m, p, name, 1)
<1> DEFINE P == {d \in Nat : d <= Len(p) => \E m : MatchTable(m, p, name, Len(p) + 1 - d)}
<1>1. 0 \in P
  <2>1. Len(p) + 1 - 0 = Len(p) + 1 /\ \A i \in Len(p) + 1 .. Len(p) + 1 : i > Len(p)
    OBVIOUS
  <2>2. MatchTable([i \in Len(p) + 1 .. Len(p) + 1 |-> {Len(name) + 1}], p, name, Len(p) + 1)
    BY <2>1 DEF MatchTable
  <2> QED BY <2>1, <2>2
<1>2. ASSUME NEW d \in Nat, d \in P PROVE d + 1 \in P
  <2> SUFFICES ASSUME d + 1 <= Len(p)
               PROVE \E m : MatchTable(m, p, name, Len(p) + 1 - (d + 1))
    OBVIOUS
  <2>1. PICK m : MatchTable(m, p, name, Len(p) + 1 - d)
    BY <1>2
  <2> DEFINE n == Len(p) - d
             next == [i \in n .. Len(p) + 1 |->
                        IF i = n THEN MatchesFrom(p[i], m[i + 1], name) ELSE m[i]]
  <2>2. n \in 1 .. Len(p) /\ Len(p) + 1 - (d + 1) = n /\ Len(p) + 1 - d = n + 1
    OBVIOUS
  <2> HIDE DEF n
  <2>3. ASSUME NEW i \in n .. Len(p) + 1
        PROVE next[i] = IF i > Len(p) THEN {Len(name) + 1}
                        ELSE MatchesFrom(p[i], next[i + 1], name)
    <3>1. i # n => i \in n + 1 .. Len(p) + 1
      BY <2>2
    <3>2. i <= Len(p) => i + 1 \in n .. Len(p) + 1 /\ i + 1 # n
      BY <2>2
    <3>3. i <= Len(p) => next[i + 1] = m[i + 1]
      BY <3>2
    <3>4. CASE i = n
      BY <2>2, <3>3, <3>4
    <3>5. CASE i # n
      <4>1. next[i] = m[i]
        BY <3>5
      <4>2. m[i] = IF i > Len(p) THEN {Len(name) + 1} ELSE MatchesFrom(p[i], m[i + 1], name)
        BY <2>1, <2>2, <3>1, <3>5 DEF MatchTable
      <4>3. i > Len(p) \/ i <= Len(p)
        BY <2>2
      <4> QED BY <3>3, <4>1, <4>2, <4>3
    <3> QED BY <3>4, <3>5
  <2>4. next = [i \in n .. Len(p) + 1 |-> next[i]]
    OBVIOUS
  <2> HIDE DEF next
  <2>5. MatchTable(next, p, name, n)
    BY <2>3, <2>4 DEF MatchTable
  <2> QED BY <2>2, <2>5
<1> HIDE DEF P
<1>3. Len(p) \in P
  BY <1>1, <1>2, Induct
<1>4. Len(p) + 1 - Len(p) = 1
  OBVIOUS
<1> QED BY <1>3, <1>4 DEF P

LEMMA MatchIsMatching ==
  ASSUME NEW p, Len(p) \in Nat, NEW name
  PROVE \E m : MatchTable(m, p, name, 1) /\ (Match(p, name) <=> 1 \in m[1])
<1> DEFINE matches[i \in 1 .. Len(p) + 1] ==
             IF i > Len(p) THEN {Len(name) + 1}
             ELSE MatchesFrom(p[i], matches[i + 1], name)
<1>1. PICK m : MatchTable(m, p, name, 1)
  BY MatchingExists
<1>2. m = [i \in 1 .. Len(p) + 1 |->
             IF i > Len(p) THEN {Len(name) + 1} ELSE MatchesFrom(p[i], m[i + 1], name)]
  BY <1>1 DEF MatchTable
<1>3. matches = [i \in 1 .. Len(p) + 1 |->
                   IF i > Len(p) THEN {Len(name) + 1}
                   ELSE MatchesFrom(p[i], matches[i + 1], name)]
  BY <1>2
<1>4. Match(p, name) <=> 1 \in matches[1]
  BY DEF Match
<1> HIDE DEF matches
<1>5. MatchTable(matches, p, name, 1)
  BY <1>3 DEF MatchTable
<1> QED BY <1>4, <1>5

-----------------------------------------------------------------------------
\* One segment of the pattern takes the segments of the name after `from` up to
\* `to`.
Takes(segment, name, from, to) ==
  IF segment = <<"**">> THEN from <= to
  ELSE to = from + 1 /\ StandsFor(segment, name[to])

\* A deal of what is left of a name to the segments of the pattern after i.
Deals(u, p, name, i) ==
  /\ u \in [i .. Len(p) -> 0 .. Len(name)]
  /\ u[Len(p)] = Len(name)
  /\ \A h \in i + 1 .. Len(p) : Takes(p[h], name, u[h - 1], u[h])

LEMMA MatchesFromTakes ==
  ASSUME NEW T, NEW segment \in Seq(T), NEW name \in Seq(Seq(T)), NEW rest,
         rest \subseteq 1 .. Len(name) + 1, NEW j
  PROVE j \in MatchesFrom(segment, rest, name) <=>
          j - 1 \in 0 .. Len(name) /\ j \in Nat
            /\ \E k \in rest : Takes(segment, name, j - 1, k - 1)
<1>0. Len(name) \in Nat
  OBVIOUS
<1>1. CASE segment = <<"**">>
  <2>1. \A k \in rest : j \in Nat => (j - 1 <= k - 1 <=> j <= k)
    BY <1>0
  <2> QED BY <1>0, <1>1, <2>1 DEF MatchesFrom, Takes
<1>2. CASE segment # <<"**">>
  <2>1. j \in 1 .. Len(name) => (Glob(segment, name[j]) <=> StandsFor(segment, name[j]))
    BY GlobIsStandsFor
  <2>2. ASSUME j \in 1 .. Len(name), Glob(segment, name[j]), j + 1 \in rest
        PROVE \E k \in rest : Takes(segment, name, j - 1, k - 1)
    <3>1. (j + 1) - 1 = j /\ j = (j - 1) + 1
      BY <2>2
    <3>2. Takes(segment, name, j - 1, (j + 1) - 1)
      BY <1>2, <2>1, <2>2, <3>1 DEF Takes
    <3> QED BY <2>2, <3>2
  <2>3. ASSUME j - 1 \in 0 .. Len(name), j \in Nat, NEW k \in rest,
               Takes(segment, name, j - 1, k - 1)
        PROVE j \in 1 .. Len(name) /\ Glob(segment, name[j]) /\ j + 1 \in rest
    <3>1. k - 1 = (j - 1) + 1 /\ StandsFor(segment, name[k - 1])
      BY <1>2, <2>3 DEF Takes
    <3>2. k \in 1 .. Len(name) + 1 /\ k = j + 1 /\ k - 1 = j /\ j \in 1 .. Len(name)
      BY <1>0, <2>3, <3>1
    <3> QED BY <2>1, <2>3, <3>1, <3>2
  <2> QED BY <1>0, <1>2, <2>2, <2>3 DEF MatchesFrom
<1> QED BY <1>1, <1>2

\* What is computed for the segments after i is where their deals may begin.
BeginsDeals(m, p, name, i) ==
  /\ m[i + 1] \subseteq 1 .. Len(name) + 1
  /\ \A j : j \in m[i + 1] <=> \E u : Deals(u, p, name, i) /\ j = u[i] + 1

LEMMA DealsLonger ==
  ASSUME NEW T, NEW p \in Seq(Seq(T)), NEW name \in Seq(Seq(T)),
         NEW m, MatchTable(m, p, name, 1), NEW i \in 1 .. Len(p), BeginsDeals(m, p, name, i)
  PROVE BeginsDeals(m, p, name, i - 1)
<1>1. /\ Len(p) \in Nat /\ Len(name) \in Nat /\ i \in Nat /\ i - 1 \in Nat
      /\ i - 1 + 1 = i /\ i \in 1 .. Len(p) + 1 /\ ~(i > Len(p))
      /\ i \in i .. Len(p) /\ Len(p) \in i .. Len(p) /\ i - 1 \in i - 1 .. Len(p)
      /\ p[i] \in Seq(T)
  OBVIOUS
<1>2. \A h \in i .. Len(p) : h \in i - 1 .. Len(p) /\ h # i - 1
  BY <1>1
<1>3. \A h \in i - 1 .. Len(p) : h # i - 1 => h \in i .. Len(p)
  BY <1>1
<1>4. \A h \in i + 1 .. Len(p) : h \in i .. Len(p) /\ h - 1 \in i .. Len(p)
  BY <1>1
<1>5. /\ m[i + 1] \subseteq 1 .. Len(name) + 1
      /\ \A j : j \in m[i + 1] <=> \E u : Deals(u, p, name, i) /\ j = u[i] + 1
  BY DEF BeginsDeals
<1>6. m[i] = MatchesFrom(p[i], m[i + 1], name)
  BY <1>1 DEF MatchTable
<1>7. ASSUME NEW j
      PROVE j \in m[i] <=> /\ j - 1 \in 0 .. Len(name) /\ j \in Nat
                          /\ \E k \in m[i + 1] : Takes(p[i], name, j - 1, k - 1)
  <2> DEFINE rest == m[i + 1]
             segment == p[i]
  <2>1. rest \subseteq 1 .. Len(name) + 1 /\ segment \in Seq(T)
    BY <1>1, <1>5
  <2> HIDE DEF rest, segment
  <2>2. j \in MatchesFrom(segment, rest, name) <=>
          /\ j - 1 \in 0 .. Len(name) /\ j \in Nat
          /\ \E k \in rest : Takes(segment, name, j - 1, k - 1)
    BY <2>1, MatchesFromTakes
  <2> QED BY <1>6, <2>2 DEF rest, segment
<1>8. ASSUME NEW j, j \in m[i]
      PROVE \E u : Deals(u, p, name, i - 1) /\ j = u[i - 1] + 1
  <2>1. PICK k \in m[i + 1] : Takes(p[i], name, j - 1, k - 1)
    BY <1>7, <1>8
  <2>2. PICK u : Deals(u, p, name, i) /\ k = u[i] + 1
    BY <1>5
  <2> DEFINE v == [h \in i - 1 .. Len(p) |-> IF h = i - 1 THEN j - 1 ELSE u[h]]
  <2>3. j - 1 \in 0 .. Len(name) /\ j \in Nat
    BY <1>7, <1>8
  <2>4. \A h \in i .. Len(p) : v[h] = u[h]
    BY <1>2
  <2>5. \A h \in i .. Len(p) : u[h] \in 0 .. Len(name)
    BY <2>2 DEF Deals
  <2>6. v[i - 1] = j - 1
    BY <1>1
  <2>7. v \in [i - 1 .. Len(p) -> 0 .. Len(name)]
    BY <1>3, <2>3, <2>5
  <2> HIDE DEF v
  <2>8. v[Len(p)] = Len(name)
    BY <1>1, <2>2, <2>4 DEF Deals
  <2>9. u[i] = k - 1
    <3>1. u[i] \in 0 .. Len(name)
      BY <1>1, <2>5
    <3> QED BY <2>2, <3>1
  <2>10. ASSUME NEW h \in i .. Len(p)
         PROVE Takes(p[h], name, v[h - 1], v[h])
    <3>1. CASE h = i
      BY <1>1, <2>1, <2>4, <2>6, <2>9, <3>1
    <3>2. CASE h # i
      <4>1. h \in i + 1 .. Len(p)
        BY <1>1, <3>2
      <4>2. v[h] = u[h] /\ v[h - 1] = u[h - 1]
        BY <1>4, <2>4, <4>1
      <4> QED BY <2>2, <4>1, <4>2 DEF Deals
    <3> QED BY <3>1, <3>2
  <2>11. Deals(v, p, name, i - 1)
    BY <1>1, <2>7, <2>8, <2>10 DEF Deals
  <2>12. j = v[i - 1] + 1
    BY <2>3, <2>6
  <2> QED BY <2>11, <2>12
<1>9. ASSUME NEW u, Deals(u, p, name, i - 1)
      PROVE u[i - 1] + 1 \in m[i] /\ u[i - 1] \in 0 .. Len(name)
  <2> DEFINE v == [h \in i .. Len(p) |-> u[h]]
             j == u[i - 1] + 1
  <2>1. /\ \A h \in i - 1 .. Len(p) : u[h] \in 0 .. Len(name)
        /\ u[Len(p)] = Len(name)
        /\ \A h \in i .. Len(p) : Takes(p[h], name, u[h - 1], u[h])
    BY <1>1, <1>9 DEF Deals
  <2>2. \A h \in i .. Len(p) : v[h] = u[h] /\ u[h] \in 0 .. Len(name)
    BY <1>2, <2>1
  <2>3. v \in [i .. Len(p) -> 0 .. Len(name)]
    BY <2>2
  <2> HIDE DEF v
  <2>4. \A h \in i + 1 .. Len(p) : Takes(p[h], name, v[h - 1], v[h])
    BY <1>4, <2>1, <2>2
  <2>5. Deals(v, p, name, i)
    BY <1>1, <2>1, <2>2, <2>3, <2>4 DEF Deals
  <2>6. v[i] = u[i] /\ u[i] \in 0 .. Len(name) /\ u[i - 1] \in 0 .. Len(name)
    BY <1>1, <2>1, <2>2
  <2>7. u[i] + 1 \in m[i + 1]
    BY <1>5, <2>5, <2>6
  <2>8. j - 1 = u[i - 1] /\ (u[i] + 1) - 1 = u[i] /\ j \in Nat
    <3>1. u[i] \in Nat /\ u[i - 1] \in Nat
      BY <1>1, <2>6
    <3>2. ASSUME NEW x \in Nat PROVE (x + 1) - 1 = x /\ x + 1 \in Nat
      OBVIOUS
    <3> QED BY <3>1, <3>2
  <2>9. Takes(p[i], name, j - 1, (u[i] + 1) - 1)
    BY <1>1, <2>1, <2>8
  <2> HIDE DEF j
  <2>10. j \in m[i]
    BY <1>7, <2>6, <2>7, <2>8, <2>9
  <2> QED BY <2>6, <2>10 DEF j
<1>10. m[i] \subseteq 1 .. Len(name) + 1
  BY <1>1, <1>7
<1>11. \A j : j \in m[i] <=> \E u : Deals(u, p, name, i - 1) /\ j = u[i - 1] + 1
  BY <1>8, <1>9
<1> QED BY <1>1, <1>10, <1>11 DEF BeginsDeals

LEMMA MatchingDeals ==
  ASSUME NEW T, NEW p \in Seq(Seq(T)), NEW name \in Seq(Seq(T)),
         NEW m, MatchTable(m, p, name, 1)
  PROVE 1 \in m[1] <=> \E u : Deals(u, p, name, 0) /\ u[0] = 0
<1> DEFINE P == {d \in Nat : d <= Len(p) => BeginsDeals(m, p, name, Len(p) - d)}
<1>0. Len(p) \in Nat /\ Len(name) \in Nat
  OBVIOUS
<1>1. 0 \in P
  <2>1. Len(p) - 0 = Len(p) /\ Len(p) + 1 \in 1 .. Len(p) + 1 /\ Len(p) + 1 > Len(p)
    BY <1>0
  <2>2. m[Len(p) + 1] = {Len(name) + 1}
    BY <2>1 DEF MatchTable
  <2>3. Deals([h \in Len(p) .. Len(p) |-> Len(name)], p, name, Len(p))
    BY <1>0 DEF Deals
  <2>4. \A j : j \in m[Len(p) + 1] <=> \E u : Deals(u, p, name, Len(p)) /\ j = u[Len(p)] + 1
    <3>1. \A u : Deals(u, p, name, Len(p)) => u[Len(p)] = Len(name)
      BY DEF Deals
    <3>2. [h \in Len(p) .. Len(p) |-> Len(name)][Len(p)] = Len(name)
      BY <1>0
    <3> QED BY <2>2, <2>3, <3>1, <3>2
  <2>5. m[Len(p) + 1] \subseteq 1 .. Len(name) + 1
    BY <1>0, <2>2
  <2>6. BeginsDeals(m, p, name, Len(p) - 0)
    BY <2>1, <2>4, <2>5 DEF BeginsDeals
  <2> QED BY <2>6
<1>2. ASSUME NEW d \in Nat, d \in P PROVE d + 1 \in P
  <2>1. CASE d + 1 <= Len(p)
    <3> DEFINE i == Len(p) - d
    <3>1. i \in 1 .. Len(p) /\ Len(p) - (d + 1) = i - 1
      BY <1>0, <2>1
    <3>2. BeginsDeals(m, p, name, i)
      BY <1>0, <1>2, <2>1
    <3> HIDE DEF i
    <3>3. BeginsDeals(m, p, name, i - 1)
      BY <3>1, <3>2, DealsLonger
    <3>4. BeginsDeals(m, p, name, Len(p) - (d + 1))
      BY <3>1, <3>3
    <3> QED BY <3>4
  <2>2. CASE ~(d + 1 <= Len(p))
    BY <2>2
  <2> QED BY <2>1, <2>2
<1> HIDE DEF P
<1>3. Len(p) \in P
  BY <1>0, <1>1, <1>2, Induct
<1>4. Len(p) - Len(p) = 0 /\ 0 + 1 = 1
  BY <1>0
<1>5. \A j : j \in m[1] <=> \E u : Deals(u, p, name, 0) /\ j = u[0] + 1
  <2>1. BeginsDeals(m, p, name, 0)
    BY <1>0, <1>3, <1>4 DEF P
  <2> QED BY <1>4, <2>1 DEF BeginsDeals
<1>6. \A u : Deals(u, p, name, 0) => (1 = u[0] + 1 <=> u[0] = 0)
  <2>1. \A u : Deals(u, p, name, 0) => u[0] \in 0 .. Len(name)
    BY <1>0 DEF Deals
  <2> QED BY <1>0, <2>1
<1> QED BY <1>5, <1>6

\* A repository's name is accepted exactly when its segments can be dealt out to
\* the pattern's in order, any number to each "**" and one to each other, which
\* then stands for it (Match and matchSegments, internal/trustpolicy/match.go).
THEOREM MatchIsAllows ==
  ASSUME NEW T, NEW pattern \in Seq(Seq(T)), NEW name \in Seq(Seq(T))
  PROVE Match(pattern, name) <=> Allows(pattern, name)
<1>0. Len(pattern) \in Nat /\ Len(name) \in Nat /\ DOMAIN pattern = 1 .. Len(pattern)
  OBVIOUS
<1>1. PICK m : MatchTable(m, pattern, name, 1) /\ (Match(pattern, name) <=> 1 \in m[1])
  BY <1>0, MatchIsMatching
<1>2. 1 \in m[1] <=> \E u : Deals(u, pattern, name, 0) /\ u[0] = 0
  BY <1>1, MatchingDeals
<1>3. Allows(pattern, name) <=> \E u : Deals(u, pattern, name, 0) /\ u[0] = 0
  <2>1. 0 + 1 = 1
    OBVIOUS
  <2> QED BY <1>0, <2>1 DEF Allows, Deals, Takes
<1> QED BY <1>1, <1>2, <1>3
=============================================================================
