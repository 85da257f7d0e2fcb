------------------------------- MODULE Globs -------------------------------
(***************************************************************************)
(* The two wildcards of a trust policy: "*" inside a name, the same for    *)
(* repository segments (internal/trustpolicy/match.go) and for keyless     *)
(* signers (internal/keyless/cert.go), and "**" for whole segments.        *)
(* Text is a sequence of tokens, "*" among them.                           *)
(***************************************************************************)
EXTENDS Naturals, Sequences, SequencesExt, FiniteSetsExt

Has(text, token) == \E i \in DOMAIN text : text[i] = token

Places(text, token) == {i \in DOMAIN text : text[i] = token}

From(text, i) == SubSeq(text, i, Len(text))
Before(text, i) == SubSeq(text, 1, i - 1)

-----------------------------------------------------------------------------
\* Mutant: the tail of the pattern may lie anywhere in what is left.
EndsAnywhere(s, done, tail) ==
  \E at \in done + 1 .. Len(s) - Len(tail) + 1 :
    SubSeq(s, at, at + Len(tail) - 1) = tail

\* What is left of s after the first `done` tokens ends in tail.
EndsIn(s, done, tail) ==
  Len(s) - done >= Len(tail) /\ IsSuffix(tail, s)

\* Where the first run like this after the first `done` tokens of s ends, past
\* the end of s if there is none (strings.Index).
PastFirst(s, done, run) ==
  LET places == {at \in done + 1 .. Len(s) - Len(run) + 1 :
                   SubSeq(s, at, at + Len(run) - 1) = run}
  IN IF places = {} THEN Len(s) + 1 ELSE Min(places) + Len(run) - 1

\* matchSegment and globMatch: the text before the first star begins s, the
\* runs between stars are taken one after the other where each is found
\* first, and the text after the last star ends what is left.
Glob(pattern, s) ==
  LET stars == Places(pattern, "*")
      before(k) == Max({j \in stars : j < k})
      done[k \in stars] ==
        IF k = Min(stars)
        THEN IF IsPrefix(Before(pattern, k), s) THEN k - 1 ELSE Len(s) + 1
        ELSE PastFirst(s, done[before(k)], SubSeq(pattern, before(k) + 1, k - 1))
  IN IF stars = {} THEN pattern = s
     ELSE EndsIn(s, done[Max(stars)], From(pattern, Max(stars) + 1))

\* From which of its segments on a name is what is left of the pattern, when it
\* begins with this segment: "**" may swallow any number, and every split is
\* tried.
MatchesFrom(segment, rest, name) ==
  IF segment = <<"**">> THEN {j \in 1 .. Len(name) + 1 : \E k \in rest : j <= k}
  ELSE {j \in 1 .. Len(name) : Glob(segment, name[j]) /\ j + 1 \in rest}

\* matchSegments: the whole name, from its first segment on.
Match(pattern, name) ==
  LET matches[i \in 1 .. Len(pattern) + 1] ==
        IF i > Len(pattern) THEN {Len(name) + 1}
        ELSE MatchesFrom(pattern[i], matches[i + 1], name)
  IN 1 \in matches[1]

\* ValidatePattern: nothing empty, "**" alone in its segment, and few of them.
ValidPattern(pattern) ==
  /\ pattern # <<>>
  /\ \A i \in DOMAIN pattern :
       pattern[i] # <<>> /\ (Has(pattern[i], "**") => pattern[i] = <<"**">>)
  /\ Cardinality(Places(pattern, <<"**">>)) <= 4

-----------------------------------------------------------------------------
(* What the wildcards are meant to be.                                     *)

\* How much of s may be used up when one more token of a pattern is: "*"
\* stands for any run, wherever it may end.
Onward(was, token, s) ==
  IF token = "*" THEN {j \in 0 .. Len(s) : \E k \in was : k <= j}
  ELSE {j \in 1 .. Len(s) : j - 1 \in was /\ s[j] = token}

StandsFor(pattern, s) ==
  LET reach[i \in 0 .. Len(pattern)] ==
        IF i = 0 THEN {0} ELSE Onward(reach[i - 1], pattern[i], s)
  IN Len(s) \in reach[Len(pattern)]

\* A name is what a pattern allows when its segments can be dealt out to the
\* pattern's in order, any number to each "**" and one to each other.
Allows(pattern, name) ==
  \E upto \in [0 .. Len(pattern) -> 0 .. Len(name)] :
    /\ upto[0] = 0 /\ upto[Len(pattern)] = Len(name)
    /\ \A i \in DOMAIN pattern :
         IF pattern[i] = <<"**">> THEN upto[i - 1] <= upto[i]
         ELSE upto[i] = upto[i - 1] + 1 /\ StandsFor(pattern[i], name[upto[i]])
=============================================================================
