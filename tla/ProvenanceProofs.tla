-------------------------- MODULE ProvenanceProofs --------------------------
(***************************************************************************)
(* Theorems of what verification computes, for inputs of any size: how far *)
(* a signer's name with a wildcard reaches, what a bundle that is accepted *)
(* was signed as and that a genuine one is accepted, which entry an        *)
(* inclusion proof is of and that a log's own proof holds, and which       *)
(* manifest an attestation is of.                                          *)
(*                                                                         *)
(* Texts, proofs and records are sequences, whatever of; signatures and    *)
(* hashes are the terms the model makes of them, which nobody else can     *)
(* make and of which no two agree.                                         *)
(***************************************************************************)
EXTENDS MCProvenance, GlobsProofs, FiniteSetTheorems

-----------------------------------------------------------------------------
(* A text cut in two.                                                      *)

LEMMA BeforeIs ==
  ASSUME NEW T, NEW p \in Seq(T), NEW k \in 1 .. Len(p) + 1
  PROVE /\ Before(p, k) \in Seq(T) /\ Len(Before(p, k)) = k - 1
        /\ \A t \in 1 .. k - 1 : Before(p, k)[t] = p[t]
<1>1. /\ \A t \in 1 .. k - 1 : p[t] \in T /\ 1 + t - 1 = t
      /\ 1 \in Int /\ k - 1 \in Int /\ k - 1 - 1 + 1 = k - 1 /\ k - 1 \in Nat
  BY LenProperties, ElementOfSeq
<1> DEFINE b == k - 1
<1> HIDE DEF b
<1>2. \A t \in 1 .. b : p[t] \in T
  BY <1>1 DEF b
<1>3. /\ SubSeq(p, 1, b) \in Seq(T)
      /\ Len(SubSeq(p, 1, b)) = IF 1 <= b THEN b - 1 + 1 ELSE 0
      /\ \A t \in 1 .. b - 1 + 1 : SubSeq(p, 1, b)[t] = p[1 + t - 1]
  BY <1>1, <1>2, SubSeqProperties DEF b
<1>4. b \in Nat /\ b - 1 + 1 = b /\ (IF 1 <= b THEN b - 1 + 1 ELSE 0) = b
  BY <1>1 DEF b
<1> QED BY <1>1, <1>3, <1>4 DEF b, Before

LEMMA FromIs ==
  ASSUME NEW T, NEW p \in Seq(T), NEW k \in 1 .. Len(p)
  PROVE /\ From(p, k + 1) \in Seq(T) /\ Len(From(p, k + 1)) = Len(p) - k
        /\ \A t \in 1 .. Len(p) - k : From(p, k + 1)[t] = p[k + t]
<1>1. /\ \A t \in k + 1 .. Len(p) : p[t] \in T
      /\ k + 1 \in Int /\ Len(p) \in Int /\ Len(p) \in Nat
  BY LenProperties, ElementOfSeq
<1>2. /\ From(p, k + 1) \in Seq(T)
      /\ Len(From(p, k + 1)) = IF k + 1 <= Len(p) THEN Len(p) - (k + 1) + 1 ELSE 0
      /\ \A t \in 1 .. Len(p) - (k + 1) + 1 : From(p, k + 1)[t] = p[k + 1 + t - 1]
  BY <1>1, SubSeqProperties DEF From
<1>3. ASSUME NEW n \in Nat, NEW h \in 1 .. n
      PROVE /\ (IF h + 1 <= n THEN n - (h + 1) + 1 ELSE 0) = n - h
            /\ n - (h + 1) + 1 = n - h
            /\ \A t \in 1 .. n - h : h + 1 + t - 1 = h + t
  OBVIOUS
<1> QED BY <1>1, <1>2, <1>3

LEMMA FirstOfIs ==
  ASSUME NEW T, NEW p \in Seq(T), NEW token, Has(p, token)
  PROVE /\ FirstOf(p, token) \in 1 .. Len(p) /\ p[FirstOf(p, token)] = token
        /\ \A t \in 1 .. FirstOf(p, token) - 1 : p[t] # token
<1>1. Places(p, token) \subseteq 1 .. Len(p) /\ Len(p) \in Nat /\ Places(p, token) # {}
  BY DEF Places, Has
<1>2. Places(p, token) \in SUBSET Nat
  BY <1>1
<1>3. FirstOf(p, token) \in Places(p, token) /\ \A t \in Places(p, token) : FirstOf(p, token) <= t
  BY <1>1, <1>2, MinIsLeast DEF FirstOf
<1>4. FirstOf(p, token) \in 1 .. Len(p) /\ p[FirstOf(p, token)] = token
  BY <1>1, <1>3 DEF Places
<1>5. \A t \in 1 .. FirstOf(p, token) - 1 : t \in DOMAIN p /\ ~(FirstOf(p, token) <= t)
  BY <1>1, <1>4
<1> QED BY <1>3, <1>4, <1>5 DEF Places

LEMMA LastOfIs ==
  ASSUME NEW T, NEW p \in Seq(T), NEW token, Has(p, token)
  PROVE /\ LastOf(p, token) \in 1 .. Len(p) /\ p[LastOf(p, token)] = token
        /\ \A t \in LastOf(p, token) + 1 .. Len(p) : p[t] # token
<1>1. Places(p, token) \subseteq 1 .. Len(p) /\ Len(p) \in Nat /\ Places(p, token) # {}
  BY DEF Places, Has
<1>2. Places(p, token) \subseteq 0 .. Len(p)
  BY <1>1
<1>3. LastOf(p, token) \in Places(p, token) /\ \A t \in Places(p, token) : t <= LastOf(p, token)
  BY <1>1, <1>2, MaxIsGreatest DEF LastOf
<1>4. LastOf(p, token) \in 1 .. Len(p) /\ p[LastOf(p, token)] = token
  BY <1>1, <1>3 DEF Places
<1>5. \A t \in LastOf(p, token) + 1 .. Len(p) : t \in DOMAIN p /\ ~(t <= LastOf(p, token))
  BY <1>1, <1>4
<1> QED BY <1>3, <1>4, <1>5 DEF Places

\* The one place with this property.
LEMMA FirstIsAt ==
  ASSUME NEW T, NEW p \in Seq(T), NEW token, NEW a \in 1 .. Len(p), p[a] = token,
         \A t \in 1 .. a - 1 : p[t] # token
  PROVE Has(p, token) /\ FirstOf(p, token) = a
<1>1. a \in DOMAIN p /\ Len(p) \in Nat
  OBVIOUS
<1>2. Has(p, token)
  BY <1>1 DEF Has
<1>3. /\ FirstOf(p, token) \in 1 .. Len(p) /\ p[FirstOf(p, token)] = token
      /\ \A t \in 1 .. FirstOf(p, token) - 1 : p[t] # token
  BY <1>2, FirstOfIs
<1>4. FirstOf(p, token) \notin 1 .. a - 1 /\ a \notin 1 .. FirstOf(p, token) - 1
  BY <1>3
<1> QED BY <1>1, <1>2, <1>3, <1>4

LEMMA LastIsAt ==
  ASSUME NEW T, NEW p \in Seq(T), NEW token, NEW a \in 1 .. Len(p), p[a] = token,
         \A t \in a + 1 .. Len(p) : p[t] # token
  PROVE Has(p, token) /\ LastOf(p, token) = a
<1>1. a \in DOMAIN p /\ Len(p) \in Nat
  OBVIOUS
<1>2. Has(p, token)
  BY <1>1 DEF Has
<1>3. /\ LastOf(p, token) \in 1 .. Len(p) /\ p[LastOf(p, token)] = token
      /\ \A t \in LastOf(p, token) + 1 .. Len(p) : p[t] # token
  BY <1>2, LastOfIs
<1>4. LastOf(p, token) \notin a + 1 .. Len(p) /\ a \notin LastOf(p, token) + 1 .. Len(p)
  BY <1>3
<1> QED BY <1>1, <1>2, <1>3, <1>4

-----------------------------------------------------------------------------
\* Up to a star they are alike.
AlikeTo(p, s, k) ==
  /\ k \in 1 .. Len(p) /\ p[k] = "*" /\ k - 1 <= Len(s)
  /\ \A t \in 1 .. k - 1 : s[t] = p[t]

\* Cut at a token with no star before it, the heads are the same and the rests
\* alike.
LEMMA CutAlike ==
  ASSUME NEW T, NEW p \in Seq(T), NEW s \in Seq(T), NEW k, AlikeTo(p, s, k),
         NEW token, token # "*", ~Has(Head1(p, token), "*")
  PROVE /\ Head1(s, token) = Head1(p, token)
        /\ Rest1(p, token) \in Seq(T) /\ Rest1(s, token) \in Seq(T)
        /\ \E h : AlikeTo(Rest1(p, token), Rest1(s, token), h)
<1> DEFINE a == FirstOf(p, token)
<1>1. /\ k \in 1 .. Len(p) /\ p[k] = "*" /\ k - 1 <= Len(s)
      /\ \A t \in 1 .. k - 1 : s[t] = p[t]
      /\ Len(p) \in Nat /\ Len(s) \in Nat /\ DOMAIN p = 1 .. Len(p)
  BY DEF AlikeTo
<1>2. Has(p, token)
  BY <1>1 DEF Has, Head1
<1>3. a \in 1 .. Len(p) /\ p[a] = token /\ \A t \in 1 .. a - 1 : p[t] # token
  BY <1>2, FirstOfIs
<1>4. Head1(p, token) = Before(p, a) /\ Rest1(p, token) = From(p, a + 1)
  BY <1>2 DEF Head1, Rest1
<1> HIDE DEF a
<1>5. /\ Before(p, a) \in Seq(T) /\ Len(Before(p, a)) = a - 1
      /\ \A t \in 1 .. a - 1 : Before(p, a)[t] = p[t]
  <2>1. a \in 1 .. Len(p) + 1
    BY <1>1, <1>3
  <2> QED BY <2>1, BeforeIs
<1>6. a < k
  <2>1. k \notin 1 .. a - 1
    <3>1. DOMAIN Before(p, a) = 1 .. a - 1
      BY <1>5
    <3> QED BY <1>1, <1>4, <1>5, <3>1 DEF Has
  <2>2. k # a
    BY <1>1, <1>3
  <2> QED BY <1>1, <1>3, <2>1, <2>2
<1>7. a \in 1 .. Len(s) /\ a \in 1 .. k - 1 /\ \A t \in 1 .. a - 1 : t \in 1 .. k - 1
  BY <1>1, <1>3, <1>6
<1>8. Has(s, token) /\ FirstOf(s, token) = a
  <2>1. s[a] = token /\ \A t \in 1 .. a - 1 : s[t] # token
    BY <1>1, <1>3, <1>7
  <2> QED BY <1>7, <2>1, FirstIsAt
<1>9. Head1(s, token) = Before(s, a) /\ Rest1(s, token) = From(s, a + 1)
  BY <1>8 DEF Head1, Rest1
<1>10. Before(s, a) = Before(p, a)
  <2>1. a \in 1 .. Len(s) + 1
    BY <1>1, <1>7
  <2>2. /\ Before(s, a) \in Seq(T) /\ Len(Before(s, a)) = a - 1
        /\ \A t \in 1 .. a - 1 : Before(s, a)[t] = s[t]
    BY <2>1, BeforeIs
  <2>3. \A t \in 1 .. a - 1 : Before(s, a)[t] = Before(p, a)[t]
    BY <1>1, <1>5, <1>7, <2>2
  <2> QED BY <1>5, <2>2, <2>3, SameSeq
<1>11. /\ From(p, a + 1) \in Seq(T) /\ Len(From(p, a + 1)) = Len(p) - a
       /\ \A t \in 1 .. Len(p) - a : From(p, a + 1)[t] = p[a + t]
  BY <1>3, FromIs
<1>12. /\ From(s, a + 1) \in Seq(T) /\ Len(From(s, a + 1)) = Len(s) - a
       /\ \A t \in 1 .. Len(s) - a : From(s, a + 1)[t] = s[a + t]
  BY <1>7, FromIs
<1>13. AlikeTo(From(p, a + 1), From(s, a + 1), k - a)
  <2>1. k - a \in 1 .. Len(p) - a /\ k - a - 1 <= Len(s) - a /\ a + (k - a) = k
    BY <1>1, <1>3, <1>6
  <2>2. \A t \in 1 .. k - a - 1 :
          a + t \in 1 .. k - 1 /\ t \in 1 .. Len(p) - a /\ t \in 1 .. Len(s) - a
    BY <1>1, <1>3, <1>6
  <2>3. From(p, a + 1)[k - a] = "*"
    BY <1>1, <1>11, <2>1
  <2>4. \A t \in 1 .. k - a - 1 : From(s, a + 1)[t] = From(p, a + 1)[t]
    BY <1>1, <1>11, <1>12, <2>2
  <2> QED BY <1>11, <1>12, <2>1, <2>3, <2>4 DEF AlikeTo
<1> QED BY <1>4, <1>9, <1>10, <1>11, <1>12, <1>13

-----------------------------------------------------------------------------
(* How far a name with a wildcard reaches.                                 *)

\* The parts of a URL, each up to the next separator.
Scheme(text) == Head1(text, "://")
Host(text) == Head1(Rest1(text, "://"), "/")
Account(text) == Head1(Rest1(Rest1(text, "://"), "/"), "/")

\* Whoever is let in by a URL with a wildcard stands at its scheme, its host and
\* its account, none of which is empty: a star never reaches past the account
\* (classifySubject and pinsAnAccount, internal/keyless/cert.go).
THEOREM URLPatternKeepsAccount ==
  ASSUME NEW T, NEW pattern \in Seq(T), NEW text \in Seq(T),
         ClassifySubject(pattern) = "url", Glob(pattern, text)
  PROVE /\ Scheme(text) = Scheme(pattern)
        /\ Host(text) = Host(pattern) /\ Host(text) # <<>>
        /\ Account(text) = Account(pattern) /\ Account(text) # <<>>
<1> DEFINE rest == Rest1(pattern, "://")
           rest2 == Rest1(text, "://")
<1>1. Has(pattern, "*") /\ PinsAURL(pattern)
  BY DEF ClassifySubject
<1>2. /\ ~Has(Head1(pattern, "://"), "*")
      /\ Head1(rest, "/") # <<>> /\ ~Has(Head1(rest, "/"), "*")
      /\ Head1(Rest1(rest, "/"), "/") # <<>> /\ ~Has(Head1(Rest1(rest, "/"), "/"), "*")
  BY <1>1 DEF PinsAURL, PinsAnAccount
<1>3. \E k : AlikeTo(pattern, text, k)
  <2>1. Stars(pattern) # {}
    BY <1>1 DEF Has, Stars, Places
  <2> DEFINE k == Min(Stars(pattern))
  <2>2. k \in Stars(pattern) /\ k - 1 <= Len(text) /\ \A t \in 1 .. k - 1 : text[t] = pattern[t]
    BY <2>1, GlobBegins
  <2> HIDE DEF k
  <2>3. AlikeTo(pattern, text, k)
    BY <2>2 DEF AlikeTo, Stars, Places
  <2> QED BY <2>3
<1>4. /\ Head1(text, "://") = Head1(pattern, "://")
      /\ rest \in Seq(T) /\ rest2 \in Seq(T) /\ \E k : AlikeTo(rest, rest2, k)
  <2>1. "://" # "*"
    OBVIOUS
  <2> QED BY <1>2, <1>3, <2>1, CutAlike
<1> HIDE DEF rest, rest2
<1>5. "/" # "*"
  OBVIOUS
<1>6. /\ Head1(rest2, "/") = Head1(rest, "/")
      /\ Rest1(rest, "/") \in Seq(T) /\ Rest1(rest2, "/") \in Seq(T)
      /\ \E k : AlikeTo(Rest1(rest, "/"), Rest1(rest2, "/"), k)
  BY <1>2, <1>4, <1>5, CutAlike
<1>7. Head1(Rest1(rest2, "/"), "/") = Head1(Rest1(rest, "/"), "/")
  BY <1>2, <1>5, <1>6, CutAlike
<1> QED BY <1>2, <1>4, <1>6, <1>7 DEF Scheme, Host, Account, rest, rest2

\* What follows the last "@".
Domain(text) == From(text, LastOf(text, "@") + 1)

\* Whoever is let in by an address with a wildcard has the pattern's own domain,
\* or one that ends in what the pattern has behind its last star, and that starts
\* at a dot and has another: never a domain of somebody else's (pinsAMailDomain
\* and classifySubject, internal/keyless/cert.go).
THEOREM MailPatternKeepsDomain ==
  ASSUME NEW T, NEW pattern \in Seq(T), NEW text \in Seq(T),
         ClassifySubject(pattern) = "mail", Glob(pattern, text)
  PROVE /\ Has(text, "@")
        /\ IF Has(Domain(pattern), "*")
           THEN LET tail == From(Domain(pattern), LastOf(Domain(pattern), "*") + 1)
                IN /\ Len(tail) >= 2 /\ tail[1] = "." /\ Has(Tail(tail), ".")
                   /\ IsSuffix(tail, Domain(text))
           ELSE Domain(text) = Domain(pattern)
<1> DEFINE p == pattern
           sign == LastOf(p, "@")
           k == Max(Stars(p))
           d == Len(p) - k
<1>1. Has(p, "*") /\ Has(p, "@") /\ PinsAMailDomain(Domain(p))
  BY DEF ClassifySubject, PinsAnAddress, Domain
<1>2. Stars(p) # {}
  BY <1>1 DEF Has, Stars, Places
<1>3. /\ k \in Stars(p) /\ \A i \in Stars(p) : i <= k
      /\ d \in 0 .. Len(text)
      /\ \A t \in 1 .. d : text[Len(text) - d + t] = p[k + t]
      /\ \A i \in 1 .. k - 1 : p[i] # "*" => \E j \in 1 .. Len(text) - d : text[j] = p[i]
  BY <1>2, GlobEnds
<1>4. sign \in 1 .. Len(p) /\ p[sign] = "@" /\ \A t \in sign + 1 .. Len(p) : p[t] # "@"
  BY <1>1, LastOfIs
<1> HIDE DEF p, sign, k
<1>5. p \in Seq(T) /\ Len(p) \in Nat /\ Len(text) \in Nat /\ DOMAIN p = 1 .. Len(p)
  BY DEF p
<1>6. k \in 1 .. Len(p) /\ p[k] = "*"
  BY <1>3, <1>5 DEF Stars, Places
<1>7. /\ Domain(p) \in Seq(T) /\ Len(Domain(p)) = Len(p) - sign
      /\ \A t \in 1 .. Len(p) - sign : Domain(p)[t] = p[sign + t]
  BY <1>4, <1>5, FromIs DEF Domain, sign
<1>8. "@" # "*"
  OBVIOUS
<1>9. CASE k < sign
  <2>1. d - (sign - k) = Len(p) - sign /\ sign - k \in 1 .. d /\ k + (sign - k) = sign
    <3>1. ASSUME NEW n \in Nat, NEW x \in 1 .. n, NEW y \in 1 .. n, x < y
          PROVE n - x - (y - x) = n - y /\ y - x \in 1 .. n - x /\ x + (y - x) = y
      BY <3>1
    <3> QED BY <1>4, <1>5, <1>6, <1>9, <3>1
  <2> DEFINE q == Len(text) - d + (sign - k)
  <2>2. q \in 1 .. Len(text) /\ text[q] = "@" /\ Len(text) - q = Len(p) - sign
    BY <1>3, <1>4, <1>5, <2>1
  <2>3. ASSUME NEW t \in 1 .. Len(p) - sign
        PROVE text[q + t] = p[sign + t]
    <3>1. (sign - k) + t \in 1 .. d /\ k + ((sign - k) + t) = sign + t
          /\ Len(text) - d + ((sign - k) + t) = q + t
      BY <1>3, <1>4, <1>5, <1>6, <1>9, <2>1
    <3> QED BY <1>3, <3>1
  <2> HIDE DEF q
  <2>4. ASSUME NEW t \in q + 1 .. Len(text) PROVE text[t] # "@"
    <3>1. t - q \in 1 .. Len(p) - sign /\ q + (t - q) = t /\ sign + (t - q) \in sign + 1 .. Len(p)
      BY <1>4, <1>5, <2>2
    <3> QED BY <1>4, <2>3, <3>1
  <2>5. Has(text, "@") /\ LastOf(text, "@") = q
    BY <2>2, <2>4, LastIsAt
  <2>6. /\ Domain(text) \in Seq(T) /\ Len(Domain(text)) = Len(text) - q
        /\ \A t \in 1 .. Len(text) - q : Domain(text)[t] = text[q + t]
    BY <2>2, <2>5, FromIs DEF Domain
  <2>7. Domain(text) = Domain(p)
    <3>1. Len(Domain(text)) = Len(Domain(p))
      BY <1>7, <2>2, <2>6
    <3>2. \A t \in 1 .. Len(Domain(text)) : Domain(text)[t] = Domain(p)[t]
      BY <1>7, <2>2, <2>3, <2>6
    <3> QED BY <1>7, <2>6, <3>1, <3>2, SameSeq
  <2>8. ~Has(Domain(p), "*")
    <3>1. ASSUME NEW t \in DOMAIN Domain(p) PROVE Domain(p)[t] # "*"
      <4>1. t \in 1 .. Len(p) - sign
        BY <1>7
      <4>2. sign + t \in DOMAIN p /\ ~(sign + t <= k)
        BY <1>4, <1>5, <1>6, <1>9, <4>1
      <4>3. p[sign + t] # "*"
        BY <1>3, <4>2 DEF Stars, Places
      <4> QED BY <1>7, <4>1, <4>3
    <3> QED BY <3>1 DEF Has
  <2> QED BY <2>5, <2>7, <2>8 DEF p
<1>10. CASE sign < k
  <2>1. sign \in 1 .. k - 1
    BY <1>4, <1>6, <1>10
  <2>2. PICK j \in 1 .. Len(text) - d : text[j] = "@"
    BY <1>3, <1>4, <1>8, <2>1
  <2>3. d \in Nat /\ d <= Len(text) /\ Len(text) - d \in 1 .. Len(text)
    BY <1>3, <1>5, <2>2
  <2>4. ASSUME NEW t \in Len(text) - d + 1 .. Len(text) PROVE text[t] # "@"
    <3> DEFINE h == t - (Len(text) - d)
    <3>1. h \in 1 .. d /\ Len(text) - d + h = t /\ k + h \in sign + 1 .. Len(p)
      BY <1>4, <1>5, <1>6, <1>10, <2>3
    <3> HIDE DEF h
    <3> QED BY <1>3, <1>4, <3>1
  <2>5. Has(text, "@")
    <3>1. j \in DOMAIN text
      BY <1>5, <2>2, <2>3
    <3> QED BY <2>2, <3>1 DEF Has
  <2> DEFINE q == LastOf(text, "@")
  <2>6. q \in 1 .. Len(text) /\ text[q] = "@" /\ \A t \in q + 1 .. Len(text) : text[t] # "@"
    BY <2>5, LastOfIs
  <2>7. /\ Domain(text) \in Seq(T) /\ Len(Domain(text)) = Len(text) - q
        /\ \A t \in 1 .. Len(text) - q : Domain(text)[t] = text[q + t]
    BY <2>6, FromIs DEF Domain
  <2> HIDE DEF q
  <2>8. q <= Len(text) - d
    BY <1>5, <2>3, <2>4, <2>6
  <2> DEFINE star == k - sign
             tail == From(Domain(p), star + 1)
  <2>9. star \in 1 .. Len(Domain(p)) /\ sign + star = k /\ Len(Domain(p)) - star = d
        /\ star \in 1 .. Len(p) - sign
    BY <1>4, <1>5, <1>6, <1>7, <1>10
  <2>10. Domain(p)[star] = "*"
    BY <1>6, <1>7, <2>9
  <2>11. \A t \in star + 1 .. Len(Domain(p)) : Domain(p)[t] # "*"
    <3> TAKE t \in star + 1 .. Len(Domain(p))
    <3>1. t \in 1 .. Len(p) - sign /\ sign + t \in DOMAIN p /\ ~(sign + t <= k)
      BY <1>4, <1>5, <1>7, <2>9
    <3>2. p[sign + t] # "*"
      BY <1>3, <3>1 DEF Stars, Places
    <3> QED BY <1>7, <3>1, <3>2
  <2> HIDE DEF star
  <2>12. Has(Domain(p), "*") /\ LastOf(Domain(p), "*") = star
    BY <1>7, <2>9, <2>10, <2>11, LastIsAt
  <2>13. Len(tail) >= 2 /\ tail[1] = "." /\ Has(Tail(tail), ".")
    BY <1>1, <2>12 DEF PinsAMailDomain
  <2>14. IsSuffix(tail, Domain(text))
    <3> DEFINE u == Domain(p)
               v == Domain(text)
    <3>1. u \in Seq(T) /\ v \in Seq(T) /\ star \in 0 .. Len(u) /\ Len(u) - star <= Len(v)
          /\ Len(u) - star = d
      BY <1>5, <1>7, <2>3, <2>6, <2>7, <2>8, <2>9
    <3>2. ASSUME NEW t \in 1 .. d
          PROVE v[Len(v) - d + t] = u[star + t]
      <4>1. Len(v) - d + t \in 1 .. Len(text) - q /\ q + (Len(v) - d + t) = Len(text) - d + t
        BY <1>5, <2>3, <2>6, <2>7, <2>8
      <4>2. star + t \in 1 .. Len(p) - sign /\ sign + (star + t) = k + t
          <5>1. star + t \in 1 .. Len(u)
          BY <2>9, <3>1
        <5>2. ASSUME NEW x \in Nat, NEW y \in Nat, NEW z \in Nat
              PROVE x + (y + z) = (x + y) + z
          OBVIOUS
        <5>3. sign \in Nat /\ star \in Nat /\ t \in Nat
          BY <1>4, <2>9, <3>1
        <5> QED BY <1>7, <2>9, <5>1, <5>2, <5>3
      <4> HIDE DEF u, v, d
      <4>3. v[Len(v) - d + t] = text[Len(text) - d + t]
        BY <2>7, <4>1 DEF v
      <4>4. u[star + t] = p[k + t]
        BY <1>7, <4>2 DEF u
      <4> QED BY <1>3, <4>3, <4>4
    <3> HIDE DEF u, v, d
    <3>3. Runs(u, v, star, Len(u) - star, Len(v))
      BY <3>1, <3>2 DEF Runs
    <3>4. IsSuffix(From(u, star + 1), v)
      BY <3>1, <3>3, SuffixIs
    <3> QED BY <3>4 DEF u, v
  <2> QED BY <2>5, <2>12, <2>13, <2>14 DEF p
<1>11. k # sign
  BY <1>4, <1>6, <1>8
<1> QED BY <1>4, <1>5, <1>6, <1>9, <1>10, <1>11

-----------------------------------------------------------------------------
(* What was accepted.                                                      *)

\* A bundle whose first entry's promise the log made, over signings whose
\* certificates an authority issued, is accepted only if it is piece for piece
\* one of those signings, over this artifact, by somebody who is allowed, dated
\* while the certificate was valid: genuine pieces never add up to a signing
\* nobody made, whatever else is in the bundle (Verify,
\* internal/keyless/verify.go, with tlog.go and cert.go).
THEOREM AcceptedIsASigning ==
  ASSUME NEW T, NEW bundle, NEW signings, NEW artifact, NEW root, NEW allowed,
         \E i \in DOMAIN signings : bundle.entries[1].promise = Promise(signings, i),
         \A i \in DOMAIN signings :
           \E signer, from, to :
             signings[i].cert = Certify(signer, from, to) /\ signer.name.text \in Seq(T),
         \A id \in allowed : id.subject \in Seq(T),
         VerifyBundle(bundle, artifact, root, allowed)
  PROVE RecordsASigning(bundle, signings, artifact, root, allowed)
<1> DEFINE entry == bundle.entries[1]
           cert == bundle.certs[1]
<1>1. /\ LogEntryHolds(entry, root, bundle.sigs[1], bundle.payload, cert)
      /\ ChainHolds(cert, root, entry.time)
      /\ AnyMatches(allowed, cert)
      /\ artifact \in bundle.payload.subjects
  BY DEF VerifyBundle, Leaf, StatementCovers
<1>2. PICK i \in DOMAIN signings : entry.promise = Promise(signings, i)
  OBVIOUS
<1> DEFINE s == signings[i]
<1>3. PICK log \in root.logs : TimestampHolds(entry, log.key)
  BY <1>1 DEF LogEntryHolds
<1>4. /\ entry.body = BodyOf(s) /\ entry.time = s.at
  BY <1>2, <1>3 DEF TimestampHolds, Promise, Signature
<1>5. BodyDescribes(entry.body, bundle.sigs[1], bundle.payload, cert)
  BY <1>1 DEF LogEntryHolds
<1>6. bundle.payload = s.payload /\ cert = s.cert
  BY <1>4, <1>5 DEF BodyDescribes, BodyOf
<1>7. PICK signer, from, to :
        s.cert = Certify(signer, from, to) /\ signer.name.text \in Seq(T)
  OBVIOUS
<1> HIDE DEF s, entry, cert
<1>8. /\ s.cert.issuerV1 = None /\ s.cert.names = {signer.name}
  BY <1>7 DEF Certify
<1>9. IssuerOf(cert) = s.cert.issuerV2
  BY <1>1, <1>6, <1>8 DEF AnyMatches, IssuerOf
<1>10. PICK id \in allowed : Matches(id, signer.name.text, s.cert.issuerV2, signer.name.kind)
  BY <1>1, <1>6, <1>8, <1>9 DEF AnyMatches
<1>11. StandsFor(id.subject, signer.name.text) /\ id.issuer = s.cert.issuerV2
  BY <1>7, <1>10, GlobIsStandsFor DEF Matches
<1>12. \E a \in root.authorities : Has(a.chain, s.cert.issuedBy) /\ Covers(a.valid, s.at)
  BY <1>1, <1>4, <1>6 DEF ChainHolds
<1>13. s.cert.from <= s.at /\ s.at <= s.cert.to
  BY <1>1, <1>4, <1>6 DEF ChainHolds
<1> QED
  BY <1>1, <1>4, <1>6, <1>8, <1>11, <1>12, <1>13 DEF RecordsASigning, s, entry, cert

-----------------------------------------------------------------------------
(* The walk up the tree.                                                   *)

\* A walk of n levels, in which the hashes of some stand to the right.
Climb(k, below, hashes, rights) ==
  IF k \in rights THEN HashChildren(below, hashes[k]) ELSE HashChildren(hashes[k], below)

\* Every level of a walk from a leaf: the hash reached there.
Walks(up, leaf, hashes, rights, n) ==
  up = [k \in 0 .. n |-> IF k = 0 THEN leaf ELSE Climb(k, up[k - 1], hashes, rights)]

LEMMA WalkExists ==
  ASSUME NEW N \in Nat, NEW leaf, NEW hashes, NEW rights
  PROVE \E up : Walks(up, leaf, hashes, rights, N)
<1> DEFINE P == {n \in Nat : \E up : Walks(up, leaf, hashes, rights, n)}
<1>1. 0 \in P
  <2>1. Walks([k \in 0 .. 0 |-> leaf], leaf, hashes, rights, 0)
    BY DEF Walks
  <2> QED BY <2>1
<1>2. ASSUME NEW n \in Nat, n \in P PROVE n + 1 \in P
  <2>1. PICK up : Walks(up, leaf, hashes, rights, n)
    BY <1>2
  <2> DEFINE next == [k \in 0 .. n + 1 |->
                        IF k <= n THEN up[k] ELSE Climb(k, up[k - 1], hashes, rights)]
  <2>2. ASSUME NEW k \in 0 .. n + 1
        PROVE next[k] = IF k = 0 THEN leaf ELSE Climb(k, next[k - 1], hashes, rights)
    <3>1. CASE k = 0
      BY <2>1, <3>1 DEF Walks
    <3>2. CASE k # 0
      <4>1. k - 1 \in 0 .. n /\ next[k - 1] = up[k - 1]
        BY <3>2
      <4>2. CASE k <= n
        <5>1. k \in 0 .. n /\ next[k] = up[k]
          BY <4>2
        <5>2. up[k] = Climb(k, up[k - 1], hashes, rights)
          BY <2>1, <3>2, <5>1 DEF Walks
        <5> QED BY <3>2, <4>1, <5>1, <5>2
      <4>3. CASE ~(k <= n)
        BY <3>2, <4>1, <4>3
      <4> QED BY <4>2, <4>3
    <3> QED BY <3>1, <3>2
  <2>3. next = [k \in 0 .. n + 1 |-> next[k]]
    OBVIOUS
  <2> HIDE DEF next
  <2>4. Walks(next, leaf, hashes, rights, n + 1)
    BY <2>2, <2>3 DEF Walks
  <2> QED BY <2>4
<1> HIDE DEF P
<1>3. N \in P
  BY <1>1, <1>2, Induct
<1> QED BY <1>3 DEF P

\* Where the entry's own side is the left one.
Rights(index, inner) == {k \in Nat : k <= inner /\ Bit(index, k - 1) = 0}

LEMMA RootIsAWalk ==
  ASSUME NEW hashes, Len(hashes) \in Nat, NEW index, NEW size, NEW leaf
  PROVE \E up : /\ Walks(up, leaf, hashes, Rights(index, Inner(index, size)), Len(hashes))
                /\ RootFromInclusionProof(index, size, leaf, hashes) = up[Len(hashes)]
<1> DEFINE inner == Inner(index, size)
           up[k \in 0 .. Len(hashes)] ==
             IF k = 0 THEN leaf
             ELSE IF k <= inner /\ Bit(index, k - 1) = 0
                  THEN HashChildren(up[k - 1], hashes[k])
                  ELSE HashChildren(hashes[k], up[k - 1])
<1>1. PICK g : Walks(g, leaf, hashes, Rights(index, inner), Len(hashes))
  BY WalkExists
<1>2. g = [k \in 0 .. Len(hashes) |->
             IF k = 0 THEN leaf
             ELSE IF k <= inner /\ Bit(index, k - 1) = 0
                  THEN HashChildren(g[k - 1], hashes[k])
                  ELSE HashChildren(hashes[k], g[k - 1])]
  BY <1>1 DEF Walks, Climb, Rights
<1>3. up = [k \in 0 .. Len(hashes) |->
              IF k = 0 THEN leaf
              ELSE IF k <= inner /\ Bit(index, k - 1) = 0
                   THEN HashChildren(up[k - 1], hashes[k])
                   ELSE HashChildren(hashes[k], up[k - 1])]
  BY <1>2
<1>4. RootFromInclusionProof(index, size, leaf, hashes) = up[Len(hashes)]
  BY DEF RootFromInclusionProof
<1> HIDE DEF up
<1>5. Walks(up, leaf, hashes, Rights(index, inner), Len(hashes))
  BY <1>3 DEF Walks, Climb, Rights
<1> QED BY <1>4, <1>5

SameUpTo(n, hashes1, hashes2) == \A k \in 1 .. n : hashes1[k] = hashes2[k]

\* Two walks that turn the same way and meet at the top never differed.
LEMMA WalkHasOneStart ==
  ASSUME NEW n \in Nat, NEW rights, NEW leaf1, NEW leaf2, NEW hashes1, NEW hashes2,
         NEW up1, Walks(up1, leaf1, hashes1, rights, n),
         NEW up2, Walks(up2, leaf2, hashes2, rights, n), up1[n] = up2[n]
  PROVE leaf1 = leaf2 /\ SameUpTo(n, hashes1, hashes2)
<1>1. /\ up1[0] = leaf1 /\ \A k \in 1 .. n : up1[k] = Climb(k, up1[k - 1], hashes1, rights)
      /\ up2[0] = leaf2 /\ \A k \in 1 .. n : up2[k] = Climb(k, up2[k - 1], hashes2, rights)
  BY DEF Walks
<1>2. ASSUME NEW k \in 1 .. n, up1[k] = up2[k]
      PROVE up1[k - 1] = up2[k - 1] /\ hashes1[k] = hashes2[k]
  <2>1. Climb(k, up1[k - 1], hashes1, rights) = Climb(k, up2[k - 1], hashes2, rights)
    BY <1>1, <1>2
  <2> QED BY <2>1 DEF Climb, HashChildren
<1> DEFINE P == {d \in Nat : d <= n => up1[n - d] = up2[n - d]}
<1>3. 0 \in P
  <2>1. n - 0 = n
    OBVIOUS
  <2> QED BY <2>1
<1>4. ASSUME NEW d \in Nat, d \in P PROVE d + 1 \in P
  <2>1. CASE d + 1 <= n
    <3>1. n - d \in 1 .. n /\ n - d - 1 = n - (d + 1) /\ up1[n - d] = up2[n - d]
      BY <1>4, <2>1
    <3> QED BY <1>2, <3>1
  <2>2. CASE ~(d + 1 <= n)
    BY <2>2
  <2> QED BY <2>1, <2>2
<1> HIDE DEF P
<1>5. \A d \in Nat : d \in P
  BY <1>3, <1>4, Induct
<1>6. ASSUME NEW k \in 0 .. n PROVE up1[k] = up2[k]
  <2>1. n - k \in Nat /\ n - k <= n /\ n - (n - k) = k
    OBVIOUS
  <2> QED BY <1>5, <2>1 DEF P
<1>7. \A k \in 1 .. n : k \in 0 .. n
  OBVIOUS
<1> QED BY <1>1, <1>2, <1>6, <1>7 DEF SameUpTo

\* Under one checkpoint one place holds one entry: two proofs that are accepted
\* for the same index are of the same entry and of the same hashes, for a log of
\* any size (rootFromInclusionProof and verifyLogEntry,
\* internal/keyless/tlog.go).
THEOREM OneEntryPerPlace ==
  ASSUME NEW H, NEW proof1, NEW proof2, NEW checkpoint, NEW entry1, NEW entry2,
         proof1.hashes \in Seq(H), proof2.hashes \in Seq(H),
         proof1.index = proof2.index,
         ProvesInclusion(proof1, checkpoint, entry1),
         ProvesInclusion(proof2, checkpoint, entry2)
  PROVE entry1 = entry2 /\ proof1.hashes = proof2.hashes
<1> DEFINE index == proof1.index
           size == checkpoint.size
           rights == Rights(index, Inner(index, size))
           h1 == proof1.hashes
           h2 == proof2.hashes
<1>1. /\ Len(h1) = NeedsHashes(index, size) /\ Len(h2) = NeedsHashes(index, size)
      /\ RootFromInclusionProof(index, size, LeafHash(entry1), h1)
           = RootFromInclusionProof(index, size, LeafHash(entry2), h2)
  BY DEF ProvesInclusion, WellFormedProof
<1>2. h1 \in Seq(H) /\ h2 \in Seq(H) /\ Len(h1) \in Nat /\ Len(h2) = Len(h1)
  BY <1>1
<1> HIDE DEF index, size, h1, h2
<1>3. PICK up1 : /\ Walks(up1, LeafHash(entry1), h1, rights, Len(h1))
                 /\ RootFromInclusionProof(index, size, LeafHash(entry1), h1) = up1[Len(h1)]
  BY <1>2, RootIsAWalk
<1>4. PICK up2 : /\ Walks(up2, LeafHash(entry2), h2, rights, Len(h1))
                 /\ RootFromInclusionProof(index, size, LeafHash(entry2), h2) = up2[Len(h1)]
  BY <1>2, RootIsAWalk
<1> HIDE DEF rights
<1>5. LeafHash(entry1) = LeafHash(entry2) /\ \A k \in 1 .. Len(h1) : h1[k] = h2[k]
  <2> DEFINE n == Len(h1)
             leaf1 == LeafHash(entry1)
             leaf2 == LeafHash(entry2)
  <2>1. n \in Nat /\ up1[n] = up2[n]
    BY <1>1, <1>2, <1>3, <1>4
  <2>2. Walks(up1, leaf1, h1, rights, n) /\ Walks(up2, leaf2, h2, rights, n)
    BY <1>3, <1>4
  <2> HIDE DEF n, leaf1, leaf2
  <2>3. leaf1 = leaf2 /\ SameUpTo(n, h1, h2)
    BY <2>1, <2>2, WalkHasOneStart
  <2> QED BY <2>3 DEF n, leaf1, leaf2, SameUpTo
<1>6. entry1 = entry2
  BY <1>5 DEF LeafHash
<1>7. h1 = h2
  BY <1>2, <1>5, SameSeq
<1> QED BY <1>6, <1>7 DEF h1, h2

-----------------------------------------------------------------------------
(* Powers of two and what halving leaves.                                  *)

PowerTable(f, n) == f = [k \in 0 .. n |-> IF k = 0 THEN 1 ELSE 2 * f[k - 1]]

LEMMA PowerTableExists ==
  ASSUME NEW N \in Nat
  PROVE \E f : PowerTable(f, N)
<1> DEFINE P == {n \in Nat : \E f : PowerTable(f, n)}
<1>1. 0 \in P
  <2>1. PowerTable([k \in 0 .. 0 |-> 1], 0)
    BY DEF PowerTable
  <2> QED BY <2>1
<1>2. ASSUME NEW n \in Nat, n \in P PROVE n + 1 \in P
  <2>1. PICK f : PowerTable(f, n)
    BY <1>2
  <2> DEFINE next == [k \in 0 .. n + 1 |-> IF k <= n THEN f[k] ELSE 2 * f[k - 1]]
  <2>2. ASSUME NEW k \in 0 .. n + 1
        PROVE next[k] = IF k = 0 THEN 1 ELSE 2 * next[k - 1]
    <3>1. CASE k = 0
      BY <2>1, <3>1 DEF PowerTable
    <3>2. CASE k # 0
      <4>1. k - 1 \in 0 .. n /\ next[k - 1] = f[k - 1]
        BY <3>2
      <4>2. CASE k <= n
        <5>1. k \in 0 .. n /\ next[k] = f[k]
          BY <4>2
        <5>2. f[k] = 2 * f[k - 1]
          BY <2>1, <3>2, <5>1 DEF PowerTable
        <5> QED BY <3>2, <4>1, <5>1, <5>2
      <4>3. CASE ~(k <= n)
        BY <3>2, <4>1, <4>3
      <4> QED BY <4>2, <4>3
    <3> QED BY <3>1, <3>2
  <2>3. next = [k \in 0 .. n + 1 |-> next[k]]
    OBVIOUS
  <2> HIDE DEF next
  <2>4. PowerTable(next, n + 1)
    BY <2>2, <2>3 DEF PowerTable
  <2> QED BY <2>4
<1> HIDE DEF P
<1>3. N \in P
  BY <1>1, <1>2, Induct
<1> QED BY <1>3 DEF P

LEMMA TwoToIsTable ==
  ASSUME NEW n \in Nat
  PROVE \E f : PowerTable(f, n) /\ TwoTo(n) = f[n]
<1> DEFINE power[k \in 0 .. n] == IF k = 0 THEN 1 ELSE 2 * power[k - 1]
<1>1. PICK f : PowerTable(f, n)
  BY PowerTableExists
<1>2. f = [k \in 0 .. n |-> IF k = 0 THEN 1 ELSE 2 * f[k - 1]]
  BY <1>1 DEF PowerTable
<1>3. power = [k \in 0 .. n |-> IF k = 0 THEN 1 ELSE 2 * power[k - 1]]
  BY <1>2
<1>4. TwoTo(n) = power[n]
  BY DEF TwoTo
<1> HIDE DEF power
<1>5. PowerTable(power, n)
  BY <1>3 DEF PowerTable
<1> QED BY <1>4, <1>5

LEMMA PowerTablesAgree ==
  ASSUME NEW n \in Nat, NEW m \in n .. n + 1, NEW f, PowerTable(f, n), NEW g, PowerTable(g, m)
  PROVE f[n] = g[n]
<1> DEFINE P == {k \in Nat : k <= n => f[k] = g[k]}
<1>1. 0 \in P
  BY DEF PowerTable
<1>2. ASSUME NEW k \in Nat, k \in P PROVE k + 1 \in P
  <2> SUFFICES ASSUME k + 1 <= n PROVE f[k + 1] = g[k + 1]
    OBVIOUS
  <2>1. k + 1 \in 0 .. n /\ k + 1 \in 0 .. m /\ k + 1 # 0 /\ (k + 1) - 1 = k
    OBVIOUS
  <2>2. f[k + 1] = 2 * f[k]
    BY <2>1 DEF PowerTable
  <2>3. g[k + 1] = 2 * g[k]
    BY <2>1 DEF PowerTable
  <2> QED BY <1>2, <2>2, <2>3
<1> HIDE DEF P
<1>3. n \in P
  BY <1>1, <1>2, Induct
<1> QED BY <1>3 DEF P

LEMMA TwoToIs ==
  /\ TwoTo(0) = 1
  /\ \A n \in Nat : TwoTo(n + 1) = 2 * TwoTo(n) /\ TwoTo(n) \in Nat /\ TwoTo(n) > n
<1>1. TwoTo(0) = 1
  <2>1. PICK f : PowerTable(f, 0) /\ TwoTo(0) = f[0]
    BY TwoToIsTable
  <2> QED BY <2>1 DEF PowerTable
<1>2. ASSUME NEW n \in Nat PROVE TwoTo(n + 1) = 2 * TwoTo(n)
  <2>1. PICK f : PowerTable(f, n) /\ TwoTo(n) = f[n]
    BY TwoToIsTable
  <2>2. PICK g : PowerTable(g, n + 1) /\ TwoTo(n + 1) = g[n + 1]
    BY TwoToIsTable
  <2>3. f[n] = g[n]
    BY <2>1, <2>2, PowerTablesAgree
  <2>4. n + 1 \in 0 .. n + 1 /\ n + 1 # 0 /\ (n + 1) - 1 = n
    OBVIOUS
  <2>5. g[n + 1] = 2 * g[n]
    BY <2>2, <2>4 DEF PowerTable
  <2> QED BY <2>1, <2>2, <2>3, <2>5
<1> DEFINE P == {n \in Nat : TwoTo(n) \in Nat /\ TwoTo(n) > n}
<1>3. 0 \in P
  BY <1>1
<1>4. ASSUME NEW n \in Nat, n \in P PROVE n + 1 \in P
  BY <1>2, <1>4
<1> HIDE DEF P
<1>5. \A n \in Nat : n \in P
  BY <1>3, <1>4, Induct
<1> QED BY <1>1, <1>2, <1>5 DEF P

LEMMA TwoToGrows ==
  ASSUME NEW i \in Nat, NEW j \in Nat, i <= j
  PROVE TwoTo(i) <= TwoTo(j)
<1> DEFINE P == {d \in Nat : TwoTo(i) <= TwoTo(i + d)}
<1>1. 0 \in P
  BY TwoToIs
<1>2. ASSUME NEW d \in Nat, d \in P PROVE d + 1 \in P
  <2>1. i + d \in Nat /\ i + (d + 1) = (i + d) + 1
    OBVIOUS
  <2> DEFINE k == i + d
  <2>2. TwoTo(k + 1) = 2 * TwoTo(k) /\ TwoTo(k) \in Nat /\ TwoTo(i) \in Nat
    BY <2>1, TwoToIs
  <2> QED BY <1>2, <2>1, <2>2
<1> HIDE DEF P
<1>3. j - i \in Nat /\ i + (j - i) = j
  OBVIOUS
<1>4. j - i \in P
  BY <1>1, <1>2, <1>3, Induct
<1> QED BY <1>3, <1>4 DEF P

\* The power that splits n in two.
LEMMA SplitIs ==
  ASSUME NEW n \in Nat, n >= 2
  PROVE \E m \in Nat : Split(n) = TwoTo(m) /\ TwoTo(m) < n /\ n <= TwoTo(m + 1)
<1> DEFINE S == {TwoTo(i) : i \in {j \in 0 .. n : TwoTo(j) < n}}
<1>1. \A i \in 0 .. n : i \in Nat /\ TwoTo(i) \in Nat
  BY TwoToIs
<1>2. S \in SUBSET (0 .. n)
  BY <1>1
<1>3. 1 \in S
  BY TwoToIs
<1>4. Max(S) \in S /\ \A k \in S : k <= Max(S)
  BY <1>2, <1>3, MaxIsGreatest
<1>5. PICK m \in 0 .. n : TwoTo(m) < n /\ Max(S) = TwoTo(m)
  BY <1>4
<1>6. n <= TwoTo(m + 1)
  <2> SUFFICES ASSUME TwoTo(m + 1) < n PROVE FALSE
    <3>1. TwoTo(m + 1) \in Nat
      BY TwoToIs
    <3> QED BY <3>1
  <2>1. TwoTo(m + 1) \in Nat /\ TwoTo(m + 1) > m + 1 /\ TwoTo(m + 1) = 2 * TwoTo(m)
        /\ TwoTo(m) \in Nat /\ TwoTo(m) > m
    BY TwoToIs
  <2>2. m + 1 \in 0 .. n
    BY <2>1
  <2>3. TwoTo(m + 1) \in S
    BY <2>2
  <2>4. TwoTo(m + 1) <= TwoTo(m)
    BY <1>4, <1>5, <2>3
  <2> QED BY <2>1, <2>4
<1>7. Split(n) = Max(S)
  BY DEF Split
<1> QED BY <1>5, <1>6, <1>7

LEMMA ShiftedIs ==
  ASSUME NEW x \in Nat
  PROVE /\ Shifted(x, 0) = x
        /\ \A i \in Nat : Shifted(x, i) \in Nat /\ Shifted(x, i + 1) = Shifted(x, i) \div 2
<1>1. \A i \in Nat : TwoTo(i) \in Nat /\ TwoTo(i) > 0 /\ TwoTo(i + 1) = 2 * TwoTo(i)
  BY TwoToIs
<1>2. ASSUME NEW k \in Nat, k > 0 PROVE x \div k \in Nat /\ (x \div k) \div 2 = x \div (2 * k)
  BY <1>2
<1>3. x \div 1 = x
  OBVIOUS
<1> QED BY <1>1, <1>2, <1>3, TwoToIs DEF Shifted

LEMMA ShiftedAway ==
  ASSUME NEW x \in Nat, NEW i \in Nat, x < TwoTo(i)
  PROVE Shifted(x, i) = 0
<1>1. ASSUME NEW k \in Nat, x < k PROVE x \div k = 0
  BY <1>1
<1>2. TwoTo(i) \in Nat
  BY TwoToIs
<1> QED BY <1>1, <1>2 DEF Shifted

LEMMA ShiftedTwice ==
  ASSUME NEW x \in Nat, NEW a \in Nat, NEW b \in Nat
  PROVE Shifted(Shifted(x, a), b) = Shifted(x, a + b)
<1> DEFINE y == Shifted(x, a)
           P == {k \in Nat : Shifted(y, k) = Shifted(x, a + k)}
<1>1. y \in Nat
  BY ShiftedIs
<1>2. 0 \in P
  BY <1>1, ShiftedIs
<1>3. ASSUME NEW k \in Nat, k \in P PROVE k + 1 \in P
  <2>1. a + k \in Nat /\ a + (k + 1) = (a + k) + 1
    OBVIOUS
  <2>2. Shifted(y, k + 1) = Shifted(y, k) \div 2
    BY <1>1, ShiftedIs
  <2>3. Shifted(x, (a + k) + 1) = Shifted(x, a + k) \div 2
    BY <2>1, ShiftedIs
  <2> QED BY <1>3, <2>1, <2>2, <2>3
<1> HIDE DEF P
<1>4. b \in P
  BY <1>2, <1>3, Induct
<1> QED BY <1>4 DEF P

LEMMA ShiftedStays ==
  ASSUME NEW x \in Nat, NEW y \in Nat, NEW a \in Nat, NEW b \in Nat, a <= b,
         Shifted(x, a) = Shifted(y, a)
  PROVE Shifted(x, b) = Shifted(y, b)
<1>1. b - a \in Nat /\ a + (b - a) = b
  OBVIOUS
<1>2. Shifted(Shifted(x, a), b - a) = Shifted(x, a + (b - a))
  BY <1>1, ShiftedTwice
<1>3. Shifted(Shifted(y, a), b - a) = Shifted(y, a + (b - a))
  BY <1>1, ShiftedTwice
<1> QED BY <1>1, <1>2, <1>3

\* A number below a power of two, that number on top of the power, and the
\* largest number below the power.
LEMMA ShiftedBelow ==
  ASSUME NEW x \in Nat, NEW m \in Nat, x < TwoTo(m), NEW t \in 0 .. m
  PROVE /\ Shifted(x, t) \in Nat /\ Shifted(x, t) < TwoTo(m - t)
        /\ Shifted(TwoTo(m) + x, t) = TwoTo(m - t) + Shifted(x, t)
        /\ Shifted(TwoTo(m) - 1, t) = TwoTo(m - t) - 1
<1> DEFINE full == TwoTo(m) - 1
           sum == TwoTo(m) + x
           P == {k \in Nat : k <= m =>
                   /\ Shifted(x, k) < TwoTo(m - k)
                   /\ Shifted(sum, k) = TwoTo(m - k) + Shifted(x, k)
                   /\ Shifted(full, k) = TwoTo(m - k) - 1}
<1>1. TwoTo(m) \in Nat /\ TwoTo(m) > 0 /\ full \in Nat /\ sum \in Nat
  BY TwoToIs
<1>2. 0 \in P
  <2>1. m - 0 = m
    OBVIOUS
  <2>2. Shifted(x, 0) = x /\ Shifted(sum, 0) = sum /\ Shifted(full, 0) = full
    BY <1>1, ShiftedIs
  <2> QED BY <2>1, <2>2
<1>3. ASSUME NEW k \in Nat, k \in P PROVE k + 1 \in P
  <2> SUFFICES ASSUME k + 1 <= m
               PROVE /\ Shifted(x, k + 1) < TwoTo(m - (k + 1))
                     /\ Shifted(sum, k + 1) = TwoTo(m - (k + 1)) + Shifted(x, k + 1)
                     /\ Shifted(full, k + 1) = TwoTo(m - (k + 1)) - 1
    OBVIOUS
  <2> DEFINE h == m - (k + 1)
             p == TwoTo(h)
             a == Shifted(x, k)
             b == Shifted(sum, k)
             c == Shifted(full, k)
  <2>1. h \in Nat /\ m - k = h + 1
    OBVIOUS
  <2>2. TwoTo(m - k) = 2 * p /\ p \in Nat /\ p > 0
    BY <2>1, TwoToIs
  <2>3. a \in Nat /\ b \in Nat /\ c \in Nat
    BY <1>1, ShiftedIs
  <2>4. /\ Shifted(x, k + 1) = a \div 2 /\ Shifted(sum, k + 1) = b \div 2
        /\ Shifted(full, k + 1) = c \div 2
    BY <1>1, ShiftedIs
  <2>5. a < 2 * p /\ b = 2 * p + a /\ c = 2 * p - 1
    BY <1>3, <2>2
  <2> HIDE DEF h, p, a, b, c
  <2>6. a \div 2 < p
    BY <2>2, <2>3, <2>5
  <2>7. b \div 2 = p + a \div 2
    BY <2>2, <2>3, <2>5
  <2>8. c \div 2 = p - 1
    BY <2>2, <2>3, <2>5
  <2> QED BY <2>4, <2>6, <2>7, <2>8 DEF h, p
<1> HIDE DEF P
<1>4. t \in P
  BY <1>2, <1>3, Induct
<1>5. t \in Nat /\ t <= m
  OBVIOUS
<1>6. Shifted(x, t) \in Nat
  BY <1>5, ShiftedIs
<1> QED BY <1>4, <1>5, <1>6 DEF P

\* Where the path to a leaf meets the right border.
LEMMA InnerIs ==
  ASSUME NEW n \in Nat, NEW i \in Nat, i < n
  PROVE /\ Inner(i, n) \in 0 .. n
        /\ Shifted(i, Inner(i, n)) = Shifted(n - 1, Inner(i, n))
        /\ \A j \in 0 .. Inner(i, n) - 1 : Shifted(i, j) # Shifted(n - 1, j)
<1> DEFINE S == {k \in 0 .. n : Shifted(i, k) = Shifted(n - 1, k)}
<1>1. n - 1 \in Nat /\ TwoTo(n) \in Nat /\ TwoTo(n) > n
  BY TwoToIs
<1>2. Shifted(i, n) = 0 /\ Shifted(n - 1, n) = 0
  BY <1>1, ShiftedAway
<1>3. S \in SUBSET Nat /\ n \in S
  BY <1>2
<1>4. PICK k \in S : \A j \in S : k <= j
  BY <1>3, LeastOf
<1>5. k \in 0 .. n /\ Shifted(i, k) = Shifted(n - 1, k)
      /\ \A j \in 0 .. k - 1 : Shifted(i, j) # Shifted(n - 1, j)
  <2>1. \A j \in 0 .. k - 1 : j \in 0 .. n /\ ~(k <= j)
    BY <1>4
  <2> QED BY <1>4, <2>1
<1>6. \E c \in 0 .. n : /\ Shifted(i, c) = Shifted(n - 1, c)
                        /\ \A j \in 0 .. c - 1 : Shifted(i, j) # Shifted(n - 1, j)
  BY <1>5
<1> QED BY <1>6, Zenon DEF Inner

LEMMA InnerIsAt ==
  ASSUME NEW n \in Nat, NEW i \in Nat, i < n, NEW k \in Nat,
         Shifted(i, k) = Shifted(n - 1, k),
         \A j \in 0 .. k - 1 : Shifted(i, j) # Shifted(n - 1, j)
  PROVE Inner(i, n) = k
<1>1. /\ Inner(i, n) \in 0 .. n
      /\ Shifted(i, Inner(i, n)) = Shifted(n - 1, Inner(i, n))
      /\ \A j \in 0 .. Inner(i, n) - 1 : Shifted(i, j) # Shifted(n - 1, j)
  BY InnerIs
<1> DEFINE inner == Inner(i, n)
<1> HIDE DEF inner
<1>2. ~(inner < k)
  <2>1. ASSUME inner < k PROVE inner \in 0 .. k - 1
    BY <1>1, <2>1 DEF inner
  <2> QED BY <1>1, <2>1 DEF inner
<1>3. ~(k < inner)
  <2>1. ASSUME k < inner PROVE k \in 0 .. inner - 1
    BY <1>1, <2>1 DEF inner
  <2> QED BY <1>1, <2>1 DEF inner
<1> QED BY <1>1, <1>2, <1>3 DEF inner

\* The ones of a number.
Ones(x) == {i \in Nat : Bit(x, i) = 1}

LEMMA OnesWithin ==
  ASSUME NEW x \in Nat, NEW d \in Nat, x < TwoTo(d)
  PROVE Ones(x) \in SUBSET (0 .. d - 1)
<1> SUFFICES ASSUME NEW i \in Nat, d <= i PROVE Bit(x, i) # 1
  BY DEF Ones
<1>1. x < TwoTo(i)
  BY TwoToGrows, TwoToIs
<1>2. Shifted(x, i) = 0
  BY <1>1, ShiftedAway
<1> QED BY <1>2 DEF Bit

LEMMA OnesFinite ==
  ASSUME NEW x \in Nat
  PROVE IsFiniteSet(Ones(x)) /\ Cardinality(Ones(x)) \in Nat
<1>1. x < TwoTo(x)
  BY TwoToIs
<1>2. Ones(x) \in SUBSET (0 .. x - 1)
  BY <1>1, OnesWithin
<1>3. IsFiniteSet(0 .. x - 1)
  BY FS_Interval
<1>4. IsFiniteSet(Ones(x))
  BY <1>2, <1>3, FS_Subset
<1> QED BY <1>4, FS_CardinalityType

LEMMA BorderIs ==
  ASSUME NEW n \in Nat, NEW i \in Nat, i < n
  PROVE Border(i, n) = Cardinality(Ones(Shifted(i, Inner(i, n))))
<1> DEFINE x == Shifted(i, Inner(i, n))
<1>1. Inner(i, n) \in Nat
  BY InnerIs
<1>2. x \in Nat /\ x <= n
  <2>1. ASSUME NEW k \in Nat, k > 0 PROVE i \div k <= i
    BY <2>1
  <2>2. TwoTo(Inner(i, n)) \in Nat /\ TwoTo(Inner(i, n)) > 0
    BY <1>1, TwoToIs
  <2>3. x \in Nat
    BY <1>1, ShiftedIs
  <2> QED BY <2>1, <2>2, <2>3 DEF Shifted
<1> HIDE DEF x
<1>3. x < TwoTo(n)
  BY <1>2, TwoToIs
<1>4. Ones(x) \in SUBSET (0 .. n - 1)
  BY <1>2, <1>3, OnesWithin
<1>5. {j \in 0 .. n : Bit(x, j) = 1} = Ones(x)
  BY <1>4 DEF Ones
<1> QED BY <1>5 DEF Border, x

LEMMA OnesOfSum ==
  ASSUME NEW d \in Nat, NEW x \in Nat, x < TwoTo(d)
  PROVE /\ Ones(TwoTo(d) + x) = Ones(x) \cup {d} /\ d \notin Ones(x)
        /\ Cardinality(Ones(TwoTo(d) + x)) = Cardinality(Ones(x)) + 1
<1> DEFINE y == TwoTo(d) + x
<1>1. TwoTo(d) \in Nat /\ TwoTo(d + 1) = 2 * TwoTo(d) /\ y \in Nat /\ y < TwoTo(d + 1)
  BY TwoToIs
<1>2. Ones(x) \in SUBSET (0 .. d - 1)
  BY OnesWithin
<1>3. Ones(y) \in SUBSET (0 .. d)
  <2>1. Ones(y) \in SUBSET (0 .. (d + 1) - 1)
    BY <1>1, OnesWithin
  <2> QED BY <2>1
<1>4. ASSUME NEW j \in 0 .. d - 1 PROVE Bit(y, j) = 1 <=> Bit(x, j) = 1
  <2>1. j \in 0 .. d /\ d - j - 1 \in Nat /\ d - j = (d - j - 1) + 1
    OBVIOUS
  <2>2. Shifted(y, j) = TwoTo(d - j) + Shifted(x, j) /\ Shifted(x, j) \in Nat
    BY <2>1, ShiftedBelow
  <2> DEFINE p == TwoTo(d - j - 1)
             a == Shifted(x, j)
  <2>3. TwoTo(d - j) = 2 * p /\ p \in Nat
    BY <2>1, TwoToIs
  <2> HIDE DEF p, a, y
  <2>4. a \in Nat => (2 * p + a) % 2 = a % 2
    BY <2>3
  <2> QED BY <2>2, <2>3, <2>4 DEF Bit, a
<1>5. Bit(y, d) = 1
  <2>1. d \in 0 .. d /\ d - d = 0
    OBVIOUS
  <2>2. Shifted(y, d) = TwoTo(0) + Shifted(x, d) /\ Shifted(x, d) = 0
    BY <2>1, ShiftedBelow, ShiftedAway
  <2> QED BY <2>2, TwoToIs DEF Bit
<1> HIDE DEF y
<1>6. Ones(y) = Ones(x) \cup {d} /\ d \notin Ones(x)
  BY <1>2, <1>3, <1>4, <1>5 DEF Ones
<1>7. Cardinality(Ones(x) \cup {d}) = Cardinality(Ones(x)) + 1
  BY <1>6, OnesFinite, FS_AddElement
<1> QED BY <1>6, <1>7 DEF y

LEMMA OnesOfFull ==
  ASSUME NEW d \in Nat
  PROVE Ones(TwoTo(d) - 1) = 0 .. d - 1 /\ Cardinality(Ones(TwoTo(d) - 1)) = d
<1> DEFINE y == TwoTo(d) - 1
<1>1. TwoTo(d) \in Nat /\ TwoTo(d) > 0 /\ y \in Nat /\ y < TwoTo(d) /\ 0 < TwoTo(d)
  BY TwoToIs
<1>2. Ones(y) \in SUBSET (0 .. d - 1)
  BY <1>1, OnesWithin
<1>3. ASSUME NEW j \in 0 .. d - 1 PROVE Bit(y, j) = 1
  <2>1. j \in 0 .. d /\ d - j - 1 \in Nat /\ d - j = (d - j - 1) + 1
    OBVIOUS
  <2>2. Shifted(y, j) = TwoTo(d - j) - 1
    BY <1>1, <2>1, ShiftedBelow
  <2> DEFINE p == TwoTo(d - j - 1)
  <2>3. TwoTo(d - j) = 2 * p /\ p \in Nat /\ p > 0
    BY <2>1, TwoToIs
  <2> HIDE DEF p, y
  <2>4. (2 * p - 1) % 2 = 1
    BY <2>3
  <2> QED BY <2>2, <2>3, <2>4 DEF Bit
<1> HIDE DEF y
<1>4. Ones(y) = 0 .. d - 1
  BY <1>2, <1>3 DEF Ones
<1>5. Cardinality(0 .. d - 1) = d
  BY FS_Interval
<1> QED BY <1>4, <1>5 DEF y

-----------------------------------------------------------------------------
(* How many hashes a path has, and on which sides.                         *)

\* In a tree of at most 2^m entries the border is met by level m.
LEMMA BelowAPower ==
  ASSUME NEW m \in Nat, NEW i \in Nat, NEW n \in Nat, i < n, n <= TwoTo(m)
  PROVE Inner(i, n) \in 0 .. m
<1>1. Shifted(i, m) = 0 /\ Shifted(n - 1, m) = 0
  <2>1. TwoTo(m) \in Nat /\ i < TwoTo(m) /\ n - 1 \in Nat /\ n - 1 < TwoTo(m)
    BY TwoToIs
  <2> QED BY <2>1, ShiftedAway
<1>2. Inner(i, n) \in Nat /\ \A j \in 0 .. Inner(i, n) - 1 : Shifted(i, j) # Shifted(n - 1, j)
  BY InnerIs
<1> QED BY <1>1, <1>2

\* A path in a tree that is full: a hash for every level, on the side the
\* index's bit says.
LEMMA PathOfFullTree ==
  ASSUME NEW m \in Nat, NEW i \in Nat, i < TwoTo(m)
  PROVE /\ NeedsHashes(i, TwoTo(m)) = m
        /\ \A j \in 1 .. m : j \in Rights(i, Inner(i, TwoTo(m))) <=> Bit(i, j - 1) = 0
<1> DEFINE n == TwoTo(m)
           t == Inner(i, n)
<1>1. n \in Nat /\ n > 0 /\ 0 < TwoTo(m) /\ n - 1 = TwoTo(m) - 1
  BY TwoToIs
<1>2. t \in 0 .. m /\ m - t \in Nat
  BY <1>1, BelowAPower
<1>3. Shifted(i, t) = TwoTo(m - t) - 1
  <2>1. Shifted(i, t) = Shifted(n - 1, t)
    BY <1>1, InnerIs
  <2>2. Shifted(TwoTo(m) - 1, t) = TwoTo(m - t) - 1
    BY <1>1, <1>2, ShiftedBelow
  <2> QED BY <2>1, <2>2
<1>4. Border(i, n) = m - t
  <2>1. Border(i, n) = Cardinality(Ones(Shifted(i, t)))
    BY <1>1, BorderIs
  <2> QED BY <1>2, <1>3, <2>1, OnesOfFull
<1>5. ASSUME NEW j \in 1 .. m, ~(j <= t) PROVE Bit(i, j - 1) # 0
  <2>1. j - 1 \in 0 .. m /\ j - 1 \in Nat /\ t \in Nat /\ t <= j - 1
        /\ m - j \in Nat /\ m - (j - 1) = (m - j) + 1
    BY <1>2, <1>5
  <2>2. Shifted(i, t) = Shifted(n - 1, t) /\ n - 1 \in Nat
    BY <1>1, InnerIs
  <2>3. Shifted(i, j - 1) = Shifted(n - 1, j - 1)
    BY <2>1, <2>2, ShiftedStays
  <2>4. Shifted(TwoTo(m) - 1, j - 1) = TwoTo(m - (j - 1)) - 1
    BY <1>1, <2>1, ShiftedBelow
  <2> DEFINE p == TwoTo(m - j)
  <2>5. TwoTo(m - (j - 1)) = 2 * p /\ p \in Nat /\ p > 0
    BY <2>1, TwoToIs
  <2> HIDE DEF p, n, t
  <2>6. (2 * p - 1) % 2 = 1
    BY <2>5
  <2> QED BY <2>3, <2>4, <2>5, <2>6 DEF Bit, n
<1>6. \A j \in 1 .. m : j \in Rights(i, t) <=> Bit(i, j - 1) = 0
  BY <1>5 DEF Rights
<1> QED BY <1>2, <1>4, <1>6 DEF NeedsHashes

\* A leaf in the left of the two halves of a tree has one hash more than in
\* that half alone, standing to its right at the top.
LEMMA TurnLeft ==
  ASSUME NEW m \in Nat, NEW n \in Nat, TwoTo(m) < n, n <= TwoTo(m + 1),
         NEW i \in Nat, i < TwoTo(m)
  PROVE /\ NeedsHashes(i, TwoTo(m)) \in Nat
        /\ NeedsHashes(i, n) = NeedsHashes(i, TwoTo(m)) + 1
        /\ NeedsHashes(i, n) \in Rights(i, Inner(i, n))
        /\ \A j \in 1 .. NeedsHashes(i, TwoTo(m)) :
             j \in Rights(i, Inner(i, n)) <=> j \in Rights(i, Inner(i, TwoTo(m)))
<1>1. TwoTo(m) \in Nat /\ TwoTo(m) > 0 /\ TwoTo(m + 1) = 2 * TwoTo(m) /\ i < n
  BY TwoToIs
<1>2. Shifted(i, m) = 0 /\ Shifted(i, m + 1) = 0 /\ Shifted(n - 1, m + 1) = 0
  <2>1. i < TwoTo(m + 1) /\ n - 1 \in Nat /\ n - 1 < TwoTo(m + 1)
    BY <1>1
  <2> QED BY <2>1, ShiftedAway
<1>3. Shifted(n - 1, m) = 1
  <2> DEFINE x == (n - 1) - TwoTo(m)
  <2>1. x \in Nat /\ x < TwoTo(m) /\ TwoTo(m) + x = n - 1
    BY <1>1
  <2>2. m \in 0 .. m /\ m - m = 0
    OBVIOUS
  <2> HIDE DEF x
  <2>3. Shifted(TwoTo(m) + x, m) = TwoTo(0) + Shifted(x, m)
    BY <2>1, <2>2, ShiftedBelow
  <2>4. Shifted(x, m) = 0
    BY <2>1, ShiftedAway
  <2> QED BY <2>1, <2>3, <2>4, TwoToIs
<1>4. ASSUME NEW j \in 0 .. (m + 1) - 1 PROVE Shifted(i, j) # Shifted(n - 1, j)
  <2>1. j \in Nat /\ j <= m /\ n - 1 \in Nat
    BY <1>1
  <2> SUFFICES ASSUME Shifted(i, j) = Shifted(n - 1, j) PROVE FALSE
    OBVIOUS
  <2>2. Shifted(i, m) = Shifted(n - 1, m)
    BY <2>1, ShiftedStays
  <2> QED BY <1>2, <1>3, <2>2
<1>5. Inner(i, n) = m + 1
  <2>1. m + 1 \in Nat /\ Shifted(i, m + 1) = Shifted(n - 1, m + 1)
    BY <1>2
  <2> HIDE <1>2
  <2> QED BY <1>1, <1>4, <2>1, InnerIsAt
<1>6. Border(i, n) = 0
  <2>1. Border(i, n) = Cardinality(Ones(Shifted(i, Inner(i, n))))
    BY <1>1, BorderIs
  <2>2. TwoTo(0) - 1 = 0
    BY TwoToIs
  <2>3. Cardinality(Ones(TwoTo(0) - 1)) = 0
    BY OnesOfFull
  <2> QED BY <1>2, <1>5, <2>1, <2>2, <2>3
<1>7. NeedsHashes(i, n) = m + 1
  BY <1>5, <1>6 DEF NeedsHashes
<1>8. /\ NeedsHashes(i, TwoTo(m)) = m
      /\ \A j \in 1 .. m : j \in Rights(i, Inner(i, TwoTo(m))) <=> Bit(i, j - 1) = 0
  BY PathOfFullTree
<1>9. m + 1 \in Rights(i, Inner(i, n))
  <2>1. (m + 1) - 1 = m /\ m + 1 \in Nat
    OBVIOUS
  <2> QED BY <1>2, <1>5, <2>1 DEF Rights, Bit
<1>10. \A j \in 1 .. m : j \in Rights(i, Inner(i, n)) <=> Bit(i, j - 1) = 0
  BY <1>5 DEF Rights
<1> QED BY <1>7, <1>8, <1>9, <1>10

\* In the right half too, but there the hash stands to its left.
LEMMA TurnRight ==
  ASSUME NEW m \in Nat, NEW n \in Nat, n > 0, n <= TwoTo(m), NEW i \in Nat, i < n
  PROVE /\ NeedsHashes(i, n) \in Nat
        /\ NeedsHashes(TwoTo(m) + i, TwoTo(m) + n) = NeedsHashes(i, n) + 1
        /\ NeedsHashes(TwoTo(m) + i, TwoTo(m) + n)
             \notin Rights(TwoTo(m) + i, Inner(TwoTo(m) + i, TwoTo(m) + n))
        /\ \A j \in 1 .. NeedsHashes(i, n) :
             j \in Rights(TwoTo(m) + i, Inner(TwoTo(m) + i, TwoTo(m) + n))
               <=> j \in Rights(i, Inner(i, n))
<1> DEFINE t == Inner(i, n)
           ii == TwoTo(m) + i
           nn == TwoTo(m) + n
<1>1. /\ TwoTo(m) \in Nat /\ ii \in Nat /\ nn \in Nat /\ ii < nn /\ n - 1 \in Nat
      /\ i < TwoTo(m) /\ n - 1 < TwoTo(m) /\ nn - 1 = TwoTo(m) + (n - 1)
  BY TwoToIs
<1>2. t \in 0 .. m /\ t \in Nat /\ m - t \in Nat
  BY BelowAPower
<1>3. ASSUME NEW j \in 0 .. m
      PROVE /\ Shifted(ii, j) = TwoTo(m - j) + Shifted(i, j)
            /\ Shifted(nn - 1, j) = TwoTo(m - j) + Shifted(n - 1, j)
            /\ Shifted(i, j) \in Nat /\ Shifted(n - 1, j) \in Nat /\ TwoTo(m - j) \in Nat
            /\ Shifted(i, j) < TwoTo(m - j)
  <2>1. /\ Shifted(TwoTo(m) + i, j) = TwoTo(m - j) + Shifted(i, j)
        /\ Shifted(i, j) \in Nat /\ Shifted(i, j) < TwoTo(m - j)
    BY <1>1, ShiftedBelow
  <2>2. /\ Shifted(TwoTo(m) + (n - 1), j) = TwoTo(m - j) + Shifted(n - 1, j)
        /\ Shifted(n - 1, j) \in Nat
    BY <1>1, ShiftedBelow
  <2>3. m - j \in Nat
    OBVIOUS
  <2> QED BY <1>1, <2>1, <2>2, <2>3, TwoToIs
<1>4. Inner(ii, nn) = t
  <2>1. /\ Shifted(i, t) = Shifted(n - 1, t)
        /\ \A j \in 0 .. t - 1 : Shifted(i, j) # Shifted(n - 1, j)
    BY InnerIs
  <2>2. Shifted(ii, t) = Shifted(nn - 1, t)
    BY <1>2, <1>3, <2>1
  <2>3. ASSUME NEW j \in 0 .. t - 1 PROVE Shifted(ii, j) # Shifted(nn - 1, j)
    <3>1. j \in 0 .. m
      BY <1>2
    <3>2. Shifted(i, j) # Shifted(n - 1, j)
      BY <2>1
    <3> HIDE DEF t, ii, nn
    <3> QED BY <1>3, <3>1, <3>2
  <2> HIDE DEF t, ii, nn
  <2> QED BY <1>1, <1>2, <2>2, <2>3, InnerIsAt
<1>5. /\ Border(i, n) = Cardinality(Ones(Shifted(i, t))) /\ Border(i, n) \in Nat
      /\ Border(ii, nn) = Border(i, n) + 1
  <2>1. /\ Shifted(i, t) \in Nat /\ Shifted(i, t) < TwoTo(m - t)
        /\ Shifted(ii, t) = TwoTo(m - t) + Shifted(i, t)
    BY <1>2, <1>3
  <2>2. Border(i, n) = Cardinality(Ones(Shifted(i, t)))
    BY BorderIs
  <2>3. Border(ii, nn) = Cardinality(Ones(Shifted(ii, t)))
    <3> HIDE DEF ii, nn, t
    <3> QED BY <1>1, <1>4, BorderIs
  <2> HIDE DEF t, ii, nn
  <2>4. Cardinality(Ones(TwoTo(m - t) + Shifted(i, t))) = Cardinality(Ones(Shifted(i, t))) + 1
    BY <1>2, <2>1, OnesOfSum
  <2>5. Cardinality(Ones(Shifted(i, t))) \in Nat
    BY <2>1, OnesFinite
  <2> QED BY <2>1, <2>2, <2>3, <2>4, <2>5
<1> DEFINE need == NeedsHashes(i, n)
<1>6. need \in Nat /\ need >= t /\ NeedsHashes(ii, nn) = need + 1
  BY <1>2, <1>4, <1>5 DEF NeedsHashes
<1>7. ASSUME NEW j \in 1 .. t PROVE Bit(ii, j - 1) = Bit(i, j - 1)
  <2>1. j - 1 \in 0 .. m /\ m - j \in Nat /\ m - (j - 1) = (m - j) + 1
    BY <1>2
  <2> DEFINE p == TwoTo(m - j)
             a == Shifted(i, j - 1)
  <2>2. TwoTo(m - (j - 1)) = 2 * p /\ p \in Nat
    BY <2>1, TwoToIs
  <2>3. Shifted(ii, j - 1) = TwoTo(m - (j - 1)) + a /\ a \in Nat
    BY <1>3, <2>1
  <2> HIDE DEF p, a, ii
  <2>4. (2 * p + a) % 2 = a % 2
    BY <2>2, <2>3
  <2> QED BY <2>2, <2>3, <2>4 DEF Bit, a
<1>8. ASSUME NEW j \in Nat, j >= 1
      PROVE j \in Rights(ii, t) <=> j \in Rights(i, t)
  <2>1. CASE j <= t
    <3>1. j \in 1 .. t
      BY <1>2, <1>8, <2>1
    <3> QED BY <1>7, <2>1, <3>1 DEF Rights
  <2>2. CASE ~(j <= t)
    BY <2>2 DEF Rights
  <2> QED BY <2>1, <2>2
<1>9. need + 1 \notin Rights(ii, t)
  BY <1>2, <1>6 DEF Rights
<1>10. \A j \in 1 .. need : j \in Nat /\ j >= 1
  BY <1>6
<1> HIDE DEF t, ii, nn, need
<1>11. \A j \in 1 .. need : j \in Rights(ii, t) <=> j \in Rights(i, t)
  BY <1>8, <1>10
<1> QED BY <1>4, <1>6, <1>9, <1>11 DEF t, ii, nn, need

-----------------------------------------------------------------------------
(* The recursion over a tree: from the roots and the paths of the two      *)
(* halves.                                                                 *)

LEMMA HalvesAreSmaller ==
  ASSUME NEW n \in Nat, n >= 2
  PROVE Split(n) \in 1 .. n - 1 /\ n - Split(n) \in 1 .. n - 1
<1>1. PICK m \in Nat : Split(n) = TwoTo(m) /\ TwoTo(m) < n
  BY SplitIs
<1>2. TwoTo(m) \in Nat /\ TwoTo(m) > 0
  BY TwoToIs
<1> QED BY <1>1, <1>2

\* The roots of the subtrees of k entries, from those of fewer.
RowOfRoots(log, f, k) ==
  [from \in 0 .. Len(log) - k |->
     IF k = 0 THEN EmptyHash
     ELSE IF k = 1 THEN LeafHash(log[from + 1])
     ELSE HashChildren(f[Split(k)][from], f[k - Split(k)][from + Split(k)])]

Roots(f, log, n) == f = [k \in 0 .. n |-> RowOfRoots(log, f, k)]

LEMMA RootsExist ==
  ASSUME NEW log, NEW N \in Nat
  PROVE \E f : Roots(f, log, N)
<1> DEFINE P == {n \in Nat : \E f : Roots(f, log, n)}
<1>1. 0 \in P
  <2> DEFINE f == [k \in 0 .. 0 |-> [from \in 0 .. Len(log) |-> EmptyHash]]
  <2>1. ASSUME NEW k \in 0 .. 0 PROVE f[k] = RowOfRoots(log, f, k)
    BY DEF RowOfRoots
  <2>2. f = [k \in 0 .. 0 |-> f[k]]
    OBVIOUS
  <2> HIDE DEF f
  <2>3. Roots(f, log, 0)
    BY <2>1, <2>2 DEF Roots
  <2> QED BY <2>3
<1>2. ASSUME NEW n \in Nat, n \in P PROVE n + 1 \in P
  <2>1. PICK f : Roots(f, log, n)
    BY <1>2
  <2> DEFINE next == [k \in 0 .. n + 1 |-> IF k <= n THEN f[k] ELSE RowOfRoots(log, f, k)]
  <2>2. \A k \in 0 .. n : next[k] = f[k] /\ f[k] = RowOfRoots(log, f, k)
    BY <2>1 DEF Roots
  <2>3. ASSUME NEW k \in 0 .. n + 1 PROVE next[k] = RowOfRoots(log, f, k)
    <3>1. CASE k <= n
      <4>1. k \in 0 .. n
        BY <3>1
      <4> HIDE DEF next
      <4> QED BY <2>2, <4>1
    <3>2. CASE ~(k <= n)
      BY <3>2
    <3> QED BY <3>1, <3>2
  <2>4. next = [k \in 0 .. n + 1 |-> next[k]]
    OBVIOUS
  <2> HIDE DEF next
  <2>5. ASSUME NEW k \in 0 .. n + 1 PROVE RowOfRoots(log, next, k) = RowOfRoots(log, f, k)
    <3>1. CASE k < 2
      BY <3>1 DEF RowOfRoots
    <3>2. CASE k >= 2
      <4>1. Split(k) \in 0 .. n /\ k - Split(k) \in 0 .. n
        BY <3>2, HalvesAreSmaller
      <4>2. next[Split(k)] = f[Split(k)] /\ next[k - Split(k)] = f[k - Split(k)]
        BY <2>2, <4>1
      <4> QED BY <4>2 DEF RowOfRoots
    <3> QED BY <3>1, <3>2
  <2>6. Roots(next, log, n + 1)
    BY <2>3, <2>4, <2>5 DEF Roots
  <2> QED BY <2>6
<1> HIDE DEF P
<1>3. N \in P
  BY <1>1, <1>2, Induct
<1> QED BY <1>3 DEF P

LEMMA SubtreeRoots ==
  ASSUME NEW log, Len(log) \in Nat
  PROVE \E f : Roots(f, log, Len(log)) /\ \A n, lo : SubtreeRoot(log, lo, n) = f[n][lo]
<1> DEFINE root[k \in 0 .. Len(log)] ==
             [from \in 0 .. Len(log) - k |->
                IF k = 0 THEN EmptyHash
                ELSE IF k = 1 THEN LeafHash(log[from + 1])
                ELSE HashChildren(root[Split(k)][from], root[k - Split(k)][from + Split(k)])]
<1>1. PICK f : Roots(f, log, Len(log))
  BY RootsExist
<1>2. f = [k \in 0 .. Len(log) |->
             [from \in 0 .. Len(log) - k |->
                IF k = 0 THEN EmptyHash
                ELSE IF k = 1 THEN LeafHash(log[from + 1])
                ELSE HashChildren(f[Split(k)][from], f[k - Split(k)][from + Split(k)])]]
  BY <1>1 DEF Roots, RowOfRoots
<1>3. root = [k \in 0 .. Len(log) |->
                [from \in 0 .. Len(log) - k |->
                   IF k = 0 THEN EmptyHash
                   ELSE IF k = 1 THEN LeafHash(log[from + 1])
                   ELSE HashChildren(root[Split(k)][from], root[k - Split(k)][from + Split(k)])]]
  BY <1>2
<1>4. \A n, lo : SubtreeRoot(log, lo, n) = root[n][lo]
  BY DEF SubtreeRoot
<1> HIDE DEF root
<1>5. Roots(root, log, Len(log))
  BY <1>3 DEF Roots, RowOfRoots
<1> QED BY <1>4, <1>5

LEMMA SubtreeRootIs ==
  ASSUME NEW log, Len(log) \in Nat, NEW k \in 0 .. Len(log), NEW from \in 0 .. Len(log) - k
  PROVE /\ k = 1 => SubtreeRoot(log, from, k) = LeafHash(log[from + 1])
        /\ k >= 2 => SubtreeRoot(log, from, k)
                       = HashChildren(SubtreeRoot(log, from, Split(k)),
                                      SubtreeRoot(log, from + Split(k), k - Split(k)))
<1>1. PICK f : Roots(f, log, Len(log)) /\ \A n, lo : SubtreeRoot(log, lo, n) = f[n][lo]
  BY SubtreeRoots
<1>2. f[k] = RowOfRoots(log, f, k)
  BY <1>1 DEF Roots
<1>3. SubtreeRoot(log, from, k)
        = IF k = 0 THEN EmptyHash
          ELSE IF k = 1 THEN LeafHash(log[from + 1])
          ELSE HashChildren(f[Split(k)][from], f[k - Split(k)][from + Split(k)])
  BY <1>1, <1>2 DEF RowOfRoots
<1>4. CASE k >= 2
  <2>1. SubtreeRoot(log, from, Split(k)) = f[Split(k)][from]
    BY <1>1
  <2>2. SubtreeRoot(log, from + Split(k), k - Split(k)) = f[k - Split(k)][from + Split(k)]
    BY <1>1
  <2> QED BY <1>3, <1>4, <2>1, <2>2
<1>5. CASE k < 2
  BY <1>3, <1>5
<1> QED BY <1>4, <1>5

\* The paths to one entry in the subtrees of k entries.
RowOfPaths(log, index, f, k) ==
  [from \in 0 .. Len(log) - k |->
     IF k <= 1 THEN <<>>
     ELSE IF index < from + Split(k)
     THEN Append(f[Split(k)][from], SubtreeRoot(log, from + Split(k), k - Split(k)))
     ELSE Append(f[k - Split(k)][from + Split(k)], SubtreeRoot(log, from, Split(k)))]

Paths(f, log, index, n) == f = [k \in 0 .. n |-> RowOfPaths(log, index, f, k)]

LEMMA PathsExist ==
  ASSUME NEW log, NEW index, NEW N \in Nat
  PROVE \E f : Paths(f, log, index, N)
<1> DEFINE P == {n \in Nat : \E f : Paths(f, log, index, n)}
<1>1. 0 \in P
  <2> DEFINE f == [k \in 0 .. 0 |-> [from \in 0 .. Len(log) - k |-> <<>>]]
  <2>1. ASSUME NEW k \in 0 .. 0 PROVE f[k] = RowOfPaths(log, index, f, k)
    BY DEF RowOfPaths
  <2>2. f = [k \in 0 .. 0 |-> f[k]]
    OBVIOUS
  <2> HIDE DEF f
  <2>3. Paths(f, log, index, 0)
    BY <2>1, <2>2 DEF Paths
  <2> QED BY <2>3
<1>2. ASSUME NEW n \in Nat, n \in P PROVE n + 1 \in P
  <2>1. PICK f : Paths(f, log, index, n)
    BY <1>2
  <2> DEFINE next == [k \in 0 .. n + 1 |->
                        IF k <= n THEN f[k] ELSE RowOfPaths(log, index, f, k)]
  <2>2. \A k \in 0 .. n : next[k] = f[k] /\ f[k] = RowOfPaths(log, index, f, k)
    BY <2>1 DEF Paths
  <2>3. ASSUME NEW k \in 0 .. n + 1 PROVE next[k] = RowOfPaths(log, index, f, k)
    <3>1. CASE k <= n
      <4>1. k \in 0 .. n
        BY <3>1
      <4> HIDE DEF next
      <4> QED BY <2>2, <4>1
    <3>2. CASE ~(k <= n)
      BY <3>2
    <3> QED BY <3>1, <3>2
  <2>4. next = [k \in 0 .. n + 1 |-> next[k]]
    OBVIOUS
  <2> HIDE DEF next
  <2>5. ASSUME NEW k \in 0 .. n + 1
        PROVE RowOfPaths(log, index, next, k) = RowOfPaths(log, index, f, k)
    <3>1. CASE k < 2
      BY <3>1 DEF RowOfPaths
    <3>2. CASE k >= 2
      <4>1. Split(k) \in 0 .. n /\ k - Split(k) \in 0 .. n
        BY <3>2, HalvesAreSmaller
      <4>2. next[Split(k)] = f[Split(k)] /\ next[k - Split(k)] = f[k - Split(k)]
        BY <2>2, <4>1
      <4> QED BY <4>2 DEF RowOfPaths
    <3> QED BY <3>1, <3>2
  <2>6. Paths(next, log, index, n + 1)
    BY <2>3, <2>4, <2>5 DEF Paths
  <2> QED BY <2>6
<1> HIDE DEF P
<1>3. N \in P
  BY <1>1, <1>2, Induct
<1> QED BY <1>3 DEF P

LEMMA PathsTo ==
  ASSUME NEW log, Len(log) \in Nat, NEW index
  PROVE \E f : Paths(f, log, index, Len(log)) /\ \A n, lo : PathTo(log, index, lo, n) = f[n][lo]
<1> DEFINE path[k \in 0 .. Len(log)] ==
             [from \in 0 .. Len(log) - k |->
                LET left == Split(k)
                    mid == from + left
                IN IF k <= 1 THEN <<>>
                   ELSE IF index < mid
                   THEN Append(path[left][from], SubtreeRoot(log, mid, k - left))
                   ELSE Append(path[k - left][mid], SubtreeRoot(log, from, left))]
<1>1. PICK f : Paths(f, log, index, Len(log))
  BY PathsExist
<1>2. f = [k \in 0 .. Len(log) |->
             [from \in 0 .. Len(log) - k |->
                LET left == Split(k)
                    mid == from + left
                IN IF k <= 1 THEN <<>>
                   ELSE IF index < mid
                   THEN Append(f[left][from], SubtreeRoot(log, mid, k - left))
                   ELSE Append(f[k - left][mid], SubtreeRoot(log, from, left))]]
  BY <1>1 DEF Paths, RowOfPaths
<1>3. path = [k \in 0 .. Len(log) |->
                [from \in 0 .. Len(log) - k |->
                   LET left == Split(k)
                       mid == from + left
                   IN IF k <= 1 THEN <<>>
                      ELSE IF index < mid
                      THEN Append(path[left][from], SubtreeRoot(log, mid, k - left))
                      ELSE Append(path[k - left][mid], SubtreeRoot(log, from, left))]]
  BY <1>2
<1>4. \A n, lo : PathTo(log, index, lo, n) = path[n][lo]
  BY DEF PathTo
<1> HIDE DEF path
<1>5. Paths(path, log, index, Len(log))
  BY <1>3 DEF Paths, RowOfPaths
<1> QED BY <1>4, <1>5

LEMMA PathIs ==
  ASSUME NEW log, Len(log) \in Nat, NEW index,
         NEW k \in 0 .. Len(log), NEW from \in 0 .. Len(log) - k
  PROVE /\ k <= 1 => PathTo(log, index, from, k) = <<>>
        /\ k >= 2 /\ index < from + Split(k) =>
             PathTo(log, index, from, k)
               = Append(PathTo(log, index, from, Split(k)),
                        SubtreeRoot(log, from + Split(k), k - Split(k)))
        /\ k >= 2 /\ ~(index < from + Split(k)) =>
             PathTo(log, index, from, k)
               = Append(PathTo(log, index, from + Split(k), k - Split(k)),
                        SubtreeRoot(log, from, Split(k)))
<1>1. PICK f : Paths(f, log, index, Len(log)) /\ \A n, lo : PathTo(log, index, lo, n) = f[n][lo]
  BY PathsTo
<1>2. f[k] = RowOfPaths(log, index, f, k)
  BY <1>1 DEF Paths
<1>3. PathTo(log, index, from, k)
        = IF k <= 1 THEN <<>>
          ELSE IF index < from + Split(k)
          THEN Append(f[Split(k)][from], SubtreeRoot(log, from + Split(k), k - Split(k)))
          ELSE Append(f[k - Split(k)][from + Split(k)], SubtreeRoot(log, from, Split(k)))
  BY <1>1, <1>2 DEF RowOfPaths
<1>4. CASE k >= 2
  <2>1. PathTo(log, index, from, Split(k)) = f[Split(k)][from]
    BY <1>1
  <2>2. PathTo(log, index, from + Split(k), k - Split(k)) = f[k - Split(k)][from + Split(k)]
    BY <1>1
  <2>3. ~(k <= 1)
    BY <1>4
  <2> QED BY <1>3, <2>1, <2>2, <2>3
<1>5. CASE k < 2
  BY <1>3, <1>5
<1> QED BY <1>4, <1>5

-----------------------------------------------------------------------------
(* The log's own proofs are walked to its root.                            *)

\* The level that takes one hash more.
Tops(up, low, p, r, rights) ==
  up[Len(p) + 1] = IF Len(p) + 1 \in rights
                   THEN HashChildren(low[Len(p)], r)
                   ELSE HashChildren(r, low[Len(p)])

Agree(p, rights, below) == \A j \in 1 .. Len(p) : j \in rights <=> j \in below

\* A walk of one hash more: the walk below it, and one step.
LEMMA WalkOfOneMore ==
  ASSUME NEW H, NEW p, p \in Seq(H), NEW r, NEW leaf, NEW rights, NEW below,
         Agree(p, rights, below), NEW up,
         Walks(up, leaf, Append(p, r), rights, Len(p) + 1), r \in H
  PROVE \E low : Walks(low, leaf, p, below, Len(p)) /\ Tops(up, low, p, r, rights)
<1> DEFINE L == Len(p)
           h == Append(p, r)
           low == [k \in 0 .. L |-> up[k]]
<1>1. L \in Nat /\ h[L + 1] = r /\ \A k \in 1 .. L : h[k] = p[k]
  OBVIOUS
<1>2. \A k \in 0 .. L + 1 : up[k] = IF k = 0 THEN leaf ELSE Climb(k, up[k - 1], h, rights)
  BY DEF Walks
<1> HIDE DEF h, L
<1>3. ASSUME NEW k \in 0 .. L
      PROVE low[k] = IF k = 0 THEN leaf ELSE Climb(k, low[k - 1], p, below)
  <2>1. low[k] = up[k] /\ k \in 0 .. L + 1
    BY <1>1
  <2>2. CASE k = 0
    BY <1>2, <2>1, <2>2
  <2>3. CASE k # 0
    <3>1. k \in 1 .. L /\ k - 1 \in 0 .. L
      BY <1>1, <2>3
    <3>2. low[k - 1] = up[k - 1]
      BY <3>1
    <3>3. up[k] = Climb(k, up[k - 1], h, rights)
      BY <1>2, <2>1, <2>3
    <3>4. h[k] = p[k] /\ (k \in rights <=> k \in below)
      BY <1>1, <3>1 DEF L, Agree
    <3> HIDE DEF low
    <3> QED BY <2>1, <2>3, <3>2, <3>3, <3>4 DEF Climb
  <2> QED BY <2>2, <2>3
<1>4. low = [k \in 0 .. L |-> low[k]]
  OBVIOUS
<1>5. L \in 0 .. L /\ low[L] = up[L]
  BY <1>1
<1>6. up[L + 1] = Climb(L + 1, up[L], h, rights)
  <2>1. L + 1 \in 0 .. L + 1 /\ L + 1 # 0 /\ (L + 1) - 1 = L
    BY <1>1
  <2> QED BY <1>2, <2>1
<1> HIDE DEF low
<1>7. Walks(low, leaf, p, below, L)
  BY <1>3, <1>4 DEF Walks
<1>8. up[L + 1] = IF L + 1 \in rights THEN HashChildren(low[L], r) ELSE HashChildren(r, low[L])
  BY <1>1, <1>5, <1>6 DEF Climb
<1> QED BY <1>7, <1>8 DEF L, Tops

\* The log's own path to an entry among the k that start at `from`: as many
\* hashes as the walk wants, and a walk of them ends at the root.
PathHolds(log, H, index, from, k) ==
  /\ PathTo(log, index, from, k) \in Seq(H)
  /\ Len(PathTo(log, index, from, k)) = NeedsHashes(index - from, k)
  /\ \A up : Walks(up, LeafHash(log[index + 1]), PathTo(log, index, from, k),
                   Rights(index - from, Inner(index - from, k)), NeedsHashes(index - from, k))
               => up[NeedsHashes(index - from, k)] = SubtreeRoot(log, from, k)

Subtrees(log) == {SubtreeRoot(log, from, k) : from \in 0 .. Len(log), k \in 0 .. Len(log)}

LEMMA IsASubtree ==
  ASSUME NEW log, NEW from, NEW k, from \in 0 .. Len(log), k \in 0 .. Len(log)
  PROVE SubtreeRoot(log, from, k) \in Subtrees(log)
BY DEF Subtrees

\* The path to the only entry of a subtree is empty.
LEMMA PathToOne ==
  ASSUME NEW log, Len(log) \in Nat, 1 <= Len(log), NEW from \in 0 .. Len(log) - 1, NEW H
  PROVE PathHolds(log, H, from, from, 1)
<1>1. PathTo(log, from, from, 1) = <<>> /\ SubtreeRoot(log, from, 1) = LeafHash(log[from + 1])
  <2>1. 1 \in 0 .. Len(log) /\ 1 = 1 /\ 1 <= 1
    OBVIOUS
  <2> QED BY <2>1, PathIs, SubtreeRootIs
<1>2. from - from = 0
  OBVIOUS
<1>3. NeedsHashes(0, 1) = 0
  <2>1. TwoTo(0) = 1
    BY TwoToIs
  <2>2. NeedsHashes(0, TwoTo(0)) = 0
    BY <2>1, PathOfFullTree
  <2> QED BY <2>1, <2>2
<1>4. <<>> \in Seq(H) /\ Len(<<>>) = 0
  OBVIOUS
<1>5. ASSUME NEW up, NEW rights, Walks(up, LeafHash(log[from + 1]), <<>>, rights, 0)
      PROVE up[0] = LeafHash(log[from + 1])
  BY <1>5 DEF Walks
<1> QED BY <1>1, <1>2, <1>3, <1>4, <1>5 DEF PathHolds

\* A path with one hash more, when the walk of it takes one step more.
LEMMA PathExtends ==
  ASSUME NEW log, NEW H, NEW index, NEW from, NEW k, NEW lo, NEW n, NEW r, r \in H,
         PathHolds(log, H, index, lo, n),
         PathTo(log, index, from, k) = Append(PathTo(log, index, lo, n), r),
         NeedsHashes(index - lo, n) \in Nat,
         NeedsHashes(index - from, k) = NeedsHashes(index - lo, n) + 1,
         \A j \in 1 .. NeedsHashes(index - lo, n) :
           j \in Rights(index - from, Inner(index - from, k))
             <=> j \in Rights(index - lo, Inner(index - lo, n)),
         SubtreeRoot(log, from, k)
           = IF NeedsHashes(index - from, k) \in Rights(index - from, Inner(index - from, k))
             THEN HashChildren(SubtreeRoot(log, lo, n), r)
             ELSE HashChildren(r, SubtreeRoot(log, lo, n))
  PROVE PathHolds(log, H, index, from, k)
<1> DEFINE p == PathTo(log, index, lo, n)
           need == NeedsHashes(index - lo, n)
           rights == Rights(index - from, Inner(index - from, k))
           below == Rights(index - lo, Inner(index - lo, n))
           leaf == LeafHash(log[index + 1])
<1>1. /\ p \in Seq(H) /\ Len(p) = need
      /\ \A up : Walks(up, leaf, p, below, need) => up[need] = SubtreeRoot(log, lo, n)
  BY DEF PathHolds
<1>2. Agree(p, rights, below)
  BY <1>1 DEF Agree
<1> HIDE DEF p, rights, below, leaf, need
<1>3. Append(p, r) \in Seq(H) /\ Len(Append(p, r)) = need + 1
  BY <1>1
<1>4. ASSUME NEW up, Walks(up, leaf, Append(p, r), rights, need + 1)
      PROVE up[need + 1] = SubtreeRoot(log, from, k)
  <2>1. Walks(up, leaf, Append(p, r), rights, Len(p) + 1)
    BY <1>1, <1>4
  <2>2. PICK low : Walks(low, leaf, p, below, Len(p)) /\ Tops(up, low, p, r, rights)
    BY <1>1, <1>2, <2>1, WalkOfOneMore, Zenon
  <2>3. low[need] = SubtreeRoot(log, lo, n)
    BY <1>1, <2>2
  <2>4. NeedsHashes(index - from, k) = need + 1
    BY DEF need
  <2> QED BY <1>1, <2>2, <2>3, <2>4 DEF rights, Tops
<1> QED BY <1>3, <1>4 DEF PathHolds, p, need, rights, leaf

\* One step of the recursion over the size of a subtree.
LEMMA PathHoldsByHalves ==
  ASSUME NEW log, Len(log) \in Nat, NEW H, Subtrees(log) \subseteq H,
         NEW k \in 2 .. Len(log), NEW from \in 0 .. Len(log) - k, NEW index \in from .. from + k - 1,
         index < from + Split(k) => PathHolds(log, H, index, from, Split(k)),
         ~(index < from + Split(k)) => PathHolds(log, H, index, from + Split(k), k - Split(k))
  PROVE PathHolds(log, H, index, from, k)
<1>1. PICK m \in Nat : Split(k) = TwoTo(m) /\ TwoTo(m) < k /\ k <= TwoTo(m + 1)
  BY SplitIs
<1> DEFINE left == Split(k)
           mid == from + left
           i == index - from
<1>2. /\ left \in Nat /\ left > 0 /\ left < k /\ mid \in Nat /\ k - left \in Nat
      /\ k - left > 0 /\ k - left <= left /\ i \in Nat /\ i < k
      /\ k >= 2 /\ k \in 0 .. Len(log)
  <2>1. left \in Nat /\ left > 0 /\ left < k /\ k <= 2 * left
    BY <1>1, TwoToIs
  <2> HIDE DEF left
  <2> QED BY <2>1
<1>3. SubtreeRoot(log, from, k)
        = HashChildren(SubtreeRoot(log, from, left), SubtreeRoot(log, mid, k - left))
  BY <1>2, SubtreeRootIs
<1>4. SubtreeRoot(log, from, left) \in H /\ SubtreeRoot(log, mid, k - left) \in H
  <2>1. from \in 0 .. Len(log) /\ left \in 0 .. Len(log) /\ mid \in 0 .. Len(log)
        /\ k - left \in 0 .. Len(log)
    BY <1>2
  <2> QED BY <2>1, IsASubtree
<1> HIDE DEF mid, i, left
<1>5. CASE index < mid
  <2>1. PathTo(log, index, from, k)
          = Append(PathTo(log, index, from, left), SubtreeRoot(log, mid, k - left))
    BY <1>2, <1>5, PathIs DEF mid, left
  <2>2. i < TwoTo(m)
    BY <1>1, <1>2, <1>5 DEF i, mid, left
  <2>3. /\ NeedsHashes(i, TwoTo(m)) \in Nat
        /\ NeedsHashes(i, k) = NeedsHashes(i, TwoTo(m)) + 1
        /\ NeedsHashes(i, k) \in Rights(i, Inner(i, k))
        /\ \A j \in 1 .. NeedsHashes(i, TwoTo(m)) :
             j \in Rights(i, Inner(i, k)) <=> j \in Rights(i, Inner(i, TwoTo(m)))
    BY <1>1, <1>2, <2>2, TurnLeft
  <2>4. PathHolds(log, H, index, from, left)
    BY <1>5 DEF left, mid
  <2>5. TwoTo(m) = left
    BY <1>1 DEF left
  <2> QED BY <1>3, <1>4, <2>1, <2>3, <2>4, <2>5, PathExtends DEF i
<1>6. CASE ~(index < mid)
  <2> DEFINE ii == index - mid
             n == k - left
  <2>1. PathTo(log, index, from, k)
          = Append(PathTo(log, index, mid, n), SubtreeRoot(log, from, left))
    BY <1>2, <1>6, PathIs DEF mid, left
  <2>2. ii \in Nat /\ n \in Nat /\ n > 0 /\ n <= left /\ ii < n /\ left + ii = i /\ left + n = k
    BY <1>2, <1>6 DEF mid, i
  <2> HIDE DEF ii, n
  <2>3. TwoTo(m) = left
    BY <1>1 DEF left
  <2>4. /\ NeedsHashes(ii, n) \in Nat
        /\ NeedsHashes(left + ii, left + n) = NeedsHashes(ii, n) + 1
        /\ NeedsHashes(left + ii, left + n) \notin Rights(left + ii, Inner(left + ii, left + n))
        /\ \A j \in 1 .. NeedsHashes(ii, n) :
             j \in Rights(left + ii, Inner(left + ii, left + n)) <=> j \in Rights(ii, Inner(ii, n))
    BY <2>2, <2>3, TurnRight
  <2>5. PathHolds(log, H, index, mid, n)
    BY <1>6 DEF left, mid, n
  <2>6. SubtreeRoot(log, from, k) = HashChildren(SubtreeRoot(log, from, left), SubtreeRoot(log, mid, n))
    BY <1>3 DEF n
  <2>7. /\ NeedsHashes(i, k) = NeedsHashes(ii, n) + 1
        /\ NeedsHashes(i, k) \notin Rights(i, Inner(i, k))
        /\ \A j \in 1 .. NeedsHashes(ii, n) :
             j \in Rights(i, Inner(i, k)) <=> j \in Rights(ii, Inner(ii, n))
    BY <2>2, <2>4
  <2> QED BY <1>4, <2>1, <2>4, <2>5, <2>6, <2>7, PathExtends DEF i, ii
<1> QED BY <1>5, <1>6

\* So it is for every subtree.
LEMMA PathHoldsAnywhere ==
  ASSUME NEW log, Len(log) \in Nat, NEW H, Subtrees(log) \subseteq H,
         NEW k \in 1 .. Len(log), NEW from \in 0 .. Len(log) - k, NEW index \in from .. from + k - 1
  PROVE PathHolds(log, H, index, from, k)
<1> DEFINE C(c) == \A a \in 0 .. Len(log) - c : \A x \in a .. a + c - 1 : PathHolds(log, H, x, a, c)
           P == {n \in Nat : \A c \in 1 .. n : c <= Len(log) => C(c)}
<1>1. 0 \in P
  OBVIOUS
<1>2. ASSUME NEW n \in Nat, n \in P PROVE n + 1 \in P
  <2> SUFFICES ASSUME NEW c \in 1 .. n + 1, c <= Len(log),
                      NEW a \in 0 .. Len(log) - c, NEW x \in a .. a + c - 1
               PROVE PathHolds(log, H, x, a, c)
    OBVIOUS
  <2>1. CASE c = 1
    <3>1. x = a /\ a \in 0 .. Len(log) - 1 /\ 1 <= Len(log)
      BY <2>1
    <3> QED BY <2>1, <3>1, PathToOne
  <2>2. CASE c >= 2
    <3>1. Split(c) \in 1 .. c - 1 /\ c - Split(c) \in 1 .. c - 1
      BY <2>2, HalvesAreSmaller
    <3> DEFINE s == Split(c)
    <3> HIDE DEF s
    <3>2. s \in 1 .. n /\ c - s \in 1 .. n /\ s <= Len(log) /\ c - s <= Len(log)
          /\ a \in 0 .. Len(log) - s /\ a + s \in 0 .. Len(log) - (c - s)
      BY <3>1 DEF s
    <3>3. C(s) /\ C(c - s)
      BY <1>2, <3>2
    <3>4. x < a + s => PathHolds(log, H, x, a, s)
      <4>1. x < a + s => x \in a .. a + s - 1
        BY <3>2
      <4> QED BY <3>2, <3>3, <4>1
    <3>5. ~(x < a + s) => PathHolds(log, H, x, a + s, c - s)
      <4>1. ~(x < a + s) => x \in a + s .. (a + s) + (c - s) - 1
        BY <3>2
      <4> QED BY <3>2, <3>3, <4>1
    <3>6. c \in 2 .. Len(log)
      BY <2>2
    <3> QED BY <3>4, <3>5, <3>6, PathHoldsByHalves DEF s
  <2> QED BY <2>1, <2>2
<1>3. k \in Nat /\ k \in 1 .. k /\ k <= Len(log)
  OBVIOUS
<1> HIDE DEF P
<1>4. k \in P
  BY <1>1, <1>2, <1>3, Induct
<1> QED BY <1>3, <1>4 DEF P

\* The proof a log gives of one of its entries is accepted against the log's own
\* checkpoint, whatever the size of the log and the place of the entry: the walk
\* wants as many hashes as the path has and joins each on its own side
\* (rootFromInclusionProof, internal/keyless/tlog.go, against the tree of RFC
\* 6962 as keylesstest/merkle.go builds it).
THEOREM HonestProofAccepted ==
  ASSUME NEW E, NEW log, log \in Seq(E), NEW index \in 0 .. Len(log) - 1
  PROVE ProvesInclusion([index |-> index, size |-> Len(log),
                         hashes |-> PathTo(log, index, 0, Len(log))],
                        Checkpoint(log), log[index + 1])
<1> DEFINE N == Len(log)
           h == PathTo(log, index, 0, N)
<1>1. N \in Nat /\ N > 0 /\ index \in Nat /\ index < N /\ index - 0 = index
  OBVIOUS
<1>2. PathHolds(log, Subtrees(log), index, 0, N)
  <2>1. N \in 1 .. Len(log) /\ 0 \in 0 .. Len(log) - N /\ index \in 0 .. 0 + N - 1
    BY <1>1
  <2> QED BY <1>1, <2>1, PathHoldsAnywhere
<1>3. /\ Len(h) = NeedsHashes(index, N) /\ Len(h) \in Nat
      /\ \A up : Walks(up, LeafHash(log[index + 1]), h, Rights(index, Inner(index, N)), Len(h))
                   => up[Len(h)] = SubtreeRoot(log, 0, N)
  BY <1>1, <1>2 DEF PathHolds
<1> HIDE DEF h, N
<1>4. PICK up : /\ Walks(up, LeafHash(log[index + 1]), h, Rights(index, Inner(index, N)), Len(h))
                /\ RootFromInclusionProof(index, N, LeafHash(log[index + 1]), h) = up[Len(h)]
  BY <1>3, RootIsAWalk
<1>5. RootFromInclusionProof(index, N, LeafHash(log[index + 1]), h) = SubtreeRoot(log, 0, N)
  BY <1>3, <1>4
<1>6. WellFormedProof(index, N, h)
  BY <1>1, <1>3 DEF WellFormedProof
<1> QED BY <1>5, <1>6 DEF ProvesInclusion, Checkpoint, h, N

-----------------------------------------------------------------------------
LEMMA FunctionIsSeq ==
  ASSUME NEW S, NEW n \in Nat, NEW s \in [1 .. n -> S]
  PROVE s \in Seq(S)
BY SeqDef

\* The hashes a log has to offer.
LEMMA OffersHashes ==
  ASSUME NEW E, NEW log, log \in Seq(E), Len(log) > 0, NEW index, NEW size,
         NEW proof \in OfferedProofs(log, index, size)
  PROVE /\ proof.index = index /\ proof.size = size
        /\ proof.hashes \in Seq(Subtrees(log) \cup {LeafHash(log[1])})
<1> DEFINE N == Len(log)
           H == Subtrees(log) \cup {LeafHash(log[1])}
           paths == {PathTo(log, i, 0, N) : i \in 0 .. N - 1}
           cut == {Tail(p) : p \in paths \ {<<>>}} \cup {Front(p) : p \in paths \ {<<>>}}
           longer == {Append(p, LeafHash(log[1])) : p \in paths}
<1>1. N \in Nat /\ N \in 1 .. N /\ 0 \in 0 .. N - N
  BY LenProperties
<1>2. ASSUME NEW i \in 0 .. N - 1 PROVE PathTo(log, i, 0, N) \in Seq(H)
  <2>1. i \in 0 .. 0 + N - 1
    BY <1>1
  <2>2. Subtrees(log) \subseteq H
    OBVIOUS
  <2> HIDE DEF H
  <2>3. PathHolds(log, H, i, 0, N)
    BY <1>1, <2>1, <2>2, PathHoldsAnywhere
  <2> QED BY <2>3 DEF PathHolds
<1>3. paths \subseteq Seq(H)
  BY <1>2
<1>4. PICK h \in paths \cup cut \cup longer : proof = [index |-> index, size |-> size, hashes |-> h]
  BY DEF OfferedProofs
<1> HIDE DEF paths
<1>5. LeafHash(log[1]) \in H
  OBVIOUS
<1> HIDE DEF H
<1>6. ASSUME NEW p \in Seq(H), p # <<>> PROVE Tail(p) \in Seq(H) /\ Front(p) \in Seq(H)
  <2>1. Len(p) \in Nat /\ Len(p) > 0
    BY <1>6
  <2>2. Front(p) \in Seq(H)
    BY <2>1 DEF Front
  <2> QED BY <1>6, <2>2
<1>7. cut \subseteq Seq(H)
  BY <1>3, <1>6
<1>8. longer \subseteq Seq(H)
  BY <1>3, <1>5
<1>9. h \in Seq(H)
  BY <1>3, <1>7, <1>8
<1> QED BY <1>4, <1>9 DEF H

\* Of everything a log can offer under an index and a size, own proofs cut short
\* and made longer included, the walk accepts the log's own proof of the entry
\* at that index and nothing else (rootFromInclusionProof,
\* internal/keyless/tlog.go), whatever the size of the log and whatever it holds.
THEOREM OnlyItsOwnProof ==
  ASSUME NEW E, NEW log, log \in Seq(E), Len(log) > 0,
         NEW index \in Nat, NEW size, NEW proof \in OfferedProofs(log, index, size), NEW entry
  PROVE ProvesInclusion(proof, Checkpoint(log), entry) <=>
          /\ size = Len(log) /\ index < Len(log) /\ entry = log[index + 1]
          /\ proof.hashes = PathTo(log, index, 0, Len(log))
<1> DEFINE N == Len(log)
           H == Subtrees(log) \cup {LeafHash(log[1])}
           own == [index |-> index, size |-> N, hashes |-> PathTo(log, index, 0, N)]
<1>1. N \in Nat /\ Checkpoint(log).size = N
  BY DEF Checkpoint
<1>2. proof.index = index /\ proof.size = size /\ proof.hashes \in Seq(H)
  BY OffersHashes
<1>3. ASSUME index < N
      PROVE ProvesInclusion(own, Checkpoint(log), log[index + 1]) /\ own.hashes \in Seq(H)
  <2>1. index \in 0 .. N - 1 /\ index \in 0 .. 0 + N - 1 /\ N \in 1 .. N /\ 0 \in 0 .. N - N
    BY <1>1, <1>3
  <2>2. ProvesInclusion(own, Checkpoint(log), log[index + 1])
    BY <2>1, HonestProofAccepted
  <2>3. Subtrees(log) \subseteq H
    OBVIOUS
  <2> HIDE DEF H
  <2>4. PathHolds(log, H, index, 0, N)
    BY <1>1, <2>1, <2>3, PathHoldsAnywhere
  <2> QED BY <2>2, <2>4 DEF PathHolds
<1>4. own.index = index /\ own.size = N /\ own.hashes = PathTo(log, index, 0, N)
  OBVIOUS
<1> HIDE DEF own, H
<1>5. ASSUME ProvesInclusion(proof, Checkpoint(log), entry)
      PROVE /\ size = N /\ index < N /\ entry = log[index + 1]
            /\ proof.hashes = PathTo(log, index, 0, N)
  <2>1. size = N /\ index < N
    BY <1>1, <1>2, <1>5 DEF ProvesInclusion, WellFormedProof
  <2>2. ProvesInclusion(own, Checkpoint(log), log[index + 1]) /\ own.hashes \in Seq(H)
    BY <1>3, <2>1
  <2>3. proof.index = own.index
    BY <1>2, <1>4
  <2>4. entry = log[index + 1] /\ proof.hashes = own.hashes
    BY <1>2, <1>5, <2>2, <2>3, OneEntryPerPlace
  <2> QED BY <1>4, <2>1, <2>4
<1>6. ASSUME size = N, index < N, entry = log[index + 1],
             proof.hashes = PathTo(log, index, 0, N)
      PROVE ProvesInclusion(proof, Checkpoint(log), entry)
  <2>1. ProvesInclusion(own, Checkpoint(log), entry)
    BY <1>3, <1>6
  <2>2. proof.index = own.index /\ proof.size = own.size /\ proof.hashes = own.hashes
    BY <1>2, <1>4, <1>6
  <2> HIDE DEF N
  <2> QED BY <2>1, <2>2 DEF ProvesInclusion
<1> QED BY <1>5, <1>6

\* So for every log the question is put to, however long: the walk accepts the
\* proof of an entry at its own index and nothing else (rootFromInclusionProof,
\* internal/keyless/tlog.go).
THEOREM ProofIsOfItsEntry ==
  ASSUME AsksFor("proof") => route[2] \in Nat \ {0}
  PROVE InclusionProofSound
<1> DEFINE n == route[2]
           log == [i \in 1 .. n |-> i]
<1> SUFFICES ASSUME AsksFor("proof"), NEW index \in 0 .. n, NEW size \in n - 1 .. n + 1,
                    NEW proof \in OfferedProofs(log, index, size), NEW entry \in 1 .. n
             PROVE ProvesInclusion(proof, Checkpoint(log), entry) <=>
                     /\ size = n /\ entry = index + 1
                     /\ proof.hashes = PathTo(log, index, 0, n)
  BY DEF InclusionProofSound
<1>1. n \in Nat /\ n > 0
  OBVIOUS
<1> HIDE DEF n
<1>2. log \in [1 .. n -> Nat]
  BY <1>1
<1>3. log \in Seq(Nat)
  BY <1>1, <1>2, FunctionIsSeq
<1>4. Len(log) = n /\ \A i \in 1 .. n : log[i] = i
  <2>1. DOMAIN log = 1 .. n
    OBVIOUS
  <2>2. DOMAIN log = 1 .. Len(log) /\ Len(log) \in Nat
    BY <1>3, LenProperties
  <2> HIDE DEF log
  <2>3. Len(log) = n
    BY <1>1, <2>1, <2>2
  <2> QED BY <2>3 DEF log
<1> HIDE DEF log
<1>5. index \in Nat
  BY <1>1
<1>6. ProvesInclusion(proof, Checkpoint(log), entry) <=>
        /\ size = n /\ index < n /\ entry = log[index + 1]
        /\ proof.hashes = PathTo(log, index, 0, n)
  BY <1>1, <1>3, <1>4, <1>5, OnlyItsOwnProof
<1>7. (index < n /\ entry = log[index + 1]) <=> entry = index + 1
  <2>1. index < n => index + 1 \in 1 .. n
    BY <1>1, <1>5
  <2>2. entry = index + 1 => index < n
    BY <1>1, <1>5
  <2> QED BY <1>4, <2>1, <2>2
<1> QED BY <1>6, <1>7

-----------------------------------------------------------------------------
(* Records against layers.                                                 *)

\* Where a record stands among the first n.
Occurs(s, n, r) == {i \in 1 .. n : s[i] = r}

LEMMA OccursIsFinite ==
  ASSUME NEW s, NEW n \in Nat, NEW r
  PROVE IsFiniteSet(Occurs(s, n, r)) /\ Cardinality(Occurs(s, n, r)) \in Nat
<1>1. IsFiniteSet(1 .. n)
  BY FS_Interval
<1>2. Occurs(s, n, r) \in SUBSET (1 .. n)
  BY DEF Occurs
<1>3. IsFiniteSet(Occurs(s, n, r))
  BY <1>1, <1>2, FS_Subset
<1> QED BY <1>3, FS_CardinalityType

LEMMA OccursGrows ==
  ASSUME NEW s, NEW n \in Nat, NEW r
  PROVE Cardinality(Occurs(s, n + 1, r))
          = Cardinality(Occurs(s, n, r)) + (IF s[n + 1] = r THEN 1 ELSE 0)
<1>1. CASE s[n + 1] = r
  <2>1. Occurs(s, n + 1, r) = Occurs(s, n, r) \cup {n + 1} /\ n + 1 \notin Occurs(s, n, r)
    BY <1>1 DEF Occurs
  <2>2. Cardinality(Occurs(s, n, r) \cup {n + 1}) = Cardinality(Occurs(s, n, r)) + 1
    BY <2>1, OccursIsFinite, FS_AddElement
  <2> QED BY <1>1, <2>1, <2>2
<1>2. CASE s[n + 1] # r
  <2>1. Occurs(s, n + 1, r) = Occurs(s, n, r)
    BY <1>2 DEF Occurs
  <2> QED BY <1>2, <2>1, OccursIsFinite
<1> QED BY <1>1, <1>2

LEMMA OccursNever ==
  ASSUME NEW s, NEW n \in Nat, NEW r
  PROVE Cardinality(Occurs(s, n, r)) = 0 <=> \A i \in 1 .. n : s[i] # r
<1>1. Cardinality(Occurs(s, n, r)) = 0 <=> Occurs(s, n, r) = {}
  BY OccursIsFinite, FS_EmptySet
<1> QED BY <1>1 DEF Occurs

LEMMA CountIsOccurs ==
  ASSUME NEW R, NEW s \in Seq(R), NEW r
  PROVE Count(s, r) = Cardinality(Occurs(s, Len(s), r))
<1>1. DOMAIN s = 1 .. Len(s)
  BY LenProperties
<1>2. {i \in DOMAIN s : s[i] = r} = Occurs(s, Len(s), r)
  BY <1>1 DEF Occurs
<1> QED BY <1>2 DEF Count

\* The marking off, n records on.
Marks(after, left, records, n) ==
  after = [k \in 0 .. n |-> IF k = 0 THEN [ok |-> TRUE, left |-> left]
                            ELSE TakeOne(after[k - 1], records[k])]

LEMMA MarksExist ==
  ASSUME NEW N \in Nat, NEW left, NEW records
  PROVE \E after : Marks(after, left, records, N)
<1> DEFINE P == {n \in Nat : \E after : Marks(after, left, records, n)}
           start == [ok |-> TRUE, left |-> left]
<1>1. 0 \in P
  <2>1. Marks([k \in 0 .. 0 |-> start], left, records, 0)
    BY DEF Marks
  <2> QED BY <2>1
<1>2. ASSUME NEW n \in Nat, n \in P PROVE n + 1 \in P
  <2>1. PICK after : Marks(after, left, records, n)
    BY <1>2
  <2> DEFINE next == [k \in 0 .. n + 1 |->
                        IF k <= n THEN after[k] ELSE TakeOne(after[k - 1], records[k])]
  <2>2. ASSUME NEW k \in 0 .. n + 1
        PROVE next[k] = IF k = 0 THEN start ELSE TakeOne(next[k - 1], records[k])
    <3> HIDE DEF start
    <3>1. CASE k = 0
      BY <2>1, <3>1 DEF Marks, start
    <3>2. CASE k # 0
      <4>1. k - 1 \in 0 .. n /\ next[k - 1] = after[k - 1]
        BY <3>2
      <4>2. CASE k <= n
        <5>1. k \in 0 .. n /\ next[k] = after[k]
          BY <4>2
        <5>2. after[k] = TakeOne(after[k - 1], records[k])
          BY <2>1, <3>2, <5>1 DEF Marks
        <5> QED BY <3>2, <4>1, <5>1, <5>2
      <4>3. CASE ~(k <= n)
        BY <3>2, <4>1, <4>3
      <4> QED BY <4>2, <4>3
    <3> QED BY <3>1, <3>2
  <2>3. next = [k \in 0 .. n + 1 |-> next[k]]
    OBVIOUS
  <2> HIDE DEF next
  <2>4. Marks(next, left, records, n + 1)
    BY <2>2, <2>3 DEF Marks
  <2> QED BY <2>4
<1> HIDE DEF P
<1>3. N \in P
  BY <1>1, <1>2, Induct
<1> QED BY <1>3 DEF P

LEMMA TakenMarks ==
  ASSUME NEW records, Len(records) \in Nat, NEW left
  PROVE \E after : /\ Marks(after, left, records, Len(records))
                   /\ Taken(left, records) = after[Len(records)]
<1> DEFINE after[n \in 0 .. Len(records)] ==
             IF n = 0 THEN [ok |-> TRUE, left |-> left] ELSE TakeOne(after[n - 1], records[n])
<1>1. PICK g : Marks(g, left, records, Len(records))
  BY MarksExist
<1>2. g = [n \in 0 .. Len(records) |->
             IF n = 0 THEN [ok |-> TRUE, left |-> left] ELSE TakeOne(g[n - 1], records[n])]
  BY <1>1 DEF Marks
<1>3. after = [n \in 0 .. Len(records) |->
             IF n = 0 THEN [ok |-> TRUE, left |-> left] ELSE TakeOne(after[n - 1], records[n])]
  BY <1>2
<1>4. Taken(left, records) = after[Len(records)]
  BY DEF Taken
<1> HIDE DEF after
<1>5. Marks(after, left, records, Len(records))
  BY <1>3 DEF Marks
<1> QED BY <1>4, <1>5

LEMMA MarksAt ==
  ASSUME NEW n \in Nat, NEW after, NEW left, NEW records, Marks(after, left, records, n)
  PROVE /\ after[0] = [ok |-> TRUE, left |-> left]
        /\ \A k \in 0 .. n - 1 : after[k + 1] = TakeOne(after[k], records[k + 1])
BY DEF Marks

\* How many layers there were of a record.
Given(left, r) == IF r \in DOMAIN left THEN left[r] ELSE 0

\* What is known n records on: while every record found a layer, what is left
\* and what was taken add up; once one did not, some record is offered more
\* often than there are layers of it.

Tally(was, left, records, n) ==
  /\ was = [ok |-> was.ok, left |-> was.left] /\ was.ok \in BOOLEAN
  /\ was.ok =>
       /\ was.left \in [DOMAIN left -> Nat]
       /\ \A i \in 1 .. n : records[i] \in DOMAIN left
       /\ \A r \in DOMAIN left : was.left[r] + Cardinality(Occurs(records, n, r)) = left[r]
  /\ ~was.ok => \E r : Cardinality(Occurs(records, n, r)) > Given(left, r)

LEMMA TallyStarts ==
  ASSUME NEW D, NEW left \in [D -> Nat], NEW records
  PROVE Tally([ok |-> TRUE, left |-> left], left, records, 0)
<1>1. ASSUME NEW r PROVE Cardinality(Occurs(records, 0, r)) = 0
  <2>1. \A i \in 1 .. 0 : records[i] # r
    OBVIOUS
  <2> QED BY <2>1, OccursNever
<1>2. \A r \in D : left[r] \in Nat /\ left[r] + 0 = left[r]
  OBVIOUS
<1> QED BY <1>1, <1>2 DEF Tally

LEMMA TallyGoesOn ==
  ASSUME NEW D, NEW left \in [D -> Nat], NEW records, NEW n \in Nat, NEW was,
         Tally(was, left, records, n)
  PROVE Tally(TakeOne(was, records[n + 1]), left, records, n + 1)
<1> DEFINE record == records[n + 1]
           now == TakeOne(was, record)
           before(r) == Cardinality(Occurs(records, n, r))
           after(r) == Cardinality(Occurs(records, n + 1, r))
<1>1. was = [ok |-> was.ok, left |-> was.left] /\ was.ok \in BOOLEAN
  BY DEF Tally
<1>2. ASSUME NEW r
      PROVE before(r) \in Nat /\ after(r) = before(r) + (IF record = r THEN 1 ELSE 0)
  BY OccursIsFinite, OccursGrows
<1>3. ASSUME was.ok, record \in D, was.left[record] > 0
      PROVE Tally(now, left, records, n + 1)
  <2>1. now = [ok |-> TRUE, left |-> [was.left EXCEPT ![record] = @ - 1]]
    BY <1>1, <1>3 DEF Tally, TakeOne
  <2>2. /\ was.left \in [D -> Nat]
        /\ \A i \in 1 .. n : records[i] \in D
        /\ \A r \in D : was.left[r] + before(r) = left[r]
    BY <1>3 DEF Tally
  <2>3. now.left \in [D -> Nat]
    BY <1>3, <2>1, <2>2
  <2>4. \A i \in 1 .. n + 1 : records[i] \in D
    BY <1>3, <2>2
  <2>5. ASSUME NEW r \in D PROVE now.left[r] + after(r) = left[r]
    <3>1. was.left[r] \in Nat /\ before(r) \in Nat /\ was.left[r] + before(r) = left[r]
      BY <1>2, <2>2
    <3> HIDE DEF before, after, now, record
    <3>2. CASE r = record
      <4>1. now.left[r] = was.left[r] - 1 /\ after(r) = before(r) + 1
        BY <1>2, <2>1, <2>2, <3>2
      <4> QED BY <3>1, <4>1
    <3>3. CASE r # record
      <4>1. now.left[r] = was.left[r] /\ after(r) = before(r) + 0
        BY <1>2, <2>1, <2>2, <3>3
      <4> QED BY <3>1, <4>1
    <3> QED BY <3>2, <3>3
  <2>6. now = [ok |-> now.ok, left |-> now.left] /\ now.ok = TRUE
    BY <2>1
  <2> HIDE DEF now
  <2> QED BY <2>3, <2>4, <2>5, <2>6 DEF Tally
<1>4. ASSUME ~was.ok \/ record \notin D \/ ~(was.left[record] > 0)
      PROVE Tally(now, left, records, n + 1)
  <2>1. ~(was.ok /\ record \in D /\ was.left[record] > 0)
    BY <1>4
  <2>2. ~(was.ok /\ record \in DOMAIN was.left /\ was.left[record] > 0)
    <3>1. CASE was.ok
      <4>1. was.left \in [D -> Nat]
        BY <3>1 DEF Tally
      <4> QED BY <2>1, <4>1
    <3> QED BY <3>1
  <2>3. now = [was EXCEPT !.ok = FALSE]
    BY <2>2 DEF TakeOne
  <2>4. now = [ok |-> FALSE, left |-> was.left]
    BY <1>1, <2>3
  <2>5. \E r : after(r) > Given(left, r)
    <3>1. CASE ~was.ok
      <4>1. PICK r : before(r) > Given(left, r)
        BY <3>1 DEF Tally
      <4>2. Given(left, r) \in Nat
        BY DEF Given
      <4>3. before(r) \in Nat /\ (after(r) = before(r) + 1 \/ after(r) = before(r) + 0)
        BY <1>2
      <4> HIDE DEF before, after
      <4>4. after(r) > Given(left, r)
        BY <4>1, <4>2, <4>3
      <4> QED BY <4>4
    <3>2. CASE was.ok /\ record \notin D
      <4>1. Given(left, record) = 0
        BY <3>2 DEF Given
      <4>2. before(record) \in Nat /\ after(record) = before(record) + 1
        BY <1>2
      <4> HIDE DEF before, after
      <4>3. after(record) > Given(left, record)
        BY <4>1, <4>2
      <4> QED BY <4>3
    <3>3. CASE was.ok /\ record \in D /\ ~(was.left[record] > 0)
      <4>1. was.left[record] \in Nat /\ was.left[record] + before(record) = left[record]
        BY <3>3 DEF Tally
      <4>2. Given(left, record) = left[record]
        BY <3>3 DEF Given
      <4>3. before(record) \in Nat /\ after(record) = before(record) + 1
        BY <1>2
      <4> HIDE DEF before, after
      <4>4. after(record) > Given(left, record)
        BY <3>3, <4>1, <4>2, <4>3
      <4> QED BY <4>4
    <3> QED BY <1>4, <3>1, <3>2, <3>3
  <2>6. now = [ok |-> now.ok, left |-> now.left] /\ now.ok = FALSE
    BY <2>4
  <2> HIDE DEF now
  <2> QED BY <2>5, <2>6 DEF Tally
<1> QED BY <1>3, <1>4

LEMMA TakenTallies ==
  ASSUME NEW R, NEW records \in Seq(R), NEW D, NEW left \in [D -> Nat]
  PROVE Tally(Taken(left, records), left, records, Len(records))
<1> DEFINE N == Len(records)
<1>1. N \in Nat
  BY LenProperties
<1>2. PICK after : Marks(after, left, records, N) /\ Taken(left, records) = after[N]
  BY <1>1, TakenMarks
<1> HIDE DEF N
<1>3. /\ after[0] = [ok |-> TRUE, left |-> left]
      /\ \A k \in 0 .. N - 1 : after[k + 1] = TakeOne(after[k], records[k + 1])
  BY <1>1, <1>2, MarksAt
<1> DEFINE P == {k \in Nat : k <= N => Tally(after[k], left, records, k)}
<1>4. 0 \in P
  BY <1>3, TallyStarts
<1>5. ASSUME NEW k \in Nat, k \in P PROVE k + 1 \in P
  <2>1. SUFFICES ASSUME k + 1 <= N PROVE Tally(after[k + 1], left, records, k + 1)
    OBVIOUS
  <2>2. k \in 0 .. N - 1 /\ Tally(after[k], left, records, k)
    BY <1>1, <1>5, <2>1
  <2>3. after[k + 1] = TakeOne(after[k], records[k + 1])
    BY <1>3, <2>2
  <2> QED BY <2>2, <2>3, TallyGoesOn
<1> HIDE DEF P
<1>6. N \in P
  BY <1>1, <1>4, <1>5, Induct
<1> QED BY <1>1, <1>2, <1>6 DEF P, N

\* The count says it: every record and every layer is accounted for just when
\* each is there as often as the other.
LEMMA AccountedCounts ==
  ASSUME NEW R, NEW records \in Seq(R), NEW want \in Seq(R)
  PROVE Accounted(records, want) <=> \A r : Count(records, r) = Count(want, r)
<1> DEFINE D == ToSet(want)
           left == [r \in D |-> Count(want, r)]
           taken == Taken(left, records)
           has(r) == Cardinality(Occurs(records, Len(records), r))
<1>1. \A r : Count(want, r) \in Nat /\ (r \notin D => Count(want, r) = 0)
  <2> SUFFICES ASSUME NEW r PROVE Count(want, r) \in Nat /\ (r \notin D => Count(want, r) = 0)
    OBVIOUS
  <2>1. Len(want) \in Nat /\ DOMAIN want = 1 .. Len(want)
    BY LenProperties
  <2>2. Count(want, r) = Cardinality(Occurs(want, Len(want), r))
    BY CountIsOccurs
  <2>3. r \notin D => \A i \in 1 .. Len(want) : want[i] # r
    BY <2>1 DEF ToSet
  <2> QED BY <2>1, <2>2, <2>3, OccursIsFinite, OccursNever
<1>2. \A r : Count(records, r) = has(r)
  BY CountIsOccurs
<1>3. left \in [D -> Nat]
  BY <1>1
<1>4. \A r : Given(left, r) = Count(want, r)
  BY <1>1 DEF Given
<1>5. Tally(taken, left, records, Len(records))
  BY <1>3, TakenTallies
<1>6. Accounted(records, want)
        <=> taken.ok /\ \A r \in DOMAIN taken.left : taken.left[r] = 0
  BY DEF Accounted
<1>7. \A r : has(r) \in Nat
  <2>1. Len(records) \in Nat
    BY LenProperties
  <2> QED BY <2>1, OccursIsFinite
<1> HIDE DEF left, taken, has
<1>8. ASSUME ~taken.ok PROVE \E r : Count(records, r) # Count(want, r)
  <2>1. PICK r : has(r) > Given(left, r)
    BY <1>5, <1>8 DEF Tally, has
  <2>2. has(r) # Given(left, r)
    BY <1>1, <1>4, <1>7, <2>1
  <2> QED BY <1>2, <1>4, <2>2
<1>9. ASSUME taken.ok
      PROVE (\A r \in DOMAIN taken.left : taken.left[r] = 0)
              <=> \A r : Count(records, r) = Count(want, r)
  <2>1. DOMAIN left = D
    BY DEF left
  <2>2. /\ taken.left \in [D -> Nat]
        /\ \A i \in 1 .. Len(records) : records[i] \in D
        /\ \A r \in D : taken.left[r] + has(r) = left[r]
    BY <1>5, <1>9, <2>1 DEF Tally, has
  <2>3. \A r : r \notin D => has(r) = 0
    <3> SUFFICES ASSUME NEW r, r \notin D PROVE has(r) = 0
      OBVIOUS
    <3>1. Len(records) \in Nat
      BY LenProperties
    <3>2. \A i \in 1 .. Len(records) : records[i] # r
      BY <2>2
    <3> QED BY <3>1, <3>2, OccursNever DEF has
  <2>4. \A r \in D : taken.left[r] = 0 <=> has(r) = left[r]
    <3> SUFFICES ASSUME NEW r \in D PROVE taken.left[r] = 0 <=> has(r) = left[r]
      OBVIOUS
    <3>1. taken.left[r] \in Nat /\ has(r) \in Nat /\ taken.left[r] + has(r) = left[r]
      BY <1>7, <2>2
    <3> QED BY <3>1
  <2>5. \A r \in D : left[r] = Count(want, r)
    BY DEF left
  <2>6. DOMAIN taken.left = D
    BY <2>2
  <2> QED BY <1>1, <1>2, <2>3, <2>4, <2>5, <2>6
<1> QED BY <1>6, <1>8, <1>9

\* A deal gives every record a layer of its own, and the same one.
HandsOut(deal, s, n, t, m) ==
  /\ deal \in [1 .. n -> 1 .. m]
  /\ \A i, j \in 1 .. n : deal[i] = deal[j] => i = j
  /\ \A i \in 1 .. n : s[i] = t[deal[i]]

LEMMA DealFits ==
  ASSUME NEW s, NEW n \in Nat, NEW t, NEW m \in Nat, NEW deal, HandsOut(deal, s, n, t, m)
  PROVE n <= m /\ (n = m => \A k \in 1 .. m : \E i \in 1 .. n : deal[i] = k)
<1>1. deal \in Injection(1 .. n, 1 .. m)
  BY DEF HandsOut, Injection, IsInjective
<1>2. /\ IsFiniteSet(1 .. n) /\ Cardinality(1 .. n) = n
      /\ IsFiniteSet(1 .. m) /\ Cardinality(1 .. m) = m
  <2>1. ASSUME NEW k \in Nat PROVE IsFiniteSet(1 .. k) /\ Cardinality(1 .. k) = k
    <3>1. 1 \in Int /\ k \in Int /\ (IF 1 > k THEN 0 ELSE k - 1 + 1) = k
      OBVIOUS
    <3> QED BY <3>1, FS_Interval
  <2> QED BY <2>1
<1>3. /\ Cardinality(1 .. n) <= Cardinality(1 .. m)
      /\ Cardinality(1 .. n) = Cardinality(1 .. m) <=> deal \in Surjection(1 .. n, 1 .. m)
  BY <1>1, <1>2, FS_Injection
<1> QED BY <1>2, <1>3 DEF Surjection

LEMMA EqualCountsDeal ==
  ASSUME NEW s, NEW n \in Nat, NEW t, NEW m \in Nat,
         \A r : Cardinality(Occurs(s, n, r)) = Cardinality(Occurs(t, m, r))
  PROVE \E deal : HandsOut(deal, s, n, t, m)
<1> DEFINE Pairing(r) == CHOOSE f : f \in Bijection(Occurs(s, n, r), Occurs(t, m, r))
           deal == [i \in 1 .. n |-> Pairing(s[i])[i]]
<1>1. ASSUME NEW r
      PROVE /\ Pairing(r) \in [Occurs(s, n, r) -> Occurs(t, m, r)]
            /\ \A i, j \in Occurs(s, n, r) : Pairing(r)[i] = Pairing(r)[j] => i = j
  <2>1. ExistsBijection(Occurs(s, n, r), Occurs(t, m, r))
    BY OccursIsFinite, FS_SameCardinalityBij
  <2>2. Pairing(r) \in Bijection(Occurs(s, n, r), Occurs(t, m, r))
    BY <2>1, Zenon DEF ExistsBijection
  <2> HIDE DEF Pairing
  <2> QED BY <2>2 DEF Bijection, Injection, IsInjective
<1> HIDE DEF Pairing
<1>2. ASSUME NEW i \in 1 .. n
      PROVE deal[i] = Pairing(s[i])[i] /\ deal[i] \in 1 .. m /\ s[i] = t[deal[i]]
  <2>1. i \in Occurs(s, n, s[i])
    BY DEF Occurs
  <2>2. Pairing(s[i])[i] \in Occurs(t, m, s[i])
    BY <1>1, <2>1
  <2> QED BY <2>2 DEF Occurs
<1>3. ASSUME NEW i \in 1 .. n, NEW j \in 1 .. n, deal[i] = deal[j] PROVE i = j
  <2>1. s[i] = s[j]
    BY <1>2, <1>3
  <2>2. i \in Occurs(s, n, s[i]) /\ j \in Occurs(s, n, s[i])
    BY <2>1 DEF Occurs
  <2>3. Pairing(s[i])[i] = Pairing(s[i])[j]
    BY <1>2, <1>3, <2>1
  <2> QED BY <1>1, <2>2, <2>3
<1>4. deal \in [1 .. n -> 1 .. m]
  BY <1>2
<1> HIDE DEF deal
<1>5. HandsOut(deal, s, n, t, m)
  BY <1>2, <1>3, <1>4 DEF HandsOut
<1> QED BY <1>5

LEMMA DealIsEqualCounts ==
  ASSUME NEW s, NEW t, NEW n \in Nat, NEW deal, HandsOut(deal, s, n, t, n), NEW r
  PROVE Cardinality(Occurs(s, n, r)) = Cardinality(Occurs(t, n, r))
<1> DEFINE S == Occurs(s, n, r)
           T == Occurs(t, n, r)
           f == [i \in S |-> deal[i]]
<1>1. /\ deal \in [1 .. n -> 1 .. n]
      /\ \A i, j \in 1 .. n : deal[i] = deal[j] => i = j
      /\ \A i \in 1 .. n : s[i] = t[deal[i]]
      /\ \A k \in 1 .. n : \E i \in 1 .. n : deal[i] = k
  <2>1. \A k \in 1 .. n : \E i \in 1 .. n : deal[i] = k
    BY DealFits
  <2> QED BY <2>1 DEF HandsOut
<1>2. f \in [S -> T]
  BY <1>1 DEF Occurs
<1>3. \A i, j \in S : f[i] = f[j] => i = j
  BY <1>1 DEF Occurs
<1>4. \A k \in T : \E i \in S : f[i] = k
  <2> SUFFICES ASSUME NEW k \in T PROVE \E i \in S : f[i] = k
    OBVIOUS
  <2>1. k \in 1 .. n /\ t[k] = r
    BY DEF Occurs
  <2>2. PICK i \in 1 .. n : deal[i] = k
    BY <1>1, <2>1
  <2>3. s[i] = r
    BY <1>1, <2>1, <2>2
  <2>4. i \in S
    BY <2>3 DEF Occurs
  <2> QED BY <2>2, <2>4
<1> HIDE DEF f, S, T
<1>5. f \in Bijection(S, T)
  BY <1>2, <1>3, <1>4 DEF Bijection, Injection, Surjection, IsInjective
<1>6. ExistsBijection(S, T)
  BY <1>5 DEF ExistsBijection
<1> QED BY <1>6, OccursIsFinite, FS_Bijection DEF S, T

\* Marking records off one by one accepts exactly those lists that can be dealt
\* out to the layers, one to each and all alike: equal layers from one source are
\* told apart by their number alone, and the order is of no account
\* (attestationMatchesManifest, internal/cli/sign.go).
THEOREM AccountedIsDealtExactly ==
  ASSUME NEW R, NEW records \in Seq(R), NEW want \in Seq(R)
  PROVE Accounted(records, want) <=> DealtExactly(records, want)
<1> DEFINE n == Len(records)
           m == Len(want)
           Equal == \A r : Cardinality(Occurs(records, n, r)) = Cardinality(Occurs(want, m, r))
<1>1. /\ n \in Nat /\ DOMAIN records = 1 .. n
      /\ m \in Nat /\ DOMAIN want = 1 .. m
  BY LenProperties
<1>2. Accounted(records, want) <=> Equal
  <2>1. \A r : /\ Count(records, r) = Cardinality(Occurs(records, n, r))
               /\ Count(want, r) = Cardinality(Occurs(want, m, r))
    BY CountIsOccurs
  <2> QED BY <2>1, AccountedCounts
<1>3. DealtExactly(records, want) <=> n = m /\ \E deal : HandsOut(deal, records, n, want, m)
  BY <1>1 DEF DealtExactly, HandsOut
<1> HIDE DEF n, m
<1>4. ASSUME Equal PROVE n = m /\ \E deal : HandsOut(deal, records, n, want, m)
  <2>1. PICK deal : HandsOut(deal, records, n, want, m)
    BY <1>1, <1>4, EqualCountsDeal
  <2>2. \A r : Cardinality(Occurs(want, m, r)) = Cardinality(Occurs(records, n, r))
    BY <1>4
  <2>3. PICK back : HandsOut(back, want, m, records, n)
    BY <1>1, <2>2, EqualCountsDeal
  <2>4. n <= m /\ m <= n
    BY <1>1, <2>1, <2>3, DealFits
  <2> QED BY <1>1, <2>1, <2>4
<1>5. ASSUME n = m, NEW deal, HandsOut(deal, records, n, want, m) PROVE Equal
  <2>1. HandsOut(deal, records, n, want, n)
    BY <1>5
  <2> SUFFICES ASSUME NEW r
               PROVE Cardinality(Occurs(records, n, r)) = Cardinality(Occurs(want, m, r))
    OBVIOUS
  <2> QED BY <1>1, <1>5, <2>1, DealIsEqualCounts
<1> QED BY <1>2, <1>3, <1>4, <1>5

\* The property the run checks, for records and layers of any number and kind.
\* That the layers with a source form a sequence, SelectSeq's, is a hypothesis:
\* the provers know nothing of that operator (attestationMatchesManifest,
\* internal/cli/sign.go).
THEOREM AttestationIsExact ==
  ASSUME NEW R,
         AsksFor("layers") => /\ route[2] \in Seq(R)
                              /\ LayersFromManifest(route[3]) \in Seq(R)
  PROVE AttestationCoversExactly
<1> SUFFICES ASSUME AsksFor("layers")
             PROVE MatchesManifest(route[2], route[3]) <=> CoversExactly(route[2], route[3])
  BY DEF AttestationCoversExactly
<1>1. Accounted(route[2], LayersFromManifest(route[3]))
        <=> DealtExactly(route[2], LayersFromManifest(route[3]))
  BY AccountedIsDealtExactly
<1> QED BY <1>1 DEF MatchesManifest, CoversExactly

-----------------------------------------------------------------------------
(* The bundles, names and patterns the runs ask about.                     *)

LEMMA FiveWords ==
  ASSUME NEW S, NEW a \in S, NEW b \in S, NEW c \in S, NEW d \in S, NEW e \in S
  PROVE <<a, b, c, d, e>> \in Seq(S)
<1>1. <<a, b, c, d, e>> \in [1 .. 5 -> S]
  OBVIOUS
<1> QED BY <1>1, FunctionIsSeq

LEMMA SixWords ==
  ASSUME NEW S, NEW a \in S, NEW b \in S, NEW c \in S, NEW d \in S, NEW e \in S, NEW f \in S
  PROVE <<a, b, c, d, e, f>> \in Seq(S)
<1>1. <<a, b, c, d, e, f>> \in [1 .. 6 -> S]
  OBVIOUS
<1> QED BY <1>1, FunctionIsSeq

\* The tokens of the signers' names and of what the policy allows.
Words == {"robot", "other", "rob", "*", "@", "corp", ".", "com"}

\* So whatever is put together from the pieces of the signings a run offers is
\* accepted only as one of them (Verify, internal/keyless/verify.go).
THEOREM AcceptedIsLogged ==
  ASSUME AsksFor("bundle") => route[2] \in [Pieces -> DOMAIN Signings]
  PROVE AcceptedSignatureIsLogged
<1> DEFINE from == route[2]
           bundle == Assembled(Signings, from)
<1> SUFFICES ASSUME AsksFor("bundle"), NEW artifact,
                    VerifyBundle(bundle, artifact, PinnedRoot, Allowed)
             PROVE RecordsASigning(bundle, Signings, artifact, PinnedRoot, Allowed)
  BY DEF AcceptedSignatureIsLogged
<1>1. from.promise \in DOMAIN Signings
  BY DEF Pieces
<1>2. bundle.entries[1].promise = Promise(Signings, from.promise)
  BY DEF Assembled
<1>3. ASSUME NEW i \in DOMAIN Signings
      PROVE \E signer, start, end :
              Signings[i].cert = Certify(signer, start, end) /\ signer.name.text \in Seq(Words)
  <2>0. Name1.text \in Seq(Words) /\ Name2.text \in Seq(Words)
    BY FiveWords DEF Name1, Name2, Words
  <2>1. Robot.name = Name1 /\ Stranger.name = Name2 /\ Elsewhere.name = Name1
    BY DEF Robot, Stranger, Elsewhere, SignerOf
  <2>2. \E signer \in {Robot, Stranger, Elsewhere} : Signings[i].cert = Certify(signer, 3, 5)
    BY DEF Signings, SigningOf
  <2>3. PICK signer \in {Robot, Stranger, Elsewhere} : Signings[i].cert = Certify(signer, 3, 5)
    BY <2>2
  <2>4. signer.name.text \in Seq(Words)
    BY <2>0, <2>1
  <2> QED BY <2>3, <2>4
<1>4. \A id \in Allowed : id.subject \in Seq(Words)
  <2>1. \A id \in Allowed : id.subject \in {<<"rob", "*", "@", "corp", ".", "com">>, Name1.text}
    BY DEF Allowed
  <2>2. Name1.text \in Seq(Words) /\ <<"rob", "*", "@", "corp", ".", "com">> \in Seq(Words)
    BY FiveWords, SixWords DEF Name1, Words
  <2> QED BY <2>1, <2>2
<1> HIDE DEF bundle, from
<1> QED BY <1>1, <1>2, <1>3, <1>4, AcceptedIsASigning

-----------------------------------------------------------------------------
(* Texts put together.                                                     *)

LEMMA SingleIs ==
  ASSUME NEW T, NEW c \in T
  PROVE <<c>> \in Seq(T) /\ Len(<<c>>) = 1 /\ <<c>>[1] = c
OBVIOUS

LEMMA PairIs ==
  ASSUME NEW T, NEW a \in T, NEW b \in T
  PROVE <<a, b>> = <<a>> \o <<b>>
<1>1. <<a, b>> \in Seq(T) /\ Len(<<a, b>>) = 2 /\ <<a, b>>[1] = a /\ <<a, b>>[2] = b
  OBVIOUS
<1>2. <<a>> \in Seq(T) /\ Len(<<a>>) = 1 /\ <<a>>[1] = a
  OBVIOUS
<1>3. <<b>> \in Seq(T) /\ Len(<<b>>) = 1 /\ <<b>>[1] = b
  OBVIOUS
<1> DEFINE u == <<a>>
           v == <<b>>
           w == <<a, b>>
<1> HIDE DEF u, v, w
<1>4. u \o v \in Seq(T) /\ Len(u \o v) = 2 /\ (u \o v)[1] = a /\ (u \o v)[2] = b
  <2>1. /\ u \o v \in Seq(T) /\ Len(u \o v) = 1 + 1
        /\ \A i \in 1 .. 1 + 1 : (u \o v)[i] = IF i <= 1 THEN u[i] ELSE v[i - 1]
    BY <1>2, <1>3, ConcatProperties DEF u, v
  <2> QED BY <1>2, <1>3, <2>1 DEF u, v
<1>5. \A i \in 1 .. 2 : w[i] = (u \o v)[i]
  <2> SUFFICES ASSUME NEW i \in 1 .. 2 PROVE w[i] = (u \o v)[i]
    OBVIOUS
  <2>1. i = 1 \/ i = 2
    OBVIOUS
  <2> QED BY <1>1, <1>4, <2>1 DEF w
<1> QED BY <1>1, <1>4, <1>5, SeqEqual DEF u, v, w

\* One text behind another.
Joins(T, u, v, w) ==
  /\ w \in Seq(T) /\ Len(u) \in Nat /\ Len(v) \in Nat
  /\ Len(w) = Len(u) + Len(v)
  /\ \A i \in 1 .. Len(u) : w[i] = u[i]
  /\ \A i \in 1 .. Len(v) : w[Len(u) + i] = v[i]

LEMMA CatJoins ==
  ASSUME NEW T, NEW u, u \in Seq(T), NEW v, v \in Seq(T)
  PROVE Joins(T, u, v, u \o v)
<1>1. Len(u) \in Nat /\ Len(v) \in Nat
  BY LenProperties
<1>2. /\ u \o v \in Seq(T) /\ Len(u \o v) = Len(u) + Len(v)
      /\ \A i \in 1 .. Len(u) + Len(v) :
           (u \o v)[i] = IF i <= Len(u) THEN u[i] ELSE v[i - Len(u)]
  BY ConcatProperties
<1>3. \A i \in 1 .. Len(u) : (u \o v)[i] = u[i]
  BY <1>1, <1>2
<1>4. \A i \in 1 .. Len(v) : (u \o v)[Len(u) + i] = v[i]
  BY <1>1, <1>2
<1> QED BY <1>1, <1>2, <1>3, <1>4 DEF Joins

LEMMA CutBack ==
  ASSUME NEW T, NEW u \in Seq(T), NEW v \in Seq(T)
  PROVE /\ Before(u \o v, Len(u) + 1) = u
        /\ v # <<>> => From(u \o v, Len(u) + 1) = v
<1> DEFINE w == u \o v
           n == Len(u)
           m == Len(v)
<1>1. /\ w \in Seq(T) /\ n \in Nat /\ m \in Nat /\ Len(w) = n + m
      /\ \A i \in 1 .. n : w[i] = u[i]
      /\ \A i \in 1 .. m : w[n + i] = v[i]
  BY CatJoins DEF Joins
<1> HIDE DEF w
<1>2. Before(w, n + 1) = u
  <2> HIDE DEF n, m
  <2>1. n + 1 \in 1 .. Len(w) + 1 /\ n + 1 - 1 = n
    BY <1>1
  <2>2. /\ Before(w, n + 1) \in Seq(T) /\ Len(Before(w, n + 1)) = n
        /\ \A t \in 1 .. n : Before(w, n + 1)[t] = w[t]
    BY <1>1, <2>1, BeforeIs
  <2> QED BY <1>1, <2>2, SeqEqual DEF n
<1>3. ASSUME v # <<>> PROVE From(w, n + 1) = v
  <2>1. m # 0
    BY <1>3, EmptySeq
  <2>2. CASE n = 0
    <3>1. \A t \in 1 .. m : w[t] = v[t]
      BY <1>1, <2>2
    <3>2. Len(w) = m
      BY <1>1, <2>2
    <3>3. w = v
      BY <1>1, <3>1, <3>2, SeqEqual
    <3>4. From(w, n + 1) = w
      BY <1>1, <2>2, SubSeqFull DEF From
    <3> QED BY <3>3, <3>4
  <2>3. CASE n # 0
    <3> HIDE DEF n, m
    <3>1. n \in 1 .. Len(w) /\ Len(w) - n = m
      BY <1>1, <2>3
    <3>2. /\ From(w, n + 1) \in Seq(T) /\ Len(From(w, n + 1)) = m
          /\ \A t \in 1 .. m : From(w, n + 1)[t] = w[n + t]
      BY <1>1, <3>1, FromIs
    <3> QED BY <1>1, <3>2, SeqEqual DEF m
  <2> QED BY <2>2, <2>3
<1> QED BY <1>2, <1>3 DEF w

\* At the first token of a kind.
LEMMA CutAtFirst ==
  ASSUME NEW T, NEW c \in T, NEW u \in Seq(T), NEW v \in Seq(T), ~Has(u, c)
  PROVE LET text == u \o (<<c>> \o v)
        IN text \in Seq(T) /\ Has(text, c) /\ Head1(text, c) = u /\ Rest1(text, c) = v
<1> DEFINE one == <<c>>
           cv == one \o v
           text == u \o cv
           n == Len(u)
<1>1. one \in Seq(T) /\ Len(one) = 1 /\ one[1] = c
  OBVIOUS
<1> HIDE DEF one
<1>2. /\ cv \in Seq(T) /\ Len(cv) = 1 + Len(v) /\ Len(v) \in Nat /\ cv[1] = c
  <2>1. Joins(T, one, v, cv)
    BY <1>1, CatJoins
  <2> HIDE DEF cv
  <2> QED BY <1>1, <2>1 DEF Joins
<1> HIDE DEF cv
<1>3. /\ text \in Seq(T) /\ n \in Nat /\ Len(text) = n + Len(cv)
      /\ \A i \in 1 .. n : text[i] = u[i]
      /\ \A i \in 1 .. Len(cv) : text[n + i] = cv[i]
  <2>1. Joins(T, u, cv, text)
    BY <1>2, CatJoins
  <2> HIDE DEF text
  <2> QED BY <2>1 DEF Joins
<1> HIDE DEF text
<1>4. n + 1 \in 1 .. Len(text) /\ text[n + 1] = c
  <2> HIDE DEF n
  <2>1. Len(cv) \in Nat /\ 1 \in 1 .. Len(cv)
    BY <1>2
  <2> QED BY <1>2, <1>3, <2>1
<1>5. ASSUME NEW t \in 1 .. n + 1 - 1 PROVE text[t] # c
  <2>1. t \in 1 .. n /\ t \in DOMAIN u
    BY <1>3
  <2> QED BY <1>3, <2>1 DEF Has
<1>6. Has(text, c) /\ FirstOf(text, c) = n + 1
  <2> DEFINE a == n + 1
  <2>1. a \in 1 .. Len(text) /\ text[a] = c /\ \A t \in 1 .. a - 1 : text[t] # c
    BY <1>4, <1>5
  <2> HIDE DEF a
  <2>2. Has(text, c) /\ FirstOf(text, c) = a
    BY <1>3, <2>1, FirstIsAt
  <2> QED BY <2>2 DEF a
<1>7. Head1(text, c) = u
  <2>1. Before(text, n + 1) = u
    BY <1>2, CutBack DEF text
  <2> QED BY <1>6, <2>1 DEF Head1
<1>8. Rest1(text, c) = v
  <2>1. Rest1(text, c) = From(text, n + 1 + 1)
    BY <1>6 DEF Rest1
  <2>2. text = (u \o one) \o v
    BY <1>1, ConcatAssociative DEF text, cv
  <2> DEFINE w == u \o one
  <2>3. w \in Seq(T) /\ Len(w) = n + 1
    <3>1. Joins(T, u, one, w)
      BY <1>1, CatJoins
    <3> HIDE DEF w
    <3> QED BY <1>1, <3>1 DEF Joins
  <2> HIDE DEF w
  <2>4. CASE v # <<>>
    <3>1. From(w \o v, Len(w) + 1) = v
      BY <2>3, <2>4, CutBack
    <3> QED BY <2>1, <2>2, <2>3, <3>1 DEF w
  <2>5. CASE v = <<>>
    <3>1. Len(v) = 0
      BY <2>5, EmptySeq
    <3>2. Len(text) = n + 1
      BY <1>2, <1>3, <3>1
    <3>3. From(text, n + 1 + 1) = <<>>
      BY <1>3, <3>2, SubSeqEmpty DEF From
    <3> QED BY <2>1, <2>5, <3>3
  <2> QED BY <2>4, <2>5
<1> QED BY <1>3, <1>6, <1>7, <1>8 DEF text, cv, one

LEMMA CutNowhere ==
  ASSUME NEW T, NEW u \in Seq(T), NEW c, ~Has(u, c)
  PROVE Head1(u, c) = u /\ Rest1(u, c) = <<>>
BY DEF Head1, Rest1

\* A URL of its parts: what follows the account is nothing or begins with "/".
URLOf(s, h, a, r) == s \o (<<"://">> \o (h \o (<<"/">> \o (a \o r))))

HasParts(T, text, s, h, a) ==
  /\ text \in Seq(T) /\ Has(text, "://")
  /\ Scheme(text) = s /\ Host(text) = h /\ Account(text) = a

Trails(T, r) == r \in Seq(T) /\ (r = <<>> \/ \E q \in Seq(T) : r = <<"/">> \o q)

LEMMA PartsOfAURL ==
  ASSUME NEW T, "://" \in T, "/" \in T, NEW s, s \in Seq(T), NEW h, h \in Seq(T),
         NEW a, a \in Seq(T), NEW r, Trails(T, r),
         ~Has(s, "://"), ~Has(h, "/"), ~Has(a, "/")
  PROVE HasParts(T, URLOf(s, h, a, r), s, h, a)
<1>0. r \in Seq(T) /\ (r = <<>> \/ \E q \in Seq(T) : r = <<"/">> \o q)
  BY DEF Trails
<1> DEFINE ar == a \o r
           har == h \o (<<"/">> \o ar)
<1>1. ar \in Seq(T)
  BY <1>0, CatJoins DEF Joins
<1>2. Head1(ar, "/") = a
  <2>1. CASE r = <<>>
    <3>1. ar = a
      BY <2>1, ConcatEmptySeq
    <3> QED BY <3>1, CutNowhere
  <2>2. CASE \E q \in Seq(T) : r = <<"/">> \o q
    <3>1. PICK q \in Seq(T) : r = <<"/">> \o q
      BY <2>2
    <3> QED BY <3>1, CutAtFirst
  <2> QED BY <1>0, <2>1, <2>2
<1> HIDE DEF ar
<1>3. har \in Seq(T) /\ Head1(har, "/") = h /\ Rest1(har, "/") = ar
  BY <1>1, CutAtFirst
<1> HIDE DEF har
<1> DEFINE text == s \o (<<"://">> \o har)
<1>4. /\ text \in Seq(T) /\ Has(text, "://") /\ Head1(text, "://") = s
      /\ Rest1(text, "://") = har
  BY <1>3, CutAtFirst
<1>5. URLOf(s, h, a, r) = text
  BY DEF URLOf, har, ar
<1> HIDE DEF text
<1> QED BY <1>2, <1>3, <1>4, <1>5 DEF Scheme, Host, Account, HasParts

\* An address of its parts.
LEMMA DomainOfAnAddress ==
  ASSUME NEW T, "@" \in T, NEW l \in Seq(T), NEW d \in Seq(T), ~Has(d, "@"), d # <<>>
  PROVE LET text == (l \o <<"@">>) \o d
        IN text \in Seq(T) /\ Has(text, "@") /\ Domain(text) = d
<1> DEFINE one == <<"@">>
           w == l \o one
           text == w \o d
           n == Len(l) + 1
<1>1. one \in Seq(T) /\ Len(one) = 1 /\ one[1] = "@"
  OBVIOUS
<1> HIDE DEF one
<1>2. w \in Seq(T) /\ Len(l) \in Nat /\ Len(w) = n /\ w[n] = "@"
  <2>1. Joins(T, l, one, w)
    BY <1>1, CatJoins
  <2> HIDE DEF w
  <2> QED BY <1>1, <2>1 DEF Joins
<1> HIDE DEF w
<1>3. /\ text \in Seq(T) /\ Len(d) \in Nat /\ Len(text) = Len(w) + Len(d)
      /\ \A i \in 1 .. Len(w) : text[i] = w[i]
      /\ \A i \in 1 .. Len(d) : text[Len(w) + i] = d[i]
  <2>1. Joins(T, w, d, text)
    BY <1>2, CatJoins
  <2> HIDE DEF text, n
  <2> QED BY <2>1 DEF Joins
<1>4. From(text, Len(w) + 1) = d
  BY <1>2, CutBack
<1> HIDE DEF text, n
<1>5. n \in 1 .. Len(text) /\ text[n] = "@"
  BY <1>2, <1>3 DEF n
<1>6. ASSUME NEW t \in n + 1 .. Len(text) PROVE text[t] # "@"
  <2>1. t - n \in 1 .. Len(d) /\ n + (t - n) = t /\ t - n \in DOMAIN d
    BY <1>2, <1>3, <1>5
  <2>2. text[t] = d[t - n]
    BY <1>2, <1>3, <2>1
  <2> QED BY <2>1, <2>2 DEF Has
<1>7. Has(text, "@") /\ LastOf(text, "@") = n
  BY <1>3, <1>5, <1>6, LastIsAt
<1> QED BY <1>2, <1>3, <1>4, <1>7 DEF Domain, text, w, one

-----------------------------------------------------------------------------
(* The identities and the names of repositories a pattern is asked of.     *)

Tokens == {"s", "h", "a", "b", ".", "com", "/", "://", "@"}

LEMMA ShortTexts ==
  ASSUME NEW T
  PROVE /\ <<>> \in Seq(T)
        /\ \A a \in T : <<a>> \in Seq(T)
        /\ \A a, b \in T : <<a, b>> \in Seq(T)
        /\ \A a, b, c \in T : <<a, b, c>> \in Seq(T)
        /\ \A a, b, c, d \in T : <<a, b, c, d>> \in Seq(T)
<1>1. ASSUME NEW a \in T, NEW b \in T, NEW c \in T, NEW d \in T
      PROVE <<a, b, c, d>> \in [1 .. 4 -> T]
  OBVIOUS
<1>2. ASSUME NEW a \in T, NEW b \in T, NEW c \in T PROVE <<a, b, c>> \in [1 .. 3 -> T]
  OBVIOUS
<1>3. \A a, b, c \in T : <<a, b, c>> \in Seq(T)
  BY <1>2, FunctionIsSeq
<1>4. \A a, b, c, d \in T : <<a, b, c, d>> \in Seq(T)
  BY <1>1, FunctionIsSeq
<1>5. \A a, b \in T : <<a, b>> \in Seq(T)
  OBVIOUS
<1> QED BY <1>3, <1>4, <1>5, EmptySeq

LEMMA ShortHas ==
  /\ \A x : ~Has(<<>>, x)
  /\ \A a, x : Has(<<a>>, x) <=> x = a
  /\ \A a, b, x : Has(<<a, b>>, x) <=> x = a \/ x = b
  /\ \A a, b, c, x : Has(<<a, b, c>>, x) <=> x = a \/ x = b \/ x = c
  /\ \A a, b, c, d, x : Has(<<a, b, c, d>>, x) <=> x = a \/ x = b \/ x = c \/ x = d
<1>1. ASSUME NEW x PROVE ~Has(<<>>, x)
  BY DEF Has
<1>2. ASSUME NEW a, NEW x PROVE Has(<<a>>, x) <=> x = a
  BY DEF Has
<1>3. ASSUME NEW a, NEW b, NEW x PROVE Has(<<a, b>>, x) <=> x = a \/ x = b
  <2>1. DOMAIN <<a, b>> = {1, 2}
    OBVIOUS
  <2> QED BY <2>1 DEF Has
<1>4. ASSUME NEW a, NEW b, NEW c, NEW x PROVE Has(<<a, b, c>>, x) <=> x = a \/ x = b \/ x = c
  <2>1. DOMAIN <<a, b, c>> = {1, 2, 3}
    OBVIOUS
  <2> QED BY <2>1 DEF Has
<1>5. ASSUME NEW a, NEW b, NEW c, NEW d, NEW x
      PROVE Has(<<a, b, c, d>>, x) <=> x = a \/ x = b \/ x = c \/ x = d
  <2>1. DOMAIN <<a, b, c, d>> = {1, 2, 3, 4}
    OBVIOUS
  <2> QED BY <2>1 DEF Has
<1> QED BY <1>1, <1>2, <1>3, <1>4, <1>5

LEMMA HasInEither ==
  ASSUME NEW T, NEW u, u \in Seq(T), NEW v, v \in Seq(T), NEW x, ~Has(u, x), ~Has(v, x)
  PROVE ~Has(u \o v, x)
<1> DEFINE w == u \o v
<1>1. Joins(T, u, v, w)
  BY CatJoins
<1> HIDE DEF w
<1>2. SUFFICES ASSUME NEW i \in 1 .. Len(u) + Len(v), w[i] = x PROVE FALSE
  BY <1>1 DEF Joins, Has, w
<1>3. CASE i <= Len(u)
  BY <1>1, <1>2, <1>3 DEF Joins, Has
<1>4. CASE ~(i <= Len(u))
  <2>1. i - Len(u) \in 1 .. Len(v) /\ Len(u) + (i - Len(u)) = i
    BY <1>1, <1>4 DEF Joins
  <2>2. v[i - Len(u)] = x
    BY <1>1, <1>2, <2>1 DEF Joins
  <2> QED BY <2>1, <2>2 DEF Has
<1> QED BY <1>3, <1>4

Regroups(u, v, w) == (u \o v) \o w = u \o (v \o w)

LEMMA CatRegroups ==
  ASSUME NEW T, NEW u, u \in Seq(T), NEW v, v \in Seq(T), NEW w, w \in Seq(T)
  PROVE Regroups(u, v, w)
BY ConcatAssociative DEF Regroups

LEMMA CatIsText ==
  ASSUME NEW T, NEW u, u \in Seq(T), NEW v, v \in Seq(T)
  PROVE u \o v \in Seq(T)
BY CatJoins DEF Joins

\* As the parts are written one behind another.
SpellsURL(text, s, h, a, r) == text = ((((s \o <<"://">>) \o h) \o <<"/">>) \o a) \o r

URLTexts(T, s, h, a, r) ==
  /\ s \in Seq(T) /\ h \in Seq(T) /\ a \in Seq(T) /\ r \in Seq(T)
  /\ <<"://">> \in Seq(T) /\ <<"/">> \in Seq(T)

LEMMA Regrouped ==
  ASSUME NEW text, NEW T, NEW s, NEW h, NEW a, NEW r,
         SpellsURL(text, s, h, a, r), URLTexts(T, s, h, a, r)
  PROVE text = URLOf(s, h, a, r)
<1>0. /\ s \in Seq(T) /\ h \in Seq(T) /\ a \in Seq(T) /\ r \in Seq(T)
      /\ <<"://">> \in Seq(T) /\ <<"/">> \in Seq(T)
  BY DEF URLTexts
<1> DEFINE c == <<"://">>
           d == <<"/">>
<1> SUFFICES ((((s \o c) \o h) \o d) \o a) \o r = s \o (c \o (h \o (d \o (a \o r))))
  BY DEF URLOf, SpellsURL
<1>1. c \in Seq(T) /\ d \in Seq(T)
  BY <1>0
<1> HIDE DEF c, d
<1>2. s \o c \in Seq(T) /\ a \o r \in Seq(T)
  BY <1>0, <1>1, CatIsText, Zenon
<1>3. (s \o c) \o h \in Seq(T) /\ d \o (a \o r) \in Seq(T)
  BY <1>0, <1>1, <1>2, CatIsText, Zenon
<1>4. ((s \o c) \o h) \o d \in Seq(T) /\ h \o (d \o (a \o r)) \in Seq(T)
  BY <1>0, <1>1, <1>3, CatIsText, Zenon
<1>5. Regroups(((s \o c) \o h) \o d, a, r)
  BY <1>0, <1>4, CatRegroups, Zenon
<1>6. Regroups((s \o c) \o h, d, a \o r)
  BY <1>0, <1>1, <1>2, <1>3, CatRegroups, Zenon
<1>7. Regroups(s \o c, h, d \o (a \o r))
  BY <1>0, <1>2, <1>3, CatRegroups, Zenon
<1>8. Regroups(s, c, h \o (d \o (a \o r)))
  BY <1>0, <1>1, <1>4, CatRegroups, Zenon
<1> QED BY <1>5, <1>6, <1>7, <1>8, Zenon DEF Regroups

LEMMA TokenTexts ==
  /\ \A s \in {"s", "a"} :
       <<s>> \in Seq(Tokens) /\ ~Has(<<s>>, "://") /\ <<s>>[1] = s
         /\ <<s, "://">> = <<s>> \o <<"://">>
  /\ <<"://">> \in Seq(Tokens) /\ <<"/">> \in Seq(Tokens) /\ <<"@">> \in Seq(Tokens)
  /\ \A h \in {<<"h">>, <<"a">>, <<"a", ".", "com">>, <<"h", ".", "com">>} :
       h \in Seq(Tokens) /\ ~Has(h, "/")
  /\ \A a \in {<<"a">>, <<"a", "b">>, <<"b">>} : a \in Seq(Tokens) /\ ~Has(a, "/")
<1>1. /\ "s" \in Tokens /\ "h" \in Tokens /\ "a" \in Tokens /\ "b" \in Tokens
      /\ "." \in Tokens /\ "com" \in Tokens /\ "/" \in Tokens /\ "://" \in Tokens /\ "@" \in Tokens
  BY DEF Tokens
<1>2. ASSUME NEW s \in {"s", "a"}
      PROVE <<s>> \in Seq(Tokens) /\ ~Has(<<s>>, "://") /\ <<s>>[1] = s
              /\ <<s, "://">> = <<s>> \o <<"://">>
  <2>1. s \in Tokens /\ s # "://"
    BY <1>1
  <2>2. <<s>> \in Seq(Tokens) /\ <<s>>[1] = s
    BY <2>1
  <2>3. ~Has(<<s>>, "://")
    BY <2>1, ShortHas
  <2>4. <<s, "://">> = <<s>> \o <<"://">>
    BY <1>1, <2>1, PairIs
  <2> QED BY <2>2, <2>3, <2>4
<1>3. <<"://">> \in Seq(Tokens) /\ <<"/">> \in Seq(Tokens) /\ <<"@">> \in Seq(Tokens)
  BY <1>1, ShortTexts
<1>4. /\ <<"h">> \in Seq(Tokens) /\ <<"a">> \in Seq(Tokens) /\ <<"b">> \in Seq(Tokens)
      /\ <<"a", ".", "com">> \in Seq(Tokens) /\ <<"h", ".", "com">> \in Seq(Tokens)
      /\ <<"a", "b">> \in Seq(Tokens)
  BY <1>1, ShortTexts
<1>5. /\ ~Has(<<"h">>, "/") /\ ~Has(<<"a">>, "/") /\ ~Has(<<"b">>, "/")
  BY ShortHas
<1>6. /\ ~Has(<<"a", ".", "com">>, "/") /\ ~Has(<<"h", ".", "com">>, "/")
      /\ ~Has(<<"a", "b">>, "/")
  BY ShortHas
<1> QED BY <1>2, <1>3, <1>4, <1>5, <1>6

LEMMA PathTexts ==
  \A r \in {<<>>, <<"/", "b">>, <<"/", "a", "/", "b">>} :
    Trails(Tokens, r)
<1>1. "/" \in Tokens /\ "a" \in Tokens /\ "b" \in Tokens
  BY DEF Tokens
<1>2. /\ <<"/", "b">> \in Seq(Tokens) /\ <<"b">> \in Seq(Tokens) /\ <<"/">> \in Seq(Tokens)
      /\ <<>> \in Seq(Tokens) /\ <<"/", "a", "/", "b">> \in Seq(Tokens)
      /\ <<"a", "/", "b">> \in Seq(Tokens)
  BY <1>1, ShortTexts
<1>3. <<"/", "b">> = <<"/">> \o <<"b">>
  BY <1>1, PairIs
<1>4. <<"/", "a", "/", "b">> = <<"/">> \o <<"a", "/", "b">>
  <2> DEFINE one == <<"/">>
             q == <<"a", "/", "b">>
             r == <<"/", "a", "/", "b">>
             w == one \o q
  <2>1. Len(q) = 3 /\ q[1] = "a" /\ q[2] = "/" /\ q[3] = "b"
    OBVIOUS
  <2>2. Len(r) = 4 /\ r[1] = "/" /\ r[2] = "a" /\ r[3] = "/" /\ r[4] = "b"
    OBVIOUS
  <2>3. Len(one) = 1 /\ one[1] = "/"
    OBVIOUS
  <2>4. one \in Seq(Tokens) /\ q \in Seq(Tokens) /\ r \in Seq(Tokens)
    BY <1>2
  <2> HIDE DEF one, q, r
  <2>5. Joins(Tokens, one, q, w)
    BY <2>4, CatJoins
  <2> HIDE DEF w
  <2>6. /\ w \in Seq(Tokens) /\ Len(w) = 4 /\ w[1] = "/" /\ w[1 + 1] = q[1]
        /\ w[1 + 2] = q[2] /\ w[1 + 3] = q[3]
    BY <2>1, <2>3, <2>5 DEF Joins
  <2>7. \A t \in 1 .. 4 : r[t] = w[t]
    <3> SUFFICES ASSUME NEW t \in 1 .. 4 PROVE r[t] = w[t]
      OBVIOUS
    <3>1. t = 1 \/ t = 2 \/ t = 3 \/ t = 4
      OBVIOUS
    <3> QED BY <2>1, <2>2, <2>6, <3>1
  <2>8. r = w
    BY <2>2, <2>4, <2>6, <2>7, SeqEqual
  <2> QED BY <2>8 DEF r, w, one, q
<1> QED BY <1>2, <1>3, <1>4 DEF Trails

LEMMA PartsOfSpelled ==
  ASSUME NEW text, NEW T, "://" \in T, "/" \in T, NEW s, NEW h, NEW a, NEW r,
         SpellsURL(text, s, h, a, r), URLTexts(T, s, h, a, r), Trails(T, r),
         ~Has(s, "://"), ~Has(h, "/"), ~Has(a, "/")
  PROVE HasParts(T, text, s, h, a)
<1>1. text = URLOf(s, h, a, r)
  BY Regrouped
<1> DEFINE made == URLOf(s, h, a, r)
<1>2. s \in Seq(T) /\ h \in Seq(T) /\ a \in Seq(T)
  BY DEF URLTexts
<1>3. HasParts(T, made, s, h, a)
  BY <1>2, PartsOfAURL, Zenon
<1> QED BY <1>1, <1>3

\* What an identity's authority has to do with its text.
LEMMA IdentityOfAURL ==
  ASSUME NEW i \in URLIdentities
  PROVE /\ i.kind = "url" /\ i.text \in Seq(Tokens) /\ Has(i.text, "://")
        /\ i.authority = <<Scheme(i.text)[1], Host(i.text), Account(i.text)>>
<1>1. PICK s \in {"s", "a"}, h \in {<<"h">>, <<"a">>, <<"a", ".", "com">>, <<"h", ".", "com">>},
           a \in {<<"a">>, <<"a", "b">>, <<"b">>},
           r \in {<<>>, <<"/", "b">>, <<"/", "a", "/", "b">>} :
        i = Identity("url", <<s, h, a>>, <<s, "://">> \o h \o <<"/">> \o a \o r)
  BY DEF URLIdentities
<1>2. /\ i.text = (((<<s, "://">> \o h) \o <<"/">>) \o a) \o r
      /\ i.authority = <<s, h, a>> /\ i.kind = "url"
  BY <1>1 DEF Identity
<1>3. /\ <<s>> \in Seq(Tokens) /\ ~Has(<<s>>, "://") /\ <<s>>[1] = s
      /\ <<"://">> \in Seq(Tokens) /\ <<"/">> \in Seq(Tokens)
      /\ <<s, "://">> = <<s>> \o <<"://">>
      /\ h \in Seq(Tokens) /\ ~Has(h, "/")
      /\ a \in Seq(Tokens) /\ ~Has(a, "/")
  BY TokenTexts, Zenon
<1>4. Trails(Tokens, r) /\ r \in Seq(Tokens)
  <2>1. Trails(Tokens, r)
    BY PathTexts, Zenon
  <2> QED BY <2>1, Zenon DEF Trails
<1>5. SpellsURL(i.text, <<s>>, h, a, r)
  BY <1>2, <1>3, Zenon DEF SpellsURL
<1>6. URLTexts(Tokens, <<s>>, h, a, r)
  BY <1>3, <1>4, Zenon DEF URLTexts
<1>7. "://" \in Tokens /\ "/" \in Tokens
  BY DEF Tokens
<1> DEFINE scheme == <<s>>
           text == i.text
<1>8. HasParts(Tokens, text, scheme, h, a)
  <2>1. /\ SpellsURL(text, scheme, h, a, r) /\ URLTexts(Tokens, scheme, h, a, r)
        /\ ~Has(scheme, "://") /\ ~Has(h, "/") /\ ~Has(a, "/")
        /\ Trails(Tokens, r)
    BY <1>3, <1>4, <1>5, <1>6
  <2> HIDE DEF scheme, text
  <2> QED BY <1>7, <2>1, PartsOfSpelled, Zenon
<1> HIDE DEF text
<1>9. /\ text \in Seq(Tokens) /\ Has(text, "://")
      /\ Scheme(text) = <<s>> /\ Host(text) = h /\ Account(text) = a
  BY <1>8, Zenon DEF HasParts
<1> QED BY <1>2, <1>3, <1>9, Zenon DEF text

\* A domain that ends in a name of two labels.
Under(T, domain, name) ==
  /\ domain \in Seq(T) /\ name \in Seq(T) /\ Len(name) = 3 /\ Len(domain) \in Nat
  /\ Len(domain) >= 3
  /\ \A t \in 1 .. 3 : domain[Len(domain) - 3 + t] = name[t]
  /\ name[1] # "." /\ name[3] # "."

LEMMA UnderIs ==
  ASSUME NEW T, NEW sub, sub \in Seq(T), NEW name, name \in Seq(T), Len(name) = 3,
         name[1] # ".", name[3] # "."
  PROVE Under(T, sub \o name, name)
<1> DEFINE w == sub \o name
<1>1. Joins(T, sub, name, w)
  BY CatJoins
<1> HIDE DEF w
<1>2. /\ w \in Seq(T) /\ Len(sub) \in Nat /\ Len(w) = Len(sub) + 3
      /\ \A t \in 1 .. 3 : w[Len(sub) + t] = name[t]
  BY <1>1 DEF Joins
<1>3. Len(w) - 3 = Len(sub) /\ Len(w) \in Nat /\ Len(w) >= 3
  BY <1>2
<1>4. Under(T, w, name)
  BY <1>2, <1>3 DEF Under
<1> QED BY <1>4 DEF w

LEMMA SuffixRuns ==
  ASSUME NEW T, NEW tail, tail \in Seq(T), NEW s, s \in Seq(T), IsSuffix(tail, s)
  PROVE /\ Len(tail) \in Nat /\ Len(s) \in Nat /\ Len(tail) <= Len(s)
        /\ \A t \in 1 .. Len(tail) : s[Len(s) - Len(tail) + t] = tail[t]
<1>1. Len(tail) \in Nat /\ Len(s) \in Nat
  BY LenProperties
<1>2. Len(Reverse(tail)) = Len(tail) /\ Len(Reverse(s)) = Len(s)
  BY <1>1 DEF Reverse
<1>3. Len(tail) <= Len(s)
  BY <1>2 DEF IsSuffix, IsPrefix
<1>4. From(tail, 0 + 1) = tail
  BY <1>1, SubSeqFull DEF From
<1>5. Runs(tail, s, 0, Len(tail), Len(s))
  <2>1. 0 \in 0 .. Len(tail) /\ Len(tail) - 0 = Len(tail)
    BY <1>1
  <2>2. IsSuffix(From(tail, 0 + 1), s) <=> Runs(tail, s, 0, Len(tail) - 0, Len(s))
    BY <1>1, <1>3, <2>1, SuffixIs
  <2> QED BY <1>4, <2>1, <2>2
<1> QED BY <1>1, <1>3, <1>5 DEF Runs

\* A tail of more than two labels says what name a domain is under.
TailOf(T, tail, s) ==
  /\ tail \in Seq(T) /\ IsSuffix(tail, s)
  /\ Len(tail) >= 2 /\ tail[1] = "." /\ Has(Tail(tail), ".")

LEMMA TailIsLong ==
  ASSUME NEW T, NEW tail, NEW domain, NEW name, Under(T, domain, name), TailOf(T, tail, domain)
  PROVE /\ Len(tail) \in Nat /\ Len(tail) >= 4
        /\ \A t \in 1 .. 3 : name[t] = tail[Len(tail) - 3 + t]
<1> DEFINE n == Len(tail)
           m == Len(domain)
<1>1. /\ tail \in Seq(T) /\ domain \in Seq(T) /\ n >= 2 /\ tail[1] = "." /\ Has(Tail(tail), ".")
      /\ IsSuffix(tail, domain)
  BY DEF Under, TailOf
<1>2. /\ n \in Nat /\ m \in Nat /\ n <= m /\ \A t \in 1 .. n : domain[m - n + t] = tail[t]
  BY <1>1, SuffixRuns
<1>3. /\ m >= 3 /\ \A t \in 1 .. 3 : domain[m - 3 + t] = name[t]
      /\ name[1] # "." /\ name[3] # "."
  BY DEF Under
<1>4. \E t \in 2 .. n : tail[t] = "."
  <2>1. tail # <<>> /\ tail \in Seq(T)
    BY <1>1, EmptySeq
  <2>2. Len(Tail(tail)) = n - 1 /\ \A i \in 1 .. n - 1 : Tail(tail)[i] = tail[i + 1]
    BY <1>2, <2>1
  <2>3. PICK i \in DOMAIN Tail(tail) : Tail(tail)[i] = "."
    BY <1>1 DEF Has
  <2>4. i \in 1 .. n - 1
    BY <1>2, <2>1, <2>2, <2>3
  <2>5. i + 1 \in 2 .. n
    BY <1>2, <2>4
  <2> QED BY <2>2, <2>3, <2>4, <2>5
<1> HIDE DEF n, m
<1>5. n # 2
  <2> SUFFICES ASSUME n = 2 PROVE FALSE
    OBVIOUS
  <2>1. tail[2] = "."
    BY <1>4
  <2>2. m - n + 2 = m - 3 + 3 /\ 2 \in 1 .. n /\ 3 \in 1 .. 3
    BY <1>2
  <2> QED BY <1>2, <1>3, <2>1, <2>2
<1>6. n # 3
  <2> SUFFICES ASSUME n = 3 PROVE FALSE
    OBVIOUS
  <2>1. 1 \in 1 .. n /\ 1 \in 1 .. 3
    OBVIOUS
  <2> QED BY <1>1, <1>2, <1>3, <2>1
<1>7. n >= 4
  BY <1>1, <1>2, <1>5, <1>6
<1>8. ASSUME NEW t \in 1 .. 3 PROVE name[t] = tail[n - 3 + t]
  <2>1. n - 3 + t \in 1 .. n /\ m - n + (n - 3 + t) = m - 3 + t
    BY <1>2, <1>7
  <2> QED BY <1>2, <1>3, <2>1
<1> QED BY <1>2, <1>7, <1>8 DEF n

LEMMA TailNamesOne ==
  ASSUME NEW T, NEW tail, NEW domain1, NEW name1, NEW domain2, NEW name2,
         Under(T, domain1, name1), TailOf(T, tail, domain1),
         Under(T, domain2, name2), TailOf(T, tail, domain2)
  PROVE name1 = name2
<1>1. \A t \in 1 .. 3 : name1[t] = tail[Len(tail) - 3 + t]
  BY TailIsLong
<1>2. \A t \in 1 .. 3 : name2[t] = tail[Len(tail) - 3 + t]
  BY TailIsLong
<1>3. name1 \in Seq(T) /\ name2 \in Seq(T) /\ Len(name1) = 3 /\ Len(name2) = 3
  BY DEF Under
<1> QED BY <1>1, <1>2, <1>3, SeqEqual

LEMMA DomainNamesOne ==
  ASSUME NEW T, NEW domain, NEW name1, NEW name2,
         Under(T, domain, name1), Under(T, domain, name2)
  PROVE name1 = name2
<1>1. name1 \in Seq(T) /\ name2 \in Seq(T) /\ Len(name1) = 3 /\ Len(name2) = 3
  BY DEF Under
<1>2. \A t \in 1 .. 3 : name1[t] = name2[t]
  BY DEF Under
<1> QED BY <1>1, <1>2, SeqEqual

MailTexts(T, l, sub, d) ==
  /\ l \in Seq(T) /\ sub \in Seq(T) /\ d \in Seq(T) /\ Len(d) = 3 /\ "@" \in T
  /\ d[1] # "." /\ d[3] # "."
  /\ ~Has(l, "://") /\ ~Has(sub, "://") /\ ~Has(d, "://") /\ ~Has(sub, "@") /\ ~Has(d, "@")

SpellsMail(text, l, sub, d) == text = ((l \o <<"@">>) \o sub) \o d

MailOf(T, text, d) ==
  /\ text \in Seq(T) /\ ~Has(text, "://") /\ Under(T, Domain(text), d)

LEMMA DomainOfSpelled ==
  ASSUME NEW text, NEW T, NEW l, NEW sub, NEW d, MailTexts(T, l, sub, d), SpellsMail(text, l, sub, d)
  PROVE MailOf(T, text, d)
<1> DEFINE sign == <<"@">>
           domain == sub \o d
           before == l \o sign
<1>1. /\ l \in Seq(T) /\ sub \in Seq(T) /\ d \in Seq(T) /\ Len(d) = 3 /\ "@" \in T
      /\ d[1] # "." /\ d[3] # "."
      /\ ~Has(l, "://") /\ ~Has(sub, "://") /\ ~Has(d, "://") /\ ~Has(sub, "@") /\ ~Has(d, "@")
  BY DEF MailTexts
<1>2. sign \in Seq(T) /\ ~Has(sign, "://")
  <2>1. ~Has(sign, "://")
    BY ShortHas
  <2> QED BY <1>1, <2>1
<1> HIDE DEF sign
<1>3. before \in Seq(T) /\ ~Has(before, "://")
  <2>1. before \in Seq(T)
    BY <1>1, <1>2, CatIsText, Zenon
  <2>2. ~Has(before, "://")
    BY <1>1, <1>2, HasInEither, Zenon
  <2> QED BY <2>1, <2>2
<1>4. Under(T, domain, d) /\ ~Has(domain, "@") /\ ~Has(domain, "://")
  <2>1. Under(T, domain, d)
    BY <1>1, UnderIs, Zenon
  <2>2. ~Has(domain, "@")
    BY <1>1, HasInEither, Zenon
  <2>3. ~Has(domain, "://")
    BY <1>1, HasInEither, Zenon
  <2> QED BY <2>1, <2>2, <2>3
<1> HIDE DEF domain
<1>5. domain \in Seq(T) /\ domain # <<>>
  BY <1>4, EmptySeq DEF Under
<1>6. before \o domain \in Seq(T) /\ Domain(before \o domain) = domain
  BY <1>1, <1>5, <1>4, DomainOfAnAddress DEF before, sign
<1>7. text = before \o domain
  <2>1. text = (before \o sub) \o d
    BY DEF SpellsMail, sign
  <2> HIDE DEF before
  <2>2. Regroups(before, sub, d)
    BY <1>1, <1>3, CatRegroups, Zenon
  <2> QED BY <2>1, <2>2 DEF Regroups, domain
<1>8. ~Has(before \o domain, "://")
  <2> HIDE DEF before
  <2> QED BY <1>3, <1>4, <1>5, HasInEither, Zenon
<1> QED BY <1>4, <1>6, <1>7, <1>8 DEF MailOf

LEMMA MailTokens ==
  ASSUME NEW l \in {<<"a">>, <<"a", "b">>},
         NEW sub \in {<<>>, <<"a", ".">>, <<"a", ".", "b", ".">>},
         NEW d \in {<<"b", ".", "com">>, <<"a", ".", "com">>, <<"b", ".", "a">>}
  PROVE MailTexts(Tokens, l, sub, d)
<1>1. "a" \in Tokens /\ "b" \in Tokens /\ "." \in Tokens /\ "com" \in Tokens /\ "@" \in Tokens
  BY DEF Tokens
<1>2. l \in Seq(Tokens)
  BY <1>1, ShortTexts
<1>3. sub \in Seq(Tokens)
  <2>1. /\ <<>> \in Seq(Tokens) /\ <<"a", ".">> \in Seq(Tokens)
        /\ <<"a", ".", "b", ".">> \in Seq(Tokens)
    BY <1>1, ShortTexts
  <2> QED BY <2>1, Zenon
<1>4. d \in Seq(Tokens)
  <2>1. /\ <<"b", ".", "com">> \in Seq(Tokens) /\ <<"a", ".", "com">> \in Seq(Tokens)
        /\ <<"b", ".", "a">> \in Seq(Tokens)
    BY <1>1, ShortTexts
  <2> QED BY <2>1, Zenon
<1>5. Len(d) = 3 /\ d[1] # "." /\ d[3] # "."
  OBVIOUS
<1>6. ~Has(l, "://")
  BY ShortHas
<1>7. ~Has(sub, "://") /\ ~Has(sub, "@")
  BY ShortHas
<1>8. ~Has(d, "://") /\ ~Has(d, "@")
  BY ShortHas
<1> QED BY <1>1, <1>2, <1>3, <1>4, <1>5, <1>6, <1>7, <1>8 DEF MailTexts

LEMMA IdentityOfAMail ==
  ASSUME NEW i \in MailIdentities
  PROVE i.kind = "mail" /\ MailOf(Tokens, i.text, i.authority)
<1>1. PICK l \in {<<"a">>, <<"a", "b">>},
           sub \in {<<>>, <<"a", ".">>, <<"a", ".", "b", ".">>},
           d \in {<<"b", ".", "com">>, <<"a", ".", "com">>, <<"b", ".", "a">>} :
        i = Identity("mail", d, l \o <<"@">> \o sub \o d)
  BY DEF MailIdentities
<1>2. i.text = ((l \o <<"@">>) \o sub) \o d /\ i.authority = d /\ i.kind = "mail"
  BY <1>1 DEF Identity
<1>3. SpellsMail(i.text, l, sub, d)
  BY <1>2, Zenon DEF SpellsMail
<1>4. MailTexts(Tokens, l, sub, d)
  BY MailTokens
<1>5. MailOf(Tokens, i.text, d)
  BY <1>3, <1>4, DomainOfSpelled
<1> QED BY <1>2, <1>5

-----------------------------------------------------------------------------
LEMMA ExactIsEqual ==
  ASSUME NEW pattern, NEW text, ~Has(pattern, "*"), Glob(pattern, text)
  PROVE pattern = text
<1>1. Places(pattern, "*") = {}
  BY DEF Has, Places
<1> QED BY <1>1 DEF Glob

LEMMA IdentityTexts ==
  ASSUME NEW i \in Identities
  PROVE /\ i.text \in Seq(Tokens)
        /\ i \in URLIdentities <=> i.kind = "url"
        /\ i \in MailIdentities <=> i.kind = "mail"
        /\ i \in URLIdentities <=> Has(i.text, "://")
<1>1. CASE i \in URLIdentities
  <2>1. i.kind = "url" /\ i.text \in Seq(Tokens) /\ Has(i.text, "://")
    BY <1>1, IdentityOfAURL
  <2>2. i \notin MailIdentities
    BY <2>1, IdentityOfAMail
  <2> QED BY <1>1, <2>1, <2>2
<1>2. CASE i \in MailIdentities
  <2>1. i.kind = "mail" /\ i.text \in Seq(Tokens) /\ ~Has(i.text, "://")
    BY <1>2, IdentityOfAMail DEF MailOf
  <2>2. i \notin URLIdentities
    BY <2>1, IdentityOfAURL
  <2> QED BY <1>2, <2>1, <2>2
<1> QED BY <1>1, <1>2 DEF Identities

\* What is in every domain a pattern lets in.
LEMMA MailReachesOne ==
  ASSUME NEW T, NEW pattern, pattern \in Seq(T), Tokens \subseteq T,
         ClassifySubject(pattern) = "mail",
         NEW i \in MailIdentities, Glob(pattern, i.text),
         NEW j \in MailIdentities, Glob(pattern, j.text)
  PROVE i.authority = j.authority
<1> DEFINE tail == From(Domain(pattern), LastOf(Domain(pattern), "*") + 1)
           Ends(text) == /\ Has(text, "@")
                         /\ IF Has(Domain(pattern), "*")
                            THEN /\ Len(tail) >= 2 /\ tail[1] = "." /\ Has(Tail(tail), ".")
                                 /\ IsSuffix(tail, Domain(text))
                            ELSE Domain(text) = Domain(pattern)
<1>1. MailOf(Tokens, i.text, i.authority) /\ MailOf(Tokens, j.text, j.authority)
  BY IdentityOfAMail
<1>2. i.text \in Seq(T) /\ j.text \in Seq(T)
  BY <1>1, SeqMonotonic DEF MailOf
<1>3. Ends(i.text) /\ Ends(j.text)
  BY <1>2, MailPatternKeepsDomain
<1>4. Under(T, Domain(i.text), i.authority) /\ Under(T, Domain(j.text), j.authority)
  BY <1>1, SeqMonotonic DEF MailOf, Under
<1>5. CASE Has(Domain(pattern), "*")
  <2>1. tail \in Seq(T)
    <3>1. Has(pattern, "@")
      BY DEF ClassifySubject
    <3>2. LastOf(pattern, "@") \in 1 .. Len(pattern)
      BY <3>1, LastOfIs
    <3>3. Domain(pattern) \in Seq(T)
      BY <3>2, FromIs DEF Domain
    <3>4. LastOf(Domain(pattern), "*") \in 1 .. Len(Domain(pattern))
      BY <1>5, <3>3, LastOfIs
    <3> QED BY <3>3, <3>4, FromIs
  <2>2. TailOf(T, tail, Domain(i.text)) /\ TailOf(T, tail, Domain(j.text))
    BY <1>3, <1>5, <2>1 DEF TailOf
  <2> HIDE DEF tail
  <2> QED BY <1>4, <2>2, TailNamesOne
<1>6. CASE ~Has(Domain(pattern), "*")
  <2>1. Domain(i.text) = Domain(j.text)
    BY <1>3, <1>6
  <2> QED BY <1>4, <2>1, DomainNamesOne
<1> QED BY <1>5, <1>6

LEMMA URLReachesOne ==
  ASSUME NEW T, NEW pattern, pattern \in Seq(T), Tokens \subseteq T,
         ClassifySubject(pattern) = "url",
         NEW i \in URLIdentities, Glob(pattern, i.text),
         NEW j \in URLIdentities, Glob(pattern, j.text)
  PROVE i.authority = j.authority
<1>1. i.text \in Seq(Tokens) /\ j.text \in Seq(Tokens)
  BY IdentityOfAURL
<1>2. i.text \in Seq(T) /\ j.text \in Seq(T)
  BY <1>1, SeqMonotonic
<1>3. /\ Scheme(i.text) = Scheme(pattern) /\ Host(i.text) = Host(pattern)
      /\ Account(i.text) = Account(pattern)
  BY <1>2, URLPatternKeepsAccount
<1>4. /\ Scheme(j.text) = Scheme(pattern) /\ Host(j.text) = Host(pattern)
      /\ Account(j.text) = Account(pattern)
  BY <1>2, URLPatternKeepsAccount
<1>5. /\ i.authority = <<Scheme(i.text)[1], Host(i.text), Account(i.text)>>
      /\ j.authority = <<Scheme(j.text)[1], Host(j.text), Account(j.text)>>
  BY IdentityOfAURL
<1> QED BY <1>3, <1>4, <1>5

LEMMA TextReachesOne ==
  ASSUME NEW i \in Identities, NEW j \in Identities, i.text = j.text
  PROVE i.kind = j.kind /\ i.authority = j.authority
<1>1. CASE i \in URLIdentities
  <2>1. j \in URLIdentities
    BY <1>1, IdentityTexts
  <2> QED BY <1>1, <2>1, IdentityOfAURL
<1>2. CASE i \notin URLIdentities
  <2>1. i \in MailIdentities /\ j \in MailIdentities
    BY <1>2, IdentityTexts DEF Identities
  <2>2. Under(Tokens, Domain(i.text), i.authority) /\ Under(Tokens, Domain(j.text), j.authority)
        /\ i.kind = "mail" /\ j.kind = "mail"
    BY <2>1, IdentityOfAMail DEF MailOf
  <2> QED BY <2>2, DomainNamesOne
<1> QED BY <1>1, <1>2

LEMMA NamesAreTexts ==
  ASSUME NEW name \in RepositoryNames
  PROVE name \in Seq(Seq(Tokens))
<1> DEFINE Texts == {<<"a">>, <<"a", "b">>, <<"b", "a", "b", "b">>}
<1>1. "a" \in Tokens /\ "b" \in Tokens
  BY DEF Tokens
<1>2. Texts \subseteq Seq(Tokens)
  <2>1. /\ <<"a">> \in Seq(Tokens) /\ <<"a", "b">> \in Seq(Tokens)
        /\ <<"b", "a", "b", "b">> \in Seq(Tokens)
    BY <1>1, ShortTexts
  <2> QED BY <2>1, Zenon
<1> HIDE DEF Texts
<1>3. PICK k \in 1 .. 3 : name \in [1 .. k -> Texts]
  BY DEF RepositoryNames, SeqsUpTo, Texts
<1>4. name \in Seq(Texts)
  BY <1>3, FunctionIsSeq
<1> QED BY <1>2, <1>4, SeqMonotonic

\* A wildcard in a signer's name lets in nobody beyond one account of one host or
\* one mail domain, and stands for what a wildcard stands for, in a repository's
\* pattern too, whatever the tokens and the length of the pattern asked about
\* (ClassifySubject in internal/keyless/cert.go, Match in
\* internal/trustpolicy/match.go).
THEOREM WildcardsStayWithin ==
  ASSUME NEW T, AsksFor("subject") => route[2] \in Seq(T),
         AsksFor("segments") => route[2] \in Seq(Seq(T))
  PROVE WildcardsReachNoFurther
<1> DEFINE A == T \cup Tokens
           p == route[2]
<1>1. ASSUME AsksFor("subject")
      PROVE LET id == [subject |-> p, issuer |-> <<"idp">>]
                reached == {i \in Identities : Matches(id, i.text, <<"idp">>, i.kind)}
            IN ValidIdentity(id) =>
                 /\ \A i, j \in reached : i.kind = j.kind /\ i.authority = j.authority
                 /\ \A i \in Identities : Glob(p, i.text) <=> StandsFor(p, i.text)
  <2>1. p \in Seq(A)
    BY <1>1, SeqMonotonic
  <2> HIDE DEF p
  <2> DEFINE id == [subject |-> p, issuer |-> <<"idp">>]
             reached == {i \in Identities : Matches(id, i.text, <<"idp">>, i.kind)}
  <2> SUFFICES ASSUME ValidIdentity(id)
               PROVE /\ \A i, j \in reached : i.kind = j.kind /\ i.authority = j.authority
                     /\ \A i \in Identities : Glob(p, i.text) <=> StandsFor(p, i.text)
    OBVIOUS
  <2>2. \A i \in reached : /\ i \in Identities /\ Glob(p, i.text)
                           /\ ClassifySubject(p) \in {"exact", i.kind}
    BY DEF Matches
  <2>3. ASSUME NEW i \in reached, NEW j \in reached
        PROVE i.kind = j.kind /\ i.authority = j.authority
    <3>1. /\ i \in Identities /\ Glob(p, i.text) /\ ClassifySubject(p) \in {"exact", i.kind}
          /\ j \in Identities /\ Glob(p, j.text) /\ ClassifySubject(p) \in {"exact", j.kind}
      BY <2>2
    <3> HIDE DEF reached, id
    <3>2. CASE ClassifySubject(p) = "exact"
      <4>1. ~Has(p, "*")
        BY <3>2 DEF ClassifySubject
      <4>2. i.text = j.text
        BY <3>1, <4>1, ExactIsEqual
      <4> QED BY <3>1, <4>2, TextReachesOne
    <3>3. CASE ClassifySubject(p) = "url"
      <4>1. i.kind = "url" /\ j.kind = "url"
        BY <3>1, <3>3
      <4>2. i \in URLIdentities /\ j \in URLIdentities
        BY <3>1, <4>1, IdentityTexts
      <4>3. i.authority = j.authority
        BY <2>1, <3>1, <3>3, <4>2, URLReachesOne
      <4> QED BY <4>1, <4>3
    <3>4. CASE ClassifySubject(p) = "mail"
      <4>1. i.kind = "mail" /\ j.kind = "mail"
        BY <3>1, <3>4
      <4>2. i \in MailIdentities /\ j \in MailIdentities
        BY <3>1, <4>1, IdentityTexts
      <4>3. i.authority = j.authority
        BY <2>1, <3>1, <3>4, <4>2, MailReachesOne
      <4> QED BY <4>1, <4>3
    <3>5. i.kind = "url" \/ i.kind = "mail"
      BY <3>1, IdentityTexts DEF Identities
    <3> QED BY <3>1, <3>2, <3>3, <3>4, <3>5
  <2>4. ASSUME NEW i \in Identities
        PROVE Glob(p, i.text) <=> StandsFor(p, i.text)
    <3>1. i.text \in Seq(A)
      BY IdentityTexts, SeqMonotonic
    <3> QED BY <2>1, <3>1, GlobIsStandsFor
  <2> QED BY <2>3, <2>4
<1>2. ASSUME AsksFor("segments"), NEW name \in RepositoryNames
      PROVE Match(p, name) <=> Allows(p, name)
  <2>1. p \in Seq(Seq(T))
    BY <1>2
  <2> HIDE DEF p
  <2>2. Seq(T) \subseteq Seq(A) /\ Seq(Tokens) \subseteq Seq(A)
    BY SeqMonotonic
  <2>3. p \in Seq(Seq(A))
    BY <2>1, <2>2, SeqMonotonic
  <2>4. name \in Seq(Seq(A))
    BY <2>2, NamesAreTexts, SeqMonotonic
  <2> QED BY <2>3, <2>4, MatchIsAllows
<1> QED BY <1>1, <1>2 DEF WildcardsReachNoFurther

-----------------------------------------------------------------------------
(* No genuine signature is turned down.                                    *)

\* What stands for nothing there is none of what is there.
Apart(signings, i) ==
  None \notin {LogKey, signings[i].cert.issuerV2, BodyOf(signings[i]),
               ProofOf(signings, i), SignedCheckpoint(signings)}

LEMMA ProofOfHolds ==
  ASSUME NEW S, NEW signings, signings \in Seq(S), NEW i \in DOMAIN signings
  PROVE ProvesInclusion(ProofOf(signings, i), SignedCheckpoint(signings), BodyOf(signings[i]))
<1> DEFINE log == Bodies(signings)
           B == {BodyOf(signings[j]) : j \in DOMAIN signings}
           own == [index |-> i - 1, size |-> Len(log), hashes |-> PathTo(log, i - 1, 0, Len(log))]
<1>1. Len(signings) \in Nat /\ DOMAIN signings = 1 .. Len(signings)
  BY LenProperties
<1>2. log \in [1 .. Len(signings) -> B]
  BY <1>1 DEF Bodies
<1>3. log \in Seq(B) /\ DOMAIN log = 1 .. Len(signings)
  BY <1>1, <1>2, FunctionIsSeq
<1>4. Len(log) = Len(signings) /\ log[i] = BodyOf(signings[i])
  <2>1. DOMAIN log = 1 .. Len(log) /\ Len(log) \in Nat
    BY <1>3, LenProperties
  <2>2. log[i] = BodyOf(signings[i])
    BY DEF Bodies
  <2> HIDE DEF log
  <2> QED BY <1>1, <1>3, <2>1, <2>2
<1> HIDE DEF log, B
<1>5. i - 1 \in 0 .. Len(log) - 1 /\ (i - 1) + 1 = i
  BY <1>1, <1>4
<1>6. ProvesInclusion(own, Checkpoint(log), log[i])
  BY <1>3, <1>5, HonestProofAccepted
<1>7. /\ own.index = ProofOf(signings, i).index
      /\ own.size = ProofOf(signings, i).size
      /\ own.hashes = ProofOf(signings, i).hashes
  BY <1>4 DEF ProofOf, log
<1>8. /\ Checkpoint(log).size = SignedCheckpoint(signings).size
      /\ Checkpoint(log).root = SignedCheckpoint(signings).root
  BY DEF SignedCheckpoint, log
<1> HIDE DEF own
<1> QED BY <1>4, <1>6, <1>7, <1>8 DEF ProvesInclusion

\* The log's entry of a signing is in order.
LEMMA EntryOfSigningHolds ==
  ASSUME NEW S, NEW signings, signings \in Seq(S), NEW i \in DOMAIN signings,
         Apart(signings, i), signings[i].at \in Nat
  PROVE LET s == signings[i]
            bundle == Assembled(signings, Whole(i))
        IN LogEntryHolds(bundle.entries[1], PinnedRoot, bundle.sigs[1], s.payload, s.cert)
<1> DEFINE s == signings[i]
           bundle == Assembled(signings, Whole(i))
           entry == bundle.entries[1]
           head == SignedCheckpoint(signings)
           log == [key |-> LogKey, keyId |-> LogKey, stated |-> None,
                   valid |-> [start |-> 0, end |-> None]]
<1>1. /\ Whole(i).cert = i /\ Whole(i).payload = i /\ Whole(i).sig = i /\ Whole(i).body = i
      /\ Whole(i).index = i /\ Whole(i).time = i /\ Whole(i).promise = i /\ Whole(i).proof = i
  BY DEF Whole, Pieces
<1>2. /\ entry.body = BodyOf(s) /\ entry.log = LogKey /\ entry.index = i - 1
      /\ entry.time = s.at /\ entry.promise = Promise(signings, i)
      /\ entry.proof = ProofOf(signings, i)
      /\ bundle.sigs[1] = SignatureOf(s.cert, s.payload)
  BY <1>1 DEF Assembled
<1>3. entry.proof.checkpoint = head /\ entry.proof.root = head.root
  BY <1>2 DEF ProofOf, SignedCheckpoint
<1> HIDE DEF bundle, entry
<1>4. entry.proof # None /\ entry.proof.checkpoint # None /\ entry.body # None /\ LogKey # None
  BY <1>2, <1>3 DEF Apart
<1>5. log \in PinnedRoot.logs /\ log.key = LogKey
  BY DEF PinnedRoot
<1>6. entry.log \in LogIds(log)
  BY <1>2, <1>4 DEF LogIds
<1>7. TimestampHolds(entry, LogKey)
  BY <1>2 DEF TimestampHolds, Promise
<1>8. Covers(log.valid, entry.time)
  BY <1>2 DEF Covers
<1>9. ProvesInclusion(entry.proof, head, entry.body)
  BY <1>2, ProofOfHolds
<1>10. CheckpointHolds(head, LogKey)
  <2>1. Signature(LogKey, <<"note", head.size, head.root>>) \in head.signatures
    BY DEF SignedCheckpoint
  <2>2. head.size > 0
    BY <1>9 DEF ProvesInclusion, WellFormedProof
  <2> QED BY <2>1, <2>2 DEF CheckpointHolds
<1>11. BodyDescribes(entry.body, bundle.sigs[1], s.payload, s.cert)
  BY <1>2 DEF BodyDescribes, BodyOf
<1> HIDE DEF log, head, s
<1> QED
  BY <1>3, <1>4, <1>5, <1>6, <1>7, <1>8, <1>9, <1>10, <1>11 DEF LogEntryHolds, entry, bundle, s

\* A bundle of the pieces of one signing, in a log of any length, is accepted over
\* its artifact, if an authority issued the certificate, it was valid at the time,
\* and the policy, all of whose names are valid, names the signer by a pattern
\* that is for that kind of name: none of the checks turns a genuine signature
\* down (Verify, internal/keyless/verify.go, with tlog.go and cert.go).
THEOREM GenuineBundleAccepted ==
  ASSUME NEW T, NEW S, NEW signings, signings \in Seq(S), NEW i \in DOMAIN signings,
         NEW signer, signer.name.text \in Seq(T), NEW from, NEW to,
         signings[i].cert = Certify(signer, from, to),
         signings[i].payload.type = "statement", signings[i].at \in Nat, Apart(signings, i),
         NEW allowed,
         \A id \in allowed :
           /\ ValidIdentity(id) /\ id.subject \in Seq(T)
           /\ StandsFor(id.subject, signer.name.text)
                => ClassifySubject(id.subject) \in {"exact", signer.name.kind},
         NEW artifact,
         RecordsASigning(Assembled(signings, Whole(i)), signings, artifact, PinnedRoot, allowed)
  PROVE VerifyBundle(Assembled(signings, Whole(i)), artifact, PinnedRoot, allowed)
<1> DEFINE s == signings[i]
           bundle == Assembled(signings, Whole(i))
<1>1. /\ Whole(i).cert = i /\ Whole(i).payload = i /\ Whole(i).sig = i /\ Whole(i).time = i
  BY DEF Whole, Pieces
<1>2. /\ bundle.format = "v0.3" /\ bundle.certs = <<s.cert>> /\ bundle.payloadType = "in-toto"
      /\ bundle.payload = s.payload /\ bundle.sigs = <<SignatureOf(s.cert, s.payload)>>
      /\ bundle.entries # <<>> /\ bundle.entries[1].time = s.at
  BY <1>1 DEF Assembled
<1>3. LogEntryHolds(bundle.entries[1], PinnedRoot, bundle.sigs[1], s.payload, s.cert)
  BY EntryOfSigningHolds
<1> HIDE DEF bundle
<1>4. PICK j \in DOMAIN signings :
        /\ bundle.certs[1] = signings[j].cert /\ bundle.payload = signings[j].payload
        /\ bundle.entries[1].time = signings[j].at
        /\ artifact \in signings[j].payload.subjects
        /\ \E a \in PinnedRoot.authorities :
             Has(a.chain, signings[j].cert.issuedBy) /\ Covers(a.valid, signings[j].at)
        /\ signings[j].cert.from <= signings[j].at /\ signings[j].at <= signings[j].cert.to
        /\ \E id \in allowed, name \in signings[j].cert.names :
             id.issuer = signings[j].cert.issuerV2 /\ StandsFor(id.subject, name.text)
  BY DEF RecordsASigning, bundle
<1>5. signings[j].cert = s.cert /\ signings[j].payload = s.payload /\ signings[j].at = s.at
  BY <1>2, <1>4
<1>6. Leaf(bundle) = s.cert
  BY <1>2 DEF Leaf
<1>7. s.cert.codeSigning /\ s.cert.names = {signer.name} /\ s.cert.issuerV2 # None
  BY DEF Certify, Apart
<1>8. ChainHolds(s.cert, PinnedRoot, s.at)
  BY <1>4, <1>5, <1>7 DEF ChainHolds
<1>9. AnyMatches(allowed, s.cert)
  <2>1. IssuerOf(s.cert) = s.cert.issuerV2
    BY <1>7 DEF IssuerOf
  <2>2. Cardinality(s.cert.names) = 1
    BY <1>7, FS_Singleton
  <2>3. PICK id \in allowed : id.issuer = s.cert.issuerV2 /\ StandsFor(id.subject, signer.name.text)
    BY <1>4, <1>5, <1>7
  <2>4. Matches(id, signer.name.text, s.cert.issuerV2, signer.name.kind)
    BY <2>3, GlobIsStandsFor DEF Matches
  <2> QED BY <1>7, <2>1, <2>2, <2>4 DEF AnyMatches
<1>10. StatementCovers(s.payload, artifact)
  BY <1>4, <1>5 DEF StatementCovers
<1>11. allowed # {} /\ \A id \in allowed : ValidIdentity(id)
  BY <1>4
<1>12. bundle.certs # <<>> /\ Len(bundle.sigs) = 1
       /\ bundle.sigs[1] = Signature(s.cert.key, Enveloped("in-toto", s.payload))
  BY <1>2 DEF SignatureOf
<1> HIDE DEF s
<1> QED
  BY <1>2, <1>3, <1>6, <1>8, <1>9, <1>10, <1>11, <1>12 DEF VerifyBundle, bundle

\* A mail pattern of six words.
LEMMA MailPatternIsValid ==
  LET p == <<"rob", "*", "@", "corp", ".", "com">>
  IN p \in Seq(Words) /\ p # <<>> /\ ClassifySubject(p) = "mail"
<1> DEFINE p == <<"rob", "*", "@", "corp", ".", "com">>
<1>1. /\ Len(p) = 6 /\ p[1] = "rob" /\ p[2] = "*" /\ p[3] = "@" /\ p[4] = "corp"
      /\ p[5] = "." /\ p[6] = "com"
  OBVIOUS
<1>2. p \in Seq(Words)
  BY SixWords DEF Words
<1> HIDE DEF p
<1>3. DOMAIN p = 1 .. 6
  BY <1>1, <1>2, LenProperties
<1>4. p # <<>> /\ Has(p, "*") /\ ~Has(p, "://")
  <2>1. \A t \in 1 .. 6 : t = 1 \/ t = 2 \/ t = 3 \/ t = 4 \/ t = 5 \/ t = 6
    OBVIOUS
  <2>2. ~Has(p, "://")
    BY <1>1, <1>3, <2>1 DEF Has
  <2>3. Has(p, "*")
    BY <1>1, <1>3 DEF Has
  <2> QED BY <1>1, <2>2, <2>3
<1>5. Has(p, "@") /\ LastOf(p, "@") = 3
  <2>1. \A t \in 3 + 1 .. 6 : p[t] # "@"
    <3>1. \A t \in 3 + 1 .. 6 : t = 4 \/ t = 5 \/ t = 6
      OBVIOUS
    <3> QED BY <1>1, <3>1
  <2>2. 3 \in 1 .. Len(p) /\ p[3] = "@" /\ \A t \in 3 + 1 .. Len(p) : p[t] # "@"
    BY <1>1, <2>1
  <2> QED BY <1>2, <2>2, LastIsAt
<1>6. ~Has(Before(p, 3), "/")
  <2>1. 3 \in 1 .. Len(p) + 1
    BY <1>1
  <2>2. /\ Before(p, 3) \in Seq(Words) /\ Len(Before(p, 3)) = 3 - 1
        /\ \A t \in 1 .. 3 - 1 : Before(p, 3)[t] = p[t]
    BY <1>2, <2>1, BeforeIs
  <2>3. DOMAIN Before(p, 3) = 1 .. 2
    BY <2>2, LenProperties
  <2>4. \A t \in 1 .. 2 : t = 1 \/ t = 2
    OBVIOUS
  <2> QED BY <1>1, <2>2, <2>3, <2>4 DEF Has
<1>7. PinsAMailDomain(From(p, 3 + 1))
  <2> DEFINE d == From(p, 3 + 1)
  <2>1. 3 \in 1 .. Len(p)
    BY <1>1
  <2>2. /\ d \in Seq(Words) /\ Len(d) = Len(p) - 3
        /\ \A t \in 1 .. Len(p) - 3 : d[t] = p[3 + t]
    BY <1>2, <2>1, FromIs
  <2> HIDE DEF d
  <2>3. DOMAIN d = 1 .. 3 /\ Len(d) = 3 /\ d[1] = "corp" /\ d[2] = "." /\ d[3] = "com"
    BY <1>1, <2>2, LenProperties
  <2>4. \A t \in 1 .. 3 : t = 1 \/ t = 2 \/ t = 3
    OBVIOUS
  <2>5. d # <<>> /\ ~Has(d, "/") /\ ~Has(d, "*")
    BY <2>3, <2>4 DEF Has
  <2> QED BY <2>5 DEF PinsAMailDomain, d
<1>8. PinsAnAddress(p)
  BY <1>5, <1>6, <1>7 DEF PinsAnAddress
<1>9. ClassifySubject(p) = "mail"
  BY <1>4, <1>5, <1>8 DEF ClassifySubject
<1> QED BY <1>2, <1>4, <1>9 DEF p

LEMMA PlainNameIsValid ==
  ASSUME NEW p \in {Name1.text, Name2.text}
  PROVE p \in Seq(Words) /\ p # <<>> /\ ClassifySubject(p) = "exact"
<1>1. ASSUME NEW w \in {"robot", "other"}, p = <<w, "@", "corp", ".", "com">>
      PROVE p \in Seq(Words) /\ p # <<>> /\ ~Has(p, "*")
  <2>1. Len(p) = 5 /\ p[1] = w /\ p[2] = "@" /\ p[3] = "corp" /\ p[4] = "." /\ p[5] = "com"
    BY <1>1
  <2>2. p \in Seq(Words)
    BY <1>1, FiveWords DEF Words
  <2>3. DOMAIN p = 1 .. 5
    BY <2>1, <2>2, LenProperties
  <2>4. \A t \in 1 .. 5 : t = 1 \/ t = 2 \/ t = 3 \/ t = 4 \/ t = 5
    OBVIOUS
  <2>5. w # "*"
    OBVIOUS
  <2>6. ~Has(p, "*")
    BY <2>1, <2>3, <2>4, <2>5 DEF Has
  <2> QED BY <2>1, <2>2, <2>6
<1>2. \E w \in {"robot", "other"} : p = <<w, "@", "corp", ".", "com">>
  BY DEF Name1, Name2
<1>3. p \in Seq(Words) /\ p # <<>> /\ ~Has(p, "*")
  BY <1>1, <1>2
<1> QED BY <1>3 DEF ClassifySubject

\* So each signing a run offers that the policy allows is accepted, wherever in the
\* log it stands (Verify, internal/keyless/verify.go).
THEOREM GenuineIsAccepted ==
  ASSUME \A i \in DOMAIN Signings : Apart(Signings, i)
  PROVE GenuineSignatureAccepted
<1> SUFFICES ASSUME NEW i \in DOMAIN Signings, NEW artifact,
                    RecordsASigning(Assembled(Signings, Whole(i)), Signings, artifact,
                                    PinnedRoot, Allowed)
             PROVE VerifyBundle(Assembled(Signings, Whole(i)), artifact, PinnedRoot, Allowed)
  BY DEF GenuineSignatureAccepted
<1> DEFINE S == {Signings[j] : j \in DOMAIN Signings}
           Holders == {Robot, Stranger, Elsewhere}
<1>1. Signings \in [1 .. 5 -> S]
  BY DEF Signings
<1>2. Signings \in Seq(S)
  BY <1>1, FunctionIsSeq
<1>3. /\ \E signer \in Holders : Signings[i].cert = Certify(signer, 3, 5)
      /\ Signings[i].payload.type = "statement" /\ Signings[i].at \in Nat
  BY DEF Signings, SigningOf, StatementOver
<1>4. \A signer \in Holders : signer.name \in {Name1, Name2}
  BY DEF Robot, Stranger, Elsewhere, SignerOf
<1> HIDE DEF S, Holders
<1>5. PICK signer \in Holders : Signings[i].cert = Certify(signer, 3, 5)
  BY <1>3
<1>6. signer.name.text \in Seq(Words) /\ signer.name.kind = "mail"
  <2>1. signer.name \in {Name1, Name2}
    BY <1>4
  <2>2. Name1.kind = "mail" /\ Name2.kind = "mail"
    BY DEF Name1, Name2
  <2> QED BY <2>1, <2>2, PlainNameIsValid
<1>7. ASSUME NEW id \in Allowed
      PROVE /\ ValidIdentity(id) /\ id.subject \in Seq(Words)
            /\ ClassifySubject(id.subject) \in {"exact", "mail"}
  <2>1. id.issuer = <<"idp">>
        /\ id.subject \in {<<"rob", "*", "@", "corp", ".", "com">>, Name1.text}
    BY DEF Allowed
  <2>2. /\ id.subject \in Seq(Words) /\ id.subject # <<>>
        /\ ClassifySubject(id.subject) \in {"exact", "mail"}
    BY <2>1, MailPatternIsValid, PlainNameIsValid
  <2>3. id.issuer # <<>> /\ ~Has(id.issuer, "*")
    BY <2>1, ShortHas
  <2> QED BY <2>2, <2>3 DEF ValidIdentity
<1>8. \A id \in Allowed :
        /\ ValidIdentity(id) /\ id.subject \in Seq(Words)
        /\ StandsFor(id.subject, signer.name.text)
             => ClassifySubject(id.subject) \in {"exact", signer.name.kind}
  BY <1>6, <1>7
<1> QED BY <1>2, <1>3, <1>5, <1>6, <1>8, GenuineBundleAccepted

-----------------------------------------------------------------------------
(* The questions a run asks.                                               *)

Letters == Tokens \cup {"*", "**"}

LEMMA UpToIsSeq ==
  ASSUME NEW S, NEW n \in Nat, NEW p \in SeqsUpTo(S, n)
  PROVE p \in Seq(S)
<1>1. PICK k \in 1 .. n : p \in [1 .. k -> S]
  BY DEF SeqsUpTo
<1> QED BY <1>1, FunctionIsSeq

LEMMA PiecesOfPatterns ==
  /\ HostNames \subseteq Seq(Letters) /\ Accounts \subseteq Seq(Letters)
  /\ Rests \subseteq Seq(Letters) /\ Domains \subseteq Seq(Letters)
  /\ Segments \subseteq Seq(Letters)
  /\ \A w \in Letters : <<w>> \in Seq(Letters)
  /\ "s" \in Letters /\ "*" \in Letters /\ "a" \in Letters /\ "/" \in Letters
  /\ "@" \in Letters /\ "://" \in Letters
<1>1. /\ "s" \in Letters /\ "h" \in Letters /\ "a" \in Letters /\ "b" \in Letters
      /\ "." \in Letters /\ "com" \in Letters /\ "/" \in Letters /\ "://" \in Letters
      /\ "@" \in Letters /\ "*" \in Letters /\ "**" \in Letters
  BY DEF Letters, Tokens
<1>2. /\ <<"h">> \in Seq(Letters) /\ <<"*">> \in Seq(Letters) /\ <<"a">> \in Seq(Letters)
      /\ <<"**">> \in Seq(Letters) /\ <<"com">> \in Seq(Letters) /\ <<>> \in Seq(Letters)
      /\ \A w \in Letters : <<w>> \in Seq(Letters)
  BY <1>1, ShortTexts
<1>3. /\ <<"h", ".", "com">> \in Seq(Letters) /\ <<"*", ".", "com">> \in Seq(Letters)
      /\ <<"b", ".", "com">> \in Seq(Letters) /\ <<"b", ".", "*">> \in Seq(Letters)
  BY <1>1, ShortTexts
<1>4. /\ <<"a", "*">> \in Seq(Letters) /\ <<"/", "b">> \in Seq(Letters)
      /\ <<"/", "*">> \in Seq(Letters) /\ <<"*", "b">> \in Seq(Letters)
  BY <1>1, ShortTexts
<1>5. /\ <<"*", "b", ".", "com">> \in Seq(Letters) /\ <<"*", "a", "*", "b">> \in Seq(Letters)
  BY <1>1, ShortTexts
<1>6. <<"*", ".", "b", ".", "com">> \in Seq(Letters)
  BY <1>1, FiveWords
<1> HIDE DEF Letters
<1>7. HostNames \subseteq Seq(Letters) /\ Accounts \subseteq Seq(Letters)
  BY <1>2, <1>3, <1>4, Zenon DEF HostNames, Accounts
<1>8. Rests \subseteq Seq(Letters)
  BY <1>2, <1>4, Zenon DEF Rests
<1>9. Domains \subseteq Seq(Letters)
  BY <1>2, <1>3, <1>5, <1>6, Zenon DEF Domains
<1>10. Segments \subseteq Seq(Letters)
  BY <1>2, <1>4, <1>5, Zenon DEF Segments
<1> QED BY <1>1, <1>2, <1>7, <1>8, <1>9, <1>10

\* What a set of URLs is made of.
LEMMA URLsAre ==
  ASSUME NEW schemes, NEW hosts, NEW accounts, NEW rests,
         NEW p \in URLs(schemes, hosts, accounts, rests)
  PROVE \E s \in schemes, h \in hosts, a \in accounts, r \in rests : SpellsURL(p, s, h, a, r)
BY DEF URLs, SpellsURL

LEMMA SubjectTexts ==
  ASSUME NEW p \in SubjectPatterns
  PROVE p \in Seq(Letters)
<1>1. ASSUME p \in URLs({<<"s">>, <<"*">>}, HostNames, Accounts, Rests)
      PROVE p \in Seq(Letters)
  <2>1. PICK s \in {<<"s">>, <<"*">>}, h \in HostNames, a \in Accounts, r \in Rests :
          SpellsURL(p, s, h, a, r)
    BY <1>1, URLsAre
  <2>2. /\ s \in Seq(Letters) /\ h \in Seq(Letters) /\ a \in Seq(Letters) /\ r \in Seq(Letters)
        /\ <<"://">> \in Seq(Letters) /\ <<"/">> \in Seq(Letters)
    BY PiecesOfPatterns
  <2> DEFINE one == <<"://">>
             two == <<"/">>
  <2> HIDE DEF one, two
  <2>3. s \o one \o h \o two \o a \o r \in Seq(Letters)
    <3>1. one \in Seq(Letters) /\ two \in Seq(Letters)
      BY <2>2 DEF one, two
    <3> QED BY <2>2, <3>1, ConcatProperties
  <2> QED BY <2>1, <2>3 DEF one, two, SpellsURL
<1>2. ASSUME p \in Mails({<<"a">>, <<"*">>, <<"a", "*">>}, Domains)
      PROVE p \in Seq(Letters)
  <2>1. PICK l \in Accounts, d \in Domains : p = l \o <<"@">> \o d
    BY <1>2 DEF Mails, Accounts
  <2> DEFINE one == <<"@">>
  <2>2. l \in Seq(Letters) /\ d \in Seq(Letters) /\ one \in Seq(Letters)
    BY PiecesOfPatterns
  <2> HIDE DEF one
  <2>3. l \o one \o d \in Seq(Letters)
    BY <2>2, ConcatProperties
  <2> QED BY <2>1, <2>3 DEF one
<1>3. ASSUME p \in SeqsUpTo({"*", "a", "/", "@", "://"}, 4)
      PROVE p \in Seq(Letters)
  <2>1. p \in Seq({"*", "a", "/", "@", "://"})
    BY <1>3, UpToIsSeq
  <2>2. {"*", "a", "/", "@", "://"} \subseteq Letters
    BY PiecesOfPatterns
  <2> QED BY <2>1, <2>2, SeqMonotonic
<1> QED BY <1>1, <1>2, <1>3 DEF SubjectPatterns

Kinds == {"layers", "proof", "bundle", "subject", "segments"}

\* What each kind of question is about.
AskedAbout ==
  /\ AsksFor("layers") => route[2] \in Seq(Records) /\ route[3] \in SeqsUpTo(Layers, 3)
  /\ AsksFor("proof") => route[2] \in Nat \ {0}
  /\ AsksFor("bundle") => route[2] \in [Pieces -> DOMAIN Signings]
  /\ AsksFor("subject") => route[2] \in Seq(Letters)
  /\ AsksFor("segments") => route[2] \in Seq(Seq(Letters))

LEMMA QuestionsAsk ==
  ASSUME route \in MCRoutes \cup Questions
  PROVE AskedAbout
<1>1. ASSUME route \in MCRoutes PROVE \A kind \in Kinds : ~AsksFor(kind)
  BY <1>1 DEF MCRoutes, AsksFor, Kinds
<1>2. ASSUME route \in LayerQuestions
      PROVE /\ AsksFor("layers") /\ route[2] \in Seq(Records)
            /\ route[3] \in SeqsUpTo(Layers, 3)
  <2>1. PICK r \in SeqsUpTo(Records, 3), l \in SeqsUpTo(Layers, 3) : route = <<"layers", r, l>>
    BY <1>2 DEF LayerQuestions
  <2>2. r \in Seq(Records)
    BY UpToIsSeq
  <2> QED BY <2>1, <2>2 DEF AsksFor
<1>3. ASSUME route \in ProofQuestions
      PROVE AsksFor("proof") /\ route[2] \in Nat \ {0}
  BY <1>3 DEF ProofQuestions, AsksFor
<1>4. ASSUME route \in BundleQuestions
      PROVE AsksFor("bundle") /\ route[2] \in [Pieces -> DOMAIN Signings]
  <2>1. DOMAIN Signings = 1 .. 5
    BY DEF Signings
  <2>2. PICK from \in [Pieces -> 1 .. 2] \cup [Pieces -> {1, 3}]
                        \cup [Pieces -> {1, 4}] \cup [Pieces -> {1, 5}] :
          route = <<"bundle", from>>
    BY <1>4 DEF BundleQuestions
  <2>3. from \in [Pieces -> 1 .. 5]
    BY <2>2
  <2> QED BY <2>1, <2>2, <2>3 DEF AsksFor
<1>5. ASSUME route \in SubjectQuestions
      PROVE AsksFor("subject") /\ route[2] \in Seq(Letters)
  <2>1. PICK p \in SubjectPatterns : route = <<"subject", p>>
    BY <1>5 DEF SubjectQuestions
  <2>2. p \in Seq(Letters)
    BY SubjectTexts
  <2> QED BY <2>1, <2>2 DEF AsksFor
<1>6. ASSUME route \in SegmentQuestions
      PROVE AsksFor("segments") /\ route[2] \in Seq(Seq(Letters))
  <2>1. PICK p \in SeqsUpTo(Segments, 3) : route = <<"segments", p>>
    BY <1>6 DEF SegmentQuestions
  <2>2. p \in Seq(Segments)
    BY UpToIsSeq
  <2>3. p \in Seq(Seq(Letters))
    BY <2>2, PiecesOfPatterns, SeqMonotonic
  <2> QED BY <2>1, <2>3 DEF AsksFor
<1>7. ASSUME NEW kind \in Kinds, NEW other \in Kinds, AsksFor(kind), AsksFor(other)
      PROVE kind = other
  BY <1>7 DEF AsksFor
<1>8. /\ "layers" # "proof" /\ "layers" # "bundle" /\ "layers" # "subject"
      /\ "layers" # "segments" /\ "proof" # "bundle" /\ "proof" # "subject"
      /\ "proof" # "segments" /\ "bundle" # "subject" /\ "bundle" # "segments"
      /\ "subject" # "segments"
  OBVIOUS
<1>9. /\ "layers" \in Kinds /\ "proof" \in Kinds /\ "bundle" \in Kinds
      /\ "subject" \in Kinds /\ "segments" \in Kinds
  BY DEF Kinds
<1> QED
  BY <1>1, <1>2, <1>3, <1>4, <1>5, <1>6, <1>7, <1>8, <1>9 DEF Questions, AskedAbout

\* A step asks nothing else.
LEMMA RouteStays ==
  ASSUME [Next]_vars
  PROVE route' = route
<1>1. CASE UNCHANGED vars
  BY <1>1 DEF vars, crossing
<1>2. ASSUME NEW t, NEW m, Push(t, m) PROVE route' = route
  BY <1>2 DEF Push, Publish, crossing
<1>3. ASSUME NEW key, NEW t, Sign(key, t) PROVE route' = route
  BY <1>3 DEF Sign, Publish, crossing
<1>4. ASSUME NEW signing, Attest(signing) \/ AttestationFails(signing) PROVE route' = route
  BY <1>4 DEF Attest, AttestationFails, crossing
<1>5. ASSUME NEW b, NEW m, AttachBundle(b, m) \/ AttachInStore(b, m) PROVE route' = route
  BY <1>5 DEF AttachBundle, AttachInStore, Publish, crossing
<1>6. ASSUME NEW key, NEW m, AttachSignature(key, m) PROVE route' = route
  BY <1>6 DEF AttachSignature, Publish, crossing
<1>7. ASSUME NEW kind, NEW t, Start(kind, t) PROVE route' = route
  BY <1>7 DEF Start, crossing
<1>8. CASE CarrySignature \/ CarryAttestation \/ CarryBundles
  BY <1>8 DEF CarrySignature, CarryAttestation, CarryBundles, CarryNamed, Goto, crossing
<1>9. CASE BundlesUnavailable \/ CarryingFails
  BY <1>9 DEF BundlesUnavailable, CarryingFails, Report, crossing
<1>10. ASSUME NEW names, Save(names) PROVE route' = route
  BY <1>10 DEF Save
<1>11. CASE Mishandle
  BY <1>11 DEF Mishandle
<1>12. CASE Load
  BY <1>12 DEF Load
<1> QED
  BY <1>1, <1>2, <1>3, <1>4, <1>5, <1>6, <1>7, <1>8, <1>9, <1>10, <1>11, <1>12 DEF Next

\* Every answer is right, whatever the models, keys, log and authority: what the
\* theorems before assume of a question holds of every question the specification
\* asks, and none of its steps changes it.  The two hypotheses on the run are that
\* its routes are not questions and that what stands for nothing is none of what is
\* there; the third is that a sequence from which layers are left out is one.
THEOREM AnswersAreRight ==
  ASSUME Routes \subseteq MCRoutes,
         \A i \in DOMAIN Signings : Apart(Signings, i),
         \A layers \in SeqsUpTo(Layers, 3) : LayersFromManifest(layers) \in Seq(Layers)
  PROVE MCSpec => [](/\ AttestationCoversExactly /\ InclusionProofSound
                     /\ AcceptedSignatureIsLogged /\ GenuineSignatureAccepted
                     /\ WildcardsReachNoFurther)
<1> DEFINE Asked == route \in MCRoutes \cup Questions
           Right == /\ AttestationCoversExactly /\ InclusionProofSound
                    /\ AcceptedSignatureIsLogged /\ GenuineSignatureAccepted
                    /\ WildcardsReachNoFurther
<1>1. MCInit => Asked
  BY DEF MCInit, Init, Question
<1>2. Asked /\ [Next]_vars => Asked'
  <2> SUFFICES ASSUME Asked, [Next]_vars PROVE Asked'
    OBVIOUS
  <2>1. route' = route
    BY RouteStays
  <2>2. (MCRoutes \cup Questions)' = MCRoutes \cup Questions
    OBVIOUS
  <2> QED BY <2>1, <2>2
<1>3. Asked => Right
  <2> SUFFICES ASSUME Asked PROVE Right
    OBVIOUS
  <2>1. AskedAbout
    BY QuestionsAsk
  <2>2. AttestationCoversExactly
    <3> DEFINE R == Records \cup Layers
    <3>1. Seq(Records) \subseteq Seq(R) /\ Seq(Layers) \subseteq Seq(R)
      BY SeqMonotonic
    <3> HIDE DEF R
    <3>2. AsksFor("layers") => /\ route[2] \in Seq(R)
                               /\ LayersFromManifest(route[3]) \in Seq(R)
      BY <2>1, <3>1 DEF AskedAbout
    <3> QED BY <3>2, AttestationIsExact
  <2>3. InclusionProofSound
    BY <2>1, ProofIsOfItsEntry DEF AskedAbout
  <2>4. AcceptedSignatureIsLogged
    BY <2>1, AcceptedIsLogged DEF AskedAbout
  <2>5. GenuineSignatureAccepted
    BY GenuineIsAccepted
  <2>6. WildcardsReachNoFurther
    BY <2>1, WildcardsStayWithin DEF AskedAbout
  <2> QED BY <2>2, <2>3, <2>4, <2>5, <2>6
<1> HIDE DEF Asked, Right
<1>4. MCSpec => []Right
  BY <1>1, <1>2, <1>3, PTL DEF MCSpec
<1> QED BY <1>4 DEF Right
=============================================================================
