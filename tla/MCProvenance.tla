---------------------------- MODULE MCProvenance ----------------------------
(* Two models that may follow each other under one tag, the first with a    *)
(* layer fetched from upstream; two keys and a keyless signer the policy    *)
(* names, and a stranger.  Beside the journeys there are initial states     *)
(* that put one question each to one of the pure algorithms, and in which   *)
(* nothing more happens.                                                    *)
EXTENDS Travel, KeylessSigning

CONSTANTS m1, m2, t1, k1, k2, b1, b2, s1, s2, s3, d1, d2, d3

-----------------------------------------------------------------------------
(* Signers.                                                                 *)

MCTags == {t1}
MCKeys == {k1, k2}

Name1 == [text |-> <<"robot", "@", "corp", ".", "com">>, kind |-> "mail"]
Name2 == [text |-> <<"other", "@", "corp", ".", "com">>, kind |-> "mail"]

SignerOf(key, name) ==
  [key |-> key, name |-> name, issuer |-> <<"idp">>, authority |-> Authority]

Robot == SignerOf(s1, Name1)
Stranger == SignerOf(s2, Name2)
Elsewhere == [SignerOf(s3, Name1) EXCEPT !.authority = s3]

Allowed == {[subject |-> <<"rob", "*", "@", "corp", ".", "com">>, issuer |-> <<"idp">>],
            [subject |-> Name1.text, issuer |-> <<"idp">>]}

SigningOf(signer, artifact, when) ==
  [cert |-> Certify(signer, 3, 5), payload |-> StatementOver(artifact), at |-> when]

\* The robot over two artifacts, and once more after its certificate lapsed;
\* a stranger; the robot's name from an authority that is not pinned.
Signings ==
  <<SigningOf(Robot, m1, 4), SigningOf(Stranger, m2, 4), SigningOf(Robot, m2, 8),
    SigningOf(Elsewhere, m2, 5), SigningOf(Robot, d3, 4)>>

-----------------------------------------------------------------------------
(* The journeys.                                                            *)

MCModels == {m1, m2}
LayerOf(digest, repo) ==
  [digest |-> digest, repo |-> repo, path |-> IF repo = None THEN None ELSE "f",
   revision |-> None, published |-> None]
MCLayersOf == m1 :> <<LayerOf(d1, "up"), LayerOf(d2, None)>> @@ m2 :> <<LayerOf(d2, None)>>

Kept == <<Signings[1], SigningOf(Stranger, m1, 4)>>
MCBundles == b1 :> Assembled(Kept, Whole(1)) @@ b2 :> Assembled(Kept, Whole(2))

MCAttachments == {<<b1, m1>>, <<b2, m1>>}

Registry == [origin |-> <<<<"reg">>, <<"llm">>>>, mirror |-> <<<<"mir">>, <<"llm">>>>]
Rule(pattern) ==
  [pattern |-> pattern, keys |-> <<k1, k2>>, identities |-> Allowed, root |-> PinnedRoot]
MCConfig ==
  [policy |-> <<Rule(<<<<"r", "*">>, <<"x">>>>), Rule(<<<<"**">>, <<"llm">>>>)>>,
   key |-> None, unreadable |-> {}]

-----------------------------------------------------------------------------
(* The questions.                                                           *)

SeqsUpTo(S, n) == UNION {[1 .. k -> S] : k \in 1 .. n}

Layers == {LayerOf(d1, "up"), LayerOf(d1, "up2"), LayerOf(d2, "up"), LayerOf(d2, None)}
Records == {LayerOf(d1, "up"), LayerOf(d1, "up2"), LayerOf(d2, "up"), LayerOf(d3, "up")}
LayerQuestions ==
  {<<"layers", r, l>> : r \in SeqsUpTo(Records, 3), l \in SeqsUpTo(Layers, 3)}

ProofQuestions == {<<"proof", n>> : n \in 1 .. 8}

BundleQuestions ==
  {<<"bundle", from>> : from \in [Pieces -> 1 .. 2] \cup [Pieces -> {1, 3}]
                                   \cup [Pieces -> {1, 4}] \cup [Pieces -> {1, 5}]}

HostNames == {<<"h">>, <<"*">>, <<"h", ".", "com">>, <<"*", ".", "com">>}
Accounts == {<<"a">>, <<"*">>, <<"a", "*">>}
Rests == {<<>>, <<"/", "b">>, <<"/", "*">>, <<"*">>}
URLs(schemes, hosts, accounts, rests) ==
  {s \o <<"://">> \o h \o <<"/">> \o a \o r :
     s \in schemes, h \in hosts, a \in accounts, r \in rests}
Domains == {<<"com">>, <<"b", ".", "com">>, <<"*", ".", "com">>, <<"*">>,
            <<"*", ".", "b", ".", "com">>, <<"*", "b", ".", "com">>, <<"b", ".", "*">>}
Mails(locals, domains) == {l \o <<"@">> \o d : l \in locals, d \in domains}
SubjectPatterns ==
  URLs({<<"s">>, <<"*">>}, HostNames, Accounts, Rests)
    \cup Mails({<<"a">>, <<"*">>, <<"a", "*">>}, Domains)
    \cup SeqsUpTo({"*", "a", "/", "@", "://"}, 4)
SubjectQuestions == {<<"subject", p>> : p \in SubjectPatterns}

Identity(kind, authority, text) == [kind |-> kind, authority |-> authority, text |-> text]
URLIdentities ==
  {Identity("url", <<s, h, a>>, <<s, "://">> \o h \o <<"/">> \o a \o r) :
     s \in {"s", "a"}, h \in {<<"h">>, <<"a">>, <<"a", ".", "com">>, <<"h", ".", "com">>},
     a \in {<<"a">>, <<"a", "b">>, <<"b">>}, r \in {<<>>, <<"/", "b">>, <<"/", "a", "/", "b">>}}
MailIdentities ==
  {Identity("mail", d, l \o <<"@">> \o sub \o d) :
     l \in {<<"a">>, <<"a", "b">>}, sub \in {<<>>, <<"a", ".">>, <<"a", ".", "b", ".">>},
     d \in {<<"b", ".", "com">>, <<"a", ".", "com">>, <<"b", ".", "a">>}}
Identities == URLIdentities \cup MailIdentities

Segments == {<<"a">>, <<"*">>, <<"a", "*">>, <<"*", "b">>, <<"*", "a", "*", "b">>, <<"**">>}
SegmentQuestions == {<<"segments", p>> : p \in SeqsUpTo(Segments, 3)}
RepositoryNames == SeqsUpTo({<<"a">>, <<"a", "b">>, <<"b", "a", "b", "b">>}, 3)

MCRoutes == {<<"mirror">>, <<"gated">>}

Questions ==
  LayerQuestions \cup ProofQuestions \cup BundleQuestions
    \cup SubjectQuestions \cup SegmentQuestions

AsksFor(kind) == route[1] = kind

-----------------------------------------------------------------------------
\* A question stands where a journey's route would, and nothing happens.
Question(q) ==
  /\ route = q /\ trust = <<>>
  /\ at = [p \in Hosts |-> EmptyPlace("origin", TRUE)]
  /\ unattested = {} /\ job = Nowhere /\ sure = FALSE
  /\ promised = {} /\ arrived = {} /\ admitted = {} /\ lacking = {}
  /\ published = MaxEvents /\ faults = 0

MCInit == Init \/ \E q \in Questions : Question(q)

MCSpec == MCInit /\ [][Next]_vars

-----------------------------------------------------------------------------
\* An attestation is accepted for exactly the manifest whose sourced layers it
\* records, each as often as it occurs: two layers of the same content from
\* two sources need a record each (attestationMatchesManifest,
\* internal/cli/sign.go).
AttestationCoversExactly ==
  AsksFor("layers") =>
    (MatchesManifest(route[2], route[3]) <=> CoversExactly(route[2], route[3]))

\* For a log of any size up to eight, the walk accepts the proof of an entry
\* at its own index and nothing else: no other entry, index, size or length
\* (rootFromInclusionProof, internal/keyless/tlog.go).
InclusionProofSound ==
  AsksFor("proof") =>
    LET n == route[2]
        log == [i \in 1 .. n |-> i]
        head == Checkpoint(log)
    IN \A index \in 0 .. n, size \in n - 1 .. n + 1 :
         \A proof \in OfferedProofs(log, index, size), entry \in 1 .. n :
           ProvesInclusion(proof, head, entry) <=>
             /\ size = n /\ entry = index + 1
             /\ proof.hashes = PathTo(log, index, 0, n)

\* A bundle is accepted only if it is, piece for piece, what one allowed
\* signer signed over this artifact and the log recorded while the certificate
\* was valid; genuine pieces of several signings never add up to another
\* (Verify, internal/keyless/verify.go, with tlog.go and cert.go).
AcceptedSignatureIsLogged ==
  AsksFor("bundle") =>
    LET bundle == Assembled(Signings, route[2])
    IN \A artifact \in {m1, m2, d3} :
         VerifyBundle(bundle, artifact, PinnedRoot, Allowed) =>
           RecordsASigning(bundle, Signings, artifact, PinnedRoot, Allowed)

\* And a signing of that kind is accepted, wherever in the log it stands: none
\* of the checks turns a genuine signature down (Verify,
\* internal/keyless/verify.go, with tlog.go and cert.go).
GenuineSignatureAccepted ==
  AsksFor("bundle") =>
    \A i \in DOMAIN Signings, artifact \in {m1, m2, d3} :
      LET bundle == Assembled(Signings, Whole(i))
      IN route[2] = Whole(i) /\ RecordsASigning(bundle, Signings, artifact, PinnedRoot, Allowed)
           => VerifyBundle(bundle, artifact, PinnedRoot, Allowed)

\* A wildcard in a signer's name never reaches past one account of one host,
\* or past one mail domain, and means what a wildcard means; so does one in a
\* repository pattern (ClassifySubject in internal/keyless/cert.go, Match in
\* internal/trustpolicy/match.go).
WildcardsReachNoFurther ==
  /\ AsksFor("subject") =>
       LET id == [subject |-> route[2], issuer |-> <<"idp">>]
           reached == {i \in Identities : Matches(id, i.text, <<"idp">>, i.kind)}
       IN ValidIdentity(id) =>
            /\ \A i, j \in reached : i.kind = j.kind /\ i.authority = j.authority
            /\ \A i \in Identities : Glob(route[2], i.text) <=> StandsFor(route[2], i.text)
  /\ AsksFor("segments") =>
       \A name \in RepositoryNames : Match(route[2], name) <=> Allows(route[2], name)
=============================================================================
