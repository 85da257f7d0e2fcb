------------------------------ MODULE Keyless ------------------------------
(***************************************************************************)
(* Keyless signatures, checked with no network (internal/keyless): which   *)
(* signer a policy names (cert.go), what a pinned root believes            *)
(* (trustroot.go), what the transparency log proves (tlog.go), and the     *)
(* verdict on a bundle (verify.go).                                        *)
(*                                                                         *)
(* A signature is the term [by, over]: it verifies under the key that made *)
(* it, over what it was made over, and under nothing else.  Text is a      *)
(* sequence of tokens, "://" one of them; times are numbers.               *)
(***************************************************************************)
EXTENDS Globs, InclusionProof

CONSTANT None

Signature(key, over) == [by |-> key, over |-> over]

-----------------------------------------------------------------------------
(* Signers a policy names.                                                 *)

FirstOf(text, token) == Min(Places(text, token))
LastOf(text, token) == Max(Places(text, token))

\* What comes before the first such token, the whole text if there is none,
\* and what comes after it.
Head1(text, token) == IF Has(text, token) THEN Before(text, FirstOf(text, token)) ELSE text
Rest1(text, token) == IF Has(text, token) THEN From(text, FirstOf(text, token) + 1) ELSE <<>>

PinsAnAccount(path) ==
  LET segment == Head1(path, "/") IN segment # <<>> /\ ~Has(segment, "*")

\* The domain may begin with a wildcard if two literal labels follow it.
PinsAMailDomain(domain) ==
  /\ domain # <<>>
  /\ ~Has(domain, "/")
  /\ Has(domain, "*") =>
       LET tail == From(domain, LastOf(domain, "*") + 1)
       IN Len(tail) >= 2 /\ tail[1] = "." /\ Has(Tail(tail), ".")

\* Mutant: a wildcard may stand before the host.
PinsAPath(pattern) ==
  LET rest == Rest1(pattern, "://")
  IN Head1(rest, "/") # <<>> /\ PinsAnAccount(Rest1(rest, "/"))

\* A URL pattern names its scheme, its host and the account under it.
PinsAURL(pattern) ==
  LET rest == Rest1(pattern, "://")
      host == Head1(rest, "/")
  IN /\ ~Has(Head1(pattern, "://"), "*")
     /\ host # <<>> /\ ~Has(host, "*")
     /\ PinsAnAccount(Rest1(rest, "/"))

PinsAnAddress(pattern) ==
  LET at == LastOf(pattern, "@")
  IN ~Has(Before(pattern, at), "/") /\ PinsAMailDomain(From(pattern, at + 1))

ClassifySubject(pattern) ==
  IF pattern = <<>> THEN "refused"
  ELSE IF ~Has(pattern, "*") THEN "exact"
  ELSE IF Has(pattern, "://") THEN IF PinsAURL(pattern) THEN "url" ELSE "refused"
  ELSE IF Has(pattern, "@") /\ PinsAnAddress(pattern) THEN "mail"
  ELSE "refused"

\* Identity.Validate.
ValidIdentity(id) ==
  /\ id.subject # <<>> /\ id.issuer # <<>>
  /\ ClassifySubject(id.subject) # "refused"
  /\ ~Has(id.issuer, "*")

\* Identity.matches: the pattern's kind has to be the certificate's.
Matches(id, subject, issuer, kind) ==
  /\ id.issuer = issuer
  /\ ClassifySubject(id.subject) \in {"exact", kind}
  /\ Glob(id.subject, subject)

\* certIdentity: one name, and the provider that authenticated it, the
\* current extension before the old one.
IssuerOf(cert) == IF cert.issuerV2 # None THEN cert.issuerV2 ELSE cert.issuerV1

AnyMatches(allowed, cert) ==
  /\ Cardinality(cert.names) = 1
  /\ IssuerOf(cert) # None
  /\ \E id \in allowed, name \in cert.names :
       Matches(id, name.text, IssuerOf(cert), name.kind)

-----------------------------------------------------------------------------
(* The pinned root: authorities and logs with the times they are good for, *)
(* a log under each of its identifiers.                                    *)

\* window: an end that is not given is open.
Covers(window, at) ==
  /\ window.start # None => at >= window.start
  /\ window.end # None => at <= window.end

\* Every identifier a log is known by: the hash of its key, and its own.
LogIds(log) == {log.keyId, log.stated} \ {None}

\* LoadTrustedRoot: at least one authority, each with a certificate chain,
\* and at least one log, each with a key.
ReadableRoot(root) ==
  /\ root.authorities # {} /\ \A a \in root.authorities : a.chain # <<>>
  /\ root.logs # {} /\ \A log \in root.logs : log.key # None

\* verifyChain: an authority trusted at that time issued the certificate, for
\* signing code, and the certificate was valid then.
ChainHolds(cert, root, at) ==
  \E a \in root.authorities :
    /\ Covers(a.valid, at)
    /\ Has(a.chain, cert.issuedBy)
    /\ cert.codeSigning
    /\ cert.from <= at /\ at <= cert.to

-----------------------------------------------------------------------------
(* What the transparency log proves.                                       *)

\* Mutant: the log's signature is not held to the date beside it.
TimestampUndated(entry, key) ==
  \E at \in 0 .. 9 :
    entry.promise = Signature(key, <<"entry", entry.body, at, entry.log, entry.index>>)

\* verifyEntryTimestamp: the log signed this entry, its date, its place and
\* the log's own name.
TimestampHolds(entry, key) ==
  entry.promise =
    Signature(key, <<"entry", entry.body, entry.time, entry.log, entry.index>>)

\* verifyCheckpoint: one of its signatures is the log's, over the size and
\* the root that are then believed.
CheckpointHolds(checkpoint, key) ==
  /\ checkpoint.size > 0
  /\ Signature(key, <<"note", checkpoint.size, checkpoint.root>>) \in checkpoint.signatures

\* bodyDescribes: the entry is the record of this signature.
BodyDescribes(body, sig, payload, cert) ==
  /\ body.kind = "dsse"
  /\ body.payload = payload
  /\ [sig |-> sig, cert |-> cert] \in body.signatures

\* verifyLogEntry.
LogEntryHolds(entry, root, sig, payload, cert) ==
  /\ entry.proof # None /\ entry.proof.checkpoint # None /\ entry.body # None
  /\ \E log \in root.logs :
       /\ entry.log \in LogIds(log)
       /\ TimestampHolds(entry, log.key)
       /\ Covers(log.valid, entry.time)
       /\ CheckpointHolds(entry.proof.checkpoint, log.key)
  /\ entry.proof.root = entry.proof.checkpoint.root
  /\ ProvesInclusion(entry.proof, entry.proof.checkpoint, entry.body)
  /\ BodyDescribes(entry.body, sig, payload, cert)

-----------------------------------------------------------------------------
(* The verdict on a bundle.                                                *)

\* pae: a signature covers the type of a payload beside the payload.
Enveloped(type, payload) == <<"DSSEv1", type, payload>>

StatementCovers(payload, artifact) ==
  payload.type = "statement" /\ artifact \in payload.subjects

\* bundleCertificate: the first one, if the bundle carries any.
Leaf(bundle) == bundle.certs[1]

\* Verify.
VerifyBundle(bundle, artifact, root, allowed) ==
  /\ allowed # {} /\ \A id \in allowed : ValidIdentity(id)
  /\ bundle.format = "v0.3"
  /\ bundle.certs # <<>>
  /\ bundle.payloadType = "in-toto"
  /\ Len(bundle.sigs) = 1
  /\ bundle.sigs[1] = Signature(Leaf(bundle).key, Enveloped("in-toto", bundle.payload))
  /\ bundle.entries # <<>>
  /\ LogEntryHolds(bundle.entries[1], root, bundle.sigs[1], bundle.payload, Leaf(bundle))
  /\ ChainHolds(Leaf(bundle), root, bundle.entries[1].time)
  /\ AnyMatches(allowed, Leaf(bundle))
  /\ StatementCovers(bundle.payload, artifact)
=============================================================================
