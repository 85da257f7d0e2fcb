----------------------------- MODULE Signatures -----------------------------
(***************************************************************************)
(* Where signatures, attestations and keyless bundles are kept beside a    *)
(* model, and how `palan verify` and the gates find and check them         *)
(* (internal/signing, internal/cli/sign.go).                               *)
(*                                                                         *)
(* A place is a registry repository, the local store or a transfer file:   *)
(* the content each name holds, the content it has without a name, and     *)
(* whether it can say what refers to an artifact.  A name is its kind and  *)
(* what it is derived from.  Content is a manifest: what it is, its        *)
(* subject, its signature layers, and its statement or bundle.             *)
(***************************************************************************)
EXTENDS TrustPolicy
INSTANCE Attestation

CONSTANTS
  Models,    \* the digests of the models
  LayersOf,  \* the layers of each
  Bundles,   \* the keyless bundles there are, by the names of their digests
  Repository \* the repository of each place that has an address

TagName(t) == <<"tag", t>>
SigName(m) == <<"sig", m>>
AttName(m) == <<"att", m>>
BundleName(content) == <<"bundle", content.holds, content.of>>

\* IsSigTag, IsAttTag, IsBundleTag: anything else names a model.
NamesModel(name) == name[1] = "tag"

Content(is, of, layers, holds) ==
  [is |-> is, of |-> of, layers |-> layers, holds |-> holds]

ModelContent(m) == Content("model", m, {}, None)

\* What a name resolves to: a model's own digest, and for every other manifest
\* one that is no model's.
Digest(content) == IF content.is = "model" THEN content.of ELSE content

\* Sign: the payload binds the digest and the repository, host included.
SigLayer(key, m, repository) == [by |-> key, binds |-> m, identity |-> repository]
SigContent(m, layers) == Content("sig", m, layers, None)

\* PushAttestation.
AttContent(m, key) == Content("att", m, {}, key)

BundleContent(b, m) == Content("bundle", m, {}, b)

Place(names, loose, lists, address) ==
  [names |-> names, loose |-> loose, lists |-> lists, address |-> address]

EmptyPlace(address, lists) == Place(<<>>, {}, lists, address)

Named(place) == {place.names[n] : n \in DOMAIN place.names}
Held(place) == Named(place) \cup place.loose
Names(place, name) == name \in DOMAIN place.names

\* Names given to content leave what had them without one.
NameAll(place, given) ==
  LET names == [n \in DOMAIN given \cup DOMAIN place.names |->
                  IF n \in DOMAIN given THEN given[n] ELSE place.names[n]]
      lost == {place.names[n] : n \in DOMAIN given \cap DOMAIN place.names}
  IN Place(names, (place.loose \cup lost) \ {names[n] : n \in DOMAIN names},
           place.lists, place.address)

Name(place, name, content) == NameAll(place, [n \in {name} |-> content])

\* Content that only refers to what it is about.
Attach(place, contents) ==
  Place(place.names, place.loose \cup (contents \ Named(place)), place.lists, place.address)

\* registry.Referrers.
Referrers(place, m, is) == {c \in Held(place) : c.is = is /\ c.of = m}

-----------------------------------------------------------------------------
(* Signatures made with a key.                                             *)

\* verifyManifest: one layer that verifies suffices, whatever the others are.
ManifestVerifies(content, m, key, address) ==
  SigLayer(key, m, Repository[address]) \in content.layers

\* signing.Verify: what is tagged decides, and only where nothing is tagged
\* are the referrers asked for.
SignatureVerifies(place, m, key) ==
  IF Names(place, SigName(m))
  THEN ManifestVerifies(place.names[SigName(m)], m, key, place.address)
  ELSE place.lists /\ \E c \in Referrers(place, m, "sig") :
                        ManifestVerifies(c, m, key, place.address)

-----------------------------------------------------------------------------
(* Keyless signatures.                                                     *)

\* BundleReferrers, which cannot answer for a place that does not list.
BundleReferrers(place, m) == Referrers(place, m, "bundle")

\* FetchBundles and verifyKeyless: every one that can be read is tried.
KeylessVerifies(place, m, signers) ==
  /\ place.lists
  /\ ReadableRoot(signers.root)
  /\ \E c \in BundleReferrers(place, m) :
       VerifyBundle(Bundles[c.holds], m, signers.root, signers.identities)

\* verifyDigest: the keys in turn and then the identities.  It says who
\* accepted: a key, "keyless", or None.
VerifiedBy(place, m, signers) ==
  LET good == {i \in DOMAIN signers.keys : SignatureVerifies(place, m, signers.keys[i])}
  IN IF good # {} THEN signers.keys[Min(good)]
     ELSE IF signers.identities # {} /\ KeylessVerifies(place, m, signers) THEN "keyless"
     ELSE None

-----------------------------------------------------------------------------
(* The source attestation.                                                 *)

\* FetchAttestation: what is tagged, or else any one of the referrers.
Attestations(place, m) ==
  IF Names(place, AttName(m)) THEN {place.names[AttName(m)]}
  ELSE IF place.lists THEN Referrers(place, m, "att") ELSE {}

\* checkAttestation: held to the key that accepted the signature, reported as
\* unchecked where there is none.
AttestationRefuses(place, m, by) ==
  /\ by \notin {"keyless", None}
  /\ \E c \in Attestations(place, m) :
       LET statement == Statement(c.of, LayersFromManifest(LayersOf[c.of]), c.holds)
       IN ~(/\ StatementVerifies(statement, m, by)
            /\ MatchesManifest(statement.records, LayersOf[m]))

-----------------------------------------------------------------------------
(* The commands.                                                           *)

\* storeHoldsSignature.
HoldsSignature(store, m) ==
  Names(store, SigName(m)) \/ BundleReferrers(store, m) # {}
    \/ Referrers(store, m, "sig") # {}

ModelAt(place, t) ==
  IF Names(place, TagName(t)) THEN Digest(place.names[TagName(t)]) ELSE None

\* resolveVerifySource: the store, if it has the model and its signature, and
\* otherwise a registry, where there is one in reach.
VerifySources(store, registries, t) ==
  IF ModelAt(store, t) # None /\ HoldsSignature(store, ModelAt(store, t)) THEN {store}
  ELSE registries

\* The verify command: a source, a signature, this host's copy, a statement.
VerifyAccepts(store, registries, t, signers) ==
  \E source \in VerifySources(store, registries, t) :
    LET m == ModelAt(source, t)
        by == VerifiedBy(source, m, signers)
    IN /\ m # None
       /\ by # None
       /\ ModelAt(store, t) \in {None, m}
       /\ ~AttestationRefuses(source, m, by)

-----------------------------------------------------------------------------
(* The gate of an import (bundleVerifier in internal/cli/airgap.go).       *)

\* Mutant: the name of an attachment is excused for its shape.
ShapeExcuses(file, verified) == TRUE

\* Every name shaped like an attachment belongs to a model that verified,
\* and a bundle's holds the bundle that is attached to it.
AttachmentsBelong(file, verified) ==
  \A n \in DOMAIN file.names :
    \/ NamesModel(n)
    \/ n[1] \in {"sig", "att"} /\ n[2] \in verified
    \/ /\ n[1] = "bundle"
       /\ \E m \in verified : \E c \in BundleReferrers(file, m) :
            n = BundleName(c) /\ file.names[n] = c

\* What a place has tags for.
Tagged(place) ==
  {Digest(place.names[n]) : n \in {k \in DOMAIN place.names : NamesModel(k)}}

\* Everything the file has a tag for verifies, read from the file itself: what
\* it holds without a name vouches for a model there as much as the rest.
FileVerifies(file, signers) ==
  /\ \A m \in Tagged(file) : VerifiedBy(file, m, signers) # None
  /\ AttachmentsBelong(file, Tagged(file))
=============================================================================
