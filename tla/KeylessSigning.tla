--------------------------- MODULE KeylessSigning ---------------------------
(***************************************************************************)
(* What an honest certificate authority, signer and transparency log put   *)
(* on record (the fixture of internal/keyless/keylesstest), and the bundles*)
(* that can be put together from pieces of it.                             *)
(*                                                                         *)
(* A signing is who signed what and when the log took it in; the log is    *)
(* the sequence of signings, and a signing's place in it is its index.     *)
(***************************************************************************)
EXTENDS Keyless

CONSTANTS LogKey, Authority

\* Certify: short-lived, for signing code, with the provider on record.
Certify(signer, from, to) ==
  [key |-> signer.key, names |-> {signer.name}, issuerV1 |-> None,
   issuerV2 |-> signer.issuer, issuedBy |-> signer.authority,
   codeSigning |-> TRUE, from |-> from, to |-> to]

StatementOver(artifact) == [type |-> "statement", subjects |-> {artifact}]

SignatureOf(cert, payload) == Signature(cert.key, Enveloped("in-toto", payload))

\* signPayload: what the log is given to record.
BodyOf(signing) ==
  [kind |-> "dsse", payload |-> signing.payload,
   signatures |-> {[sig |-> SignatureOf(signing.cert, signing.payload),
                    cert |-> signing.cert]}]

Bodies(signings) == [i \in DOMAIN signings |-> BodyOf(signings[i])]

\* entryTimestamp: the entry, its date and its place, under the log's name.
Promise(signings, i) ==
  Signature(LogKey, <<"entry", BodyOf(signings[i]), signings[i].at, LogKey, i - 1>>)

\* checkpoint: the size and the root, signed.
SignedCheckpoint(signings) ==
  LET head == Checkpoint(Bodies(signings))
  IN [size |-> head.size, root |-> head.root,
      signatures |-> {Signature(LogKey, <<"note", head.size, head.root>>)}]

ProofOf(signings, i) ==
  [index |-> i - 1, size |-> Len(signings),
   hashes |-> PathTo(Bodies(signings), i - 1, 0, Len(signings)),
   root |-> Checkpoint(Bodies(signings)).root,
   checkpoint |-> SignedCheckpoint(signings)]

\* assemble, each piece from a signing of its own: the certificate, the
\* payload, the signature, the recorded entry, its place, its date, the
\* promise of the log, and the proof.
Assembled(signings, from) ==
  [format |-> "v0.3",
   certs |-> <<signings[from.cert].cert>>,
   payloadType |-> "in-toto",
   payload |-> signings[from.payload].payload,
   sigs |-> <<SignatureOf(signings[from.sig].cert, signings[from.sig].payload)>>,
   entries |-> <<[body |-> BodyOf(signings[from.body]),
                  log |-> LogKey, index |-> from.index - 1,
                  time |-> signings[from.time].at,
                  promise |-> Promise(signings, from.promise),
                  proof |-> ProofOf(signings, from.proof)]>>]

Pieces == {"cert", "payload", "sig", "body", "index", "time", "promise", "proof"}

\* All the pieces of one signing.
Whole(i) == [piece \in Pieces |-> i]

PinnedRoot ==
  [authorities |-> {[chain |-> <<Authority>>, valid |-> [start |-> 0, end |-> None]]},
   logs |-> {[key |-> LogKey, keyId |-> LogKey, stated |-> None,
              valid |-> [start |-> 0, end |-> None]]}]

-----------------------------------------------------------------------------
\* What an accepted bundle has to be: all of it one signing of the artifact,
\* by a signer the policy names, under a certificate the pinned authority
\* issued and that was valid when the log recorded it.
RecordsASigning(bundle, signings, artifact, root, allowed) ==
  \E i \in DOMAIN signings :
    LET s == signings[i]
    IN /\ bundle.certs[1] = s.cert /\ bundle.payload = s.payload
       /\ bundle.entries[1].time = s.at
       /\ artifact \in s.payload.subjects
       /\ \E a \in root.authorities :
            Has(a.chain, s.cert.issuedBy) /\ Covers(a.valid, s.at)
       /\ s.cert.from <= s.at /\ s.at <= s.cert.to
       /\ \E id \in allowed, name \in s.cert.names :
            /\ id.issuer = s.cert.issuerV2
            /\ StandsFor(id.subject, name.text)
=============================================================================
