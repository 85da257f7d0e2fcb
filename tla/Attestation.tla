---------------------------- MODULE Attestation ----------------------------
(***************************************************************************)
(* The statement of where a model's layers came from: written when a model *)
(* is signed (internal/attest/attest.go, internal/signing/attestation.go)  *)
(* and held to the manifest when it is verified (attestationMatchesManifest*)
(* in internal/cli/sign.go).  A layer is its digest and what its           *)
(* annotations say of its source, None where they say nothing.             *)
(***************************************************************************)
EXTENDS Naturals, Sequences, SequencesExt, FiniteSetsExt

CONSTANT None

Sourced(layer) == layer.repo # None /\ layer.path # None

\* The layers a statement can say something of.
LayersFromManifest(layers) == SelectSeq(layers, Sourced)

\* validateLayers: a statement that says nothing, or does not say of what, is
\* not one.
ValidLayers(records) ==
  /\ records # <<>>
  /\ \A i \in DOMAIN records : Sourced(records[i]) /\ records[i].digest # None

\* Build: what a signer states of an artifact.
Statement(artifact, records, key) ==
  [by |-> {key}, subjects |-> <<artifact>>, type |-> "source", records |-> records]

CanBeBuilt(records) == ValidLayers(records)

\* attest.Verify.
StatementVerifies(statement, artifact, key) ==
  /\ key \in statement.by
  /\ statement.type = "source"
  /\ statement.subjects = <<artifact>>
  /\ ValidLayers(statement.records)

-----------------------------------------------------------------------------
Count(records, record) == Cardinality({i \in DOMAIN records : records[i] = record})

\* Mutant: records are marked off by their layer's digest alone.
TakenByDigest(left, records) ==
  LET digests == {r.digest : r \in {s \in DOMAIN left : left[s] > 0}}
  IN [ok |-> \A i \in DOMAIN records : records[i].digest \in digests,
      left |-> [r \in DOMAIN left |-> IF r.digest \in {records[i].digest : i \in DOMAIN records}
                                      THEN 0 ELSE left[r]]]

\* Each record takes one of the layers that are left, all fields alike, and
\* the first that finds none is refused.
TakeOne(was, record) ==
  IF was.ok /\ record \in DOMAIN was.left /\ was.left[record] > 0
  THEN [was EXCEPT !.left[record] = @ - 1]
  ELSE [was EXCEPT !.ok = FALSE]

Taken(left, records) ==
  LET after[n \in 0 .. Len(records)] ==
        IF n = 0 THEN [ok |-> TRUE, left |-> left]
        ELSE TakeOne(after[n - 1], records[n])
  IN after[Len(records)]

\* Every record takes a layer, and every layer is taken.
Accounted(records, want) ==
  LET taken == Taken([r \in ToSet(want) |-> Count(want, r)], records)
  IN taken.ok /\ \A r \in DOMAIN taken.left : taken.left[r] = 0

\* attestationMatchesManifest: every record is one of the layers', and no
\* layer with a source is left without a record.
MatchesManifest(records, layers) == Accounted(records, LayersFromManifest(layers))

-----------------------------------------------------------------------------
\* What it is for: the records are the layers' sources, each once for each
\* layer that has it, in whatever order.
DealtExactly(records, want) ==
  /\ Len(records) = Len(want)
  /\ \E deal \in [DOMAIN records -> DOMAIN want] :
       /\ \A i, j \in DOMAIN records : deal[i] = deal[j] => i = j
       /\ \A i \in DOMAIN records : records[i] = want[deal[i]]

CoversExactly(records, layers) == DealtExactly(records, LayersFromManifest(layers))
=============================================================================
