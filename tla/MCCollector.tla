---------------------------- MODULE MCCollector ----------------------------
(***************************************************************************)
(* Collector over every manifest three digests allow: a model, a signature *)
(* and an attestation of it, an index or an image and its part, a subject  *)
(* beside a part, one manifest under two names.  And over four digests     *)
(* that all have a subject and name at most one other, which is enough for *)
(* two descriptions each of which is kept by way of the other.             *)
(* Digests are told apart only by what they hold, references not at all.   *)
(***************************************************************************)
EXTENDS Collector, TLC

MCEveryManifest == Manifests

MCAttached ==
  {m \in Manifests : /\ m.kind = "image" /\ m.subject # None
                     /\ \A a, b \in m.parts : a = b
                     /\ m.describes \/ m.parts # {}}

MCSymmetry == Permutations(Nodes) \cup Permutations(Refs)
=============================================================================
