--------------------------- MODULE InclusionProof ---------------------------
(***************************************************************************)
(* The transparency log's Merkle tree: how a proof of inclusion is walked  *)
(* up to a root (rootFromInclusionProof, internal/keyless/tlog.go), and    *)
(* the tree it has to agree with (RFC 6962, as the repository's tests      *)
(* build it in keylesstest/merkle.go).  A hash is the term it hashes, so   *)
(* two are equal only if their contents are; a leaf has two components, a  *)
(* node three and a log with no entries none, kept apart in the code by    *)
(* their prefixes.                                                         *)
(***************************************************************************)
EXTENDS Naturals, Sequences, SequencesExt, FiniteSetsExt

EmptyHash == <<>>
LeafHash(entry) == <<0, entry>>
HashChildren(left, right) == <<1, left, right>>

TwoTo(n) ==
  LET power[k \in 0 .. n] == IF k = 0 THEN 1 ELSE 2 * power[k - 1] IN power[n]

Shifted(n, i) == n \div TwoTo(i)
Bit(n, i) == Shifted(n, i) % 2

\* Mutant: the walk is measured against the number of entries, one too many.
InnerByCount(index, size) ==
  CHOOSE k \in 0 .. size :
    /\ Shifted(index, k) = Shifted(size, k)
    /\ \A j \in 0 .. k - 1 : Shifted(index, j) # Shifted(size, j)

\* The levels below the one at which the leaf and the last leaf part: the
\* length in bits of index XOR (size - 1).
Inner(index, size) ==
  CHOOSE k \in 0 .. size :
    /\ Shifted(index, k) = Shifted(size - 1, k)
    /\ \A j \in 0 .. k - 1 : Shifted(index, j) # Shifted(size - 1, j)

\* The subtrees to the left along the tree's right border.
Border(index, size) ==
  Cardinality({i \in 0 .. size : Bit(Shifted(index, Inner(index, size)), i) = 1})

NeedsHashes(index, size) == Inner(index, size) + Border(index, size)

\* Refused before it is walked: an index outside the log, or a proof that is
\* too short or too long for it.
WellFormedProof(index, size, hashes) ==
  size > 0 /\ index < size /\ Len(hashes) = NeedsHashes(index, size)

RootFromInclusionProof(index, size, leaf, hashes) ==
  LET inner == Inner(index, size)
      up[k \in 0 .. Len(hashes)] ==
        IF k = 0 THEN leaf
        ELSE IF k <= inner /\ Bit(index, k - 1) = 0
             THEN HashChildren(up[k - 1], hashes[k])
             ELSE HashChildren(hashes[k], up[k - 1])
  IN up[Len(hashes)]

\* verifyLogEntry's part in it: the checkpoint signs a size and a root, the
\* proof must be against that size, and must rebuild that root.
ProvesInclusion(proof, checkpoint, entry) ==
  /\ checkpoint.size = proof.size
  /\ WellFormedProof(proof.index, proof.size, proof.hashes)
  /\ RootFromInclusionProof(proof.index, proof.size, LeafHash(entry), proof.hashes)
       = checkpoint.root

-----------------------------------------------------------------------------
(* The tree itself, over the k entries of a log after the first `from`.    *)

\* The largest power of two strictly smaller than n.
Split(n) == Max({TwoTo(i) : i \in {j \in 0 .. n : TwoTo(j) < n}})

SubtreeRoot(log, lo, n) ==
  LET root[k \in 0 .. Len(log)] ==
        [from \in 0 .. Len(log) - k |->
           IF k = 0 THEN EmptyHash
           ELSE IF k = 1 THEN LeafHash(log[from + 1])
           ELSE HashChildren(root[Split(k)][from], root[k - Split(k)][from + Split(k)])]
  IN root[n][lo]

PathTo(log, index, lo, n) ==
  LET path[k \in 0 .. Len(log)] ==
        [from \in 0 .. Len(log) - k |->
           LET left == Split(k)
               mid == from + left
           IN IF k <= 1 THEN <<>>
              ELSE IF index < mid
              THEN Append(path[left][from], SubtreeRoot(log, mid, k - left))
              ELSE Append(path[k - left][mid], SubtreeRoot(log, from, left))]
  IN path[n][lo]

Checkpoint(log) == [size |-> Len(log), root |-> SubtreeRoot(log, 0, Len(log))]

\* What a log has to offer: its own proofs, of any entry, cut short or made
\* longer, under any index and any size.
OfferedProofs(log, index, size) ==
  LET paths == {PathTo(log, i, 0, Len(log)) : i \in 0 .. Len(log) - 1}
      cut == {Tail(p) : p \in paths \ {<<>>}} \cup {Front(p) : p \in paths \ {<<>>}}
      longer == {Append(p, LeafHash(log[1])) : p \in paths}
  IN {[index |-> index, size |-> size, hashes |-> h] : h \in paths \cup cut \cup longer}
=============================================================================
