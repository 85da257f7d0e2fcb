---------------------------- MODULE StoreLayout ----------------------------
(***************************************************************************)
(* What the local store holds, as far as sharing it is concerned: images   *)
(* (a manifest and the layers it names), the signature of an image, and    *)
(* the index that names them (internal/store/store.go over an OCI layout). *)
(* An image stands for its own manifest blob; a signature is one blob,     *)
(* named after the image it signs, with that image as its subject.         *)
(***************************************************************************)
CONSTANTS
  Refs,      \* model references
  Images,    \* manifests a reference may name
  Layers,    \* the blobs each manifest names
  Sig,       \* the signature manifest of each image
  None       \* a reference that names nothing

ASSUME LayoutAssumption ==
  /\ Refs # {}
  /\ Sig \in [Images -> {Sig[i] : i \in Images}]
  /\ \A i, j \in Images : Sig[i] = Sig[j] => i = j
  /\ \A i, j \in Images : Sig[i] \notin {j} \cup Layers[j]
  /\ \A i, j \in Images : i \notin Layers[j]
  /\ None \notin Images

Content(i) == {i} \cup Layers[i]

Blobs == (UNION {Content(i) : i \in Images}) \cup {Sig[i] : i \in Images}

\* index.json: what each reference names, and the images whose signature is
\* tagged.
Indexes == [tags : [Refs -> Images \cup {None}], sigs : SUBSET Images]

Tagged(ix) == {i \in Images : \E r \in Refs : ix.tags[r] = i}

\* What collection keeps: everything a tag reaches, and a signature reaches
\* the image it signs.
Keeps(ix) ==
  (UNION {Content(i) : i \in Tagged(ix)})
    \cup (UNION {{Sig[i]} \cup Content(i) : i \in ix.sigs})
=============================================================================
