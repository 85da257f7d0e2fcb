-------------------------- MODULE MCRuntimeUnpack --------------------------
(* A signed build of two files, an unsigned one that shares a file with it, *)
(* and one whose config names an entrypoint it does not carry.              *)
EXTENDS RuntimeUnpack, TLC

CONSTANTS b1, b2, b3, bin, lib, p1, p2

MCBuilds == {b1, b2, b3}
MCBlobs == {bin, lib}
MCProcs == {p1, p2}
MCSigned == {b1, b3}

File(name, blob) == [name |-> name, blob |-> blob]

MCLayers ==
  b1 :> <<File("server", bin), File("lib", lib)>> @@
  b2 :> <<File("server", bin)>> @@
  b3 :> <<File("lib", lib)>>

MCConfig ==
  [b \in MCBuilds |-> [runtime |-> TRUE, host |-> TRUE, safe |-> TRUE, entry |-> "server"]]
=============================================================================
