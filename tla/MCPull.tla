------------------------------- MODULE MCPull -------------------------------
(* Three artifacts under one reference: a signed one with a nested file and *)
(* a layer that is no file; one whose two names are one file; one whose     *)
(* weights have no name.                                                    *)
EXTENDS Pull, TLC

CONSTANTS m1, m2, m3, w, v, p1, p2

MCBlobs == {w, v}
MCSize == w :> 2 @@ v :> 1
MCImages == {m1, m2, m3}

LayerOf(blob, name, weight) ==
  [blob |-> blob, name |-> name, weight |-> weight, raw |-> TRUE, escapes |-> FALSE]

MCLayers ==
  m1 :> <<LayerOf(v, None, FALSE), LayerOf(w, "sub/model", TRUE)>> @@
  m2 :> <<LayerOf(w, "model", TRUE), LayerOf(v, "MODEL", FALSE)>> @@
  m3 :> <<LayerOf(w, None, TRUE)>>

MCFileOf == "sub/model" :> "f1" @@ "model" :> "f2" @@ "MODEL" :> "f2"
MCDirsOf == "sub/model" :> <<"sub">> @@ "model" :> <<>> @@ "MODEL" :> <<>>

NothingThere == [f \in OutFiles |-> Nothing]
MCOutputs == {[exists |-> FALSE, dirs |-> {}, files |-> NothingThere]}

MCCommands ==
  {[kind |-> "pull", gated |-> TRUE, rehash |-> FALSE, output |-> FALSE],
   [kind |-> "pull", gated |-> FALSE, rehash |-> FALSE, output |-> TRUE],
   [kind |-> "run", gated |-> TRUE, rehash |-> TRUE, output |-> FALSE],
   [kind |-> "serve", gated |-> TRUE, rehash |-> FALSE, output |-> FALSE]}

MCProcs == {p1, p2}
MCSigned == {m1}
=============================================================================
