--------------------------- MODULE MCStoreAccess ---------------------------
(* Small instances of StoreAccess for TLC: two references that can name    *)
(* the same image, and two images that share a layer.                      *)
EXTENDS StoreAccess, TLC

CONSTANTS r1, r2, i1, i2, s1, s2, shared, own

MCLayers == i1 :> {shared, own} @@ i2 :> {shared}
MCSig    == i1 :> s1 @@ i2 :> s2
MCOffers == r1 :> {i1, i2} @@ r2 :> {i1}

\* One image, with one layer, for the liveness run.
MCLayersOne == i1 :> {own}
MCSigOne    == i1 :> s1
MCOffersOne == r1 :> {i1}

MCSymmetry == Permutations(Procs)
=============================================================================
