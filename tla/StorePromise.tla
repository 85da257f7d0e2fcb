---------------------------- MODULE StorePromise ----------------------------
(***************************************************************************)
(* What the store promises whoever shares it, with no process, lock, view  *)
(* or crash in sight: blobs arrive, a reference is published only over     *)
(* content that has arrived, a signature goes only when nothing names what *)
(* it signs, and only content that nothing names is reclaimed.             *)
(***************************************************************************)
EXTENDS StoreLayout

VARIABLES
  index,   \* what is named, in index.json
  blobs    \* what is on disk, in blobs/

vars == <<index, blobs>>

Init ==
  /\ index = [tags |-> [r \in Refs |-> None], sigs |-> {}]
  /\ blobs = {}

Arrive(b) ==
  /\ blobs' = blobs \cup {b}
  /\ UNCHANGED index

Publish(r, i) ==
  /\ Content(i) \subseteq blobs
  /\ index' = [index EXCEPT !.tags[r] = i]
  /\ UNCHANGED blobs

Attach(i) ==
  /\ i \in Tagged(index)
  /\ Sig[i] \in blobs
  /\ index' = [index EXCEPT !.sigs = @ \cup {i}]
  /\ UNCHANGED blobs

Unlink(r) ==
  /\ index' = [index EXCEPT !.tags[r] = None]
  /\ UNCHANGED blobs

Detach(i) ==
  /\ i \notin Tagged(index)
  /\ index' = [index EXCEPT !.sigs = @ \ {i}]
  /\ UNCHANGED blobs

Reclaim(b) ==
  /\ b \notin Keeps(index)
  /\ blobs' = blobs \ {b}
  /\ UNCHANGED index

Next ==
  \/ \E b \in Blobs : Arrive(b) \/ Reclaim(b)
  \/ \E r \in Refs : Unlink(r) \/ \E i \in Images : Publish(r, i)
  \/ \E i \in Images : Attach(i) \/ Detach(i)

Spec == Init /\ [][Next]_vars
=============================================================================
