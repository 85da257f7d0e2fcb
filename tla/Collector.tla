----------------------------- MODULE Collector -----------------------------
(***************************************************************************)
(* Removal and collection in the local store: RemoveReporting and GC of    *)
(* internal/store/store.go, run by a process that holds the exclusive      *)
(* lock, over every graph of manifests a layout can hold.                  *)
(*                                                                         *)
(* A node is a digest.  What it holds is fixed once it is first stored and *)
(* names only digests made before, so graphs are acyclic.  An index names  *)
(* its parts as manifests, which are read; an image names its parts as     *)
(* blobs, which are not, though a part may be a manifest.  A step is one   *)
(* save of index.json or one blob removed, and a command may fail or die   *)
(* between any two.  A node that is there can be read.                     *)
(***************************************************************************)
EXTENDS FiniteSets

CONSTANTS
  Nodes,   \* digests
  Refs,    \* names the index can give a manifest
  Shapes,  \* the manifests that writers of this layout make
  None     \* no node

VARIABLES
  made,      \* what each digest holds, or would hold
  blobs,     \* the digests in blobs/
  tags,      \* index.json: the manifest each reference names
  known,     \* index.json: the manifests it lists, tagged or not
  pc,        \* where the command under way is
  work,      \* the nodes the pass under way has still to remove
  target,    \* the node a removal or a pass is in the middle of removing
  promised   \* history: what Held said collection would keep, at its start

layoutVars == <<made, blobs, tags, known>>
vars == <<layoutVars, pc, work, target, promised>>

NodeOrNone == Nodes \cup {None}

Manifests == [kind : {"image", "index"}, parts : SUBSET Nodes,
              subject : NodeOrNone, describes : BOOLEAN]

ASSUME CollectorAssumption == None \notin Nodes /\ Shapes \subseteq Manifests

Blob   == [kind |-> "blob", parts |-> {}, subject |-> None,
           describes |-> FALSE]
Unmade == [Blob EXCEPT !.kind = "unmade"]

Passes == {"repair", "unlink", "unlinking", "purge", "collect", "sweep",
           "collected"}

\* Type invariant: every variable of the layout and its command has its kind.
TypeOK ==
  /\ made \in [Nodes -> Manifests \cup {Blob, Unmade}]
  /\ blobs \subseteq Nodes
  /\ tags \in [Refs -> NodeOrNone]
  /\ known \subseteq Nodes
  /\ pc \in Passes \cup {"idle", "taking", "untagged"}
  /\ work \subseteq Nodes
  /\ target \in NodeOrNone
  /\ promised \subseteq Nodes

Init ==
  /\ made = [n \in Nodes |-> Unmade]
  /\ blobs = {}
  /\ tags = [r \in Refs |-> None]
  /\ known = {}
  /\ pc = "idle"
  /\ work = {}
  /\ target = None
  /\ promised = {}

-----------------------------------------------------------------------------
(* Reading the layout.                                                     *)

Tagged   == {n \in Nodes : \E r \in Refs : tags[r] = n}
Untagged == known \ Tagged

\* readHead: a manifest that is not there is read as naming no subject.
Subject(n)   == IF n \in blobs THEN made[n].subject ELSE None
Describes(n) == n \in blobs /\ made[n].describes
Refers(n)    == Subject(n) # None

\* What a walk reads next, and what it marks without reading.
Children(n) == (IF made[n].kind = "index" THEN made[n].parts ELSE {})
                 \cup ({made[n].subject} \ {None})
Opaque(n) == IF made[n].kind = "image" THEN made[n].parts ELSE {}

Closed(W) == \A n \in W : Children(n) \cap blobs \subseteq W

\* What a walk from S reads: an absent manifest adds nothing.
Walk(S) ==
  {n \in blobs : \A W \in SUBSET blobs : S \cap blobs \subseteq W /\ Closed(W)
                                           => n \in W}

\* successorClosure.
Reach(S) == Walk(S) \cup UNION {Opaque(n) : n \in Walk(S)}

-----------------------------------------------------------------------------
(* What collection keeps of the index entries E.                           *)

\* Every tagged entry that does not merely describe another is a root.
Anchors(E) == {n \in E \cap Tagged : ~Describes(n)}

\* The reasons a referrer keeps its place beside what is reachable, R.
StaysFor(n, R) ==
  \/ Subject(n) \in R
  \/ n \in Tagged /\ (n \in R \/ Subject(n) \notin blobs)

\* The referrers of E that keep their place once those of A do.
Admits(E, A) ==
  {n \in E : Refers(n) /\ StaysFor(n, Reach(Anchors(E) \cup A))}

\* admit: rounds repeated until nothing more is admitted.
Admitted(E) ==
  {n \in E : \A A \in SUBSET E : Admits(E, A) \subseteq A => n \in A}

\* The untagged entries attached to what is reachable, R.
Attached(E, R) ==
  {n \in E \ Tagged : Refers(n) /\ Subject(n) \in R}

WithReferrers(E, R) == R \cup Reach(Attached(E, R))

\* keeps, and so Held.
Kept(E) ==
  WithReferrers(E, Reach(Anchors(E) \cup (Admitted(E) \cap Tagged)))

\* What the layout library keeps by itself: one hop beside the tagged graph.
Live == WithReferrers(known, Reach(Tagged))

-----------------------------------------------------------------------------
Goto(step) == pc' = step

Stop == pc' = "idle" /\ work' = {} /\ target' = None /\ promised' = {}

\* The index forgets n under every name it has.
Unindex(n) ==
  /\ known' = known \ {n}
  /\ tags' = [r \in Refs |-> IF tags[r] = n THEN None ELSE tags[r]]

\* deleteManifest: the index is saved, and then the blob goes, unless the
\* command dies first.
Delete(n, step) ==
  /\ Unindex(n)
  /\ \/ /\ blobs' = blobs \ {n}
        /\ Goto(step)
        /\ work' = work \ {n}
        /\ target' = None
        /\ UNCHANGED promised
     \/ UNCHANGED blobs /\ Stop
  /\ UNCHANGED made

-----------------------------------------------------------------------------
(* What arrives: pull, pack, load, and any other writer of the layout.     *)

Made == {n \in Nodes : made[n] # Unmade}

\* The manifests that can be made: they name digests that exist somewhere.
Makeable ==
  {m \in Shapes :
     /\ m.parts \subseteq Made /\ m.subject \in Made \cup {None}
     /\ m.describes => m.subject # None
     /\ m.kind = "index" => \A n \in m.parts : made[n] # Blob}

Arrive(n, m) ==
  /\ made' = [made EXCEPT ![n] = m]
  /\ blobs' = blobs \cup {n}

PushBlob(n) ==
  /\ pc = "idle" /\ n \notin blobs
  /\ made[n] \in {Unmade, Blob}
  /\ Arrive(n, Blob)
  /\ UNCHANGED <<tags, known, pc, work, target, promised>>

\* A manifest arrives: the layout lists it under its digest.
PushManifest(n) ==
  /\ pc = "idle" /\ n \notin blobs
  /\ \E m \in IF made[n] = Unmade THEN Makeable ELSE {made[n]} \ {Blob} :
       Arrive(n, m)
  /\ known' = known \cup {n}
  /\ UNCHANGED <<tags, pc, work, target, promised>>

\* Store.Tag: the reference names n, and no longer what it named.
Tag(r, n) ==
  /\ pc = "idle"
  /\ n \in blobs /\ made[n] # Blob /\ tags[r] # n
  /\ tags' = [tags EXCEPT ![r] = n]
  /\ known' = known \cup {n}
  /\ UNCHANGED <<made, blobs, pc, work, target, promised>>

-----------------------------------------------------------------------------
(* RemoveReporting.                                                        *)

NamedBeside(r, n) == \E q \in Refs \ {r} : tags[q] = n

\* The tagged descriptions of n, and theirs in turn.
Along(n) ==
  {e \in Tagged : \A D \in SUBSET Tagged :
     {d \in Tagged : Describes(d) /\ Subject(d) \in {n} \cup D} \subseteq D
       => e \in D}

\* Mutant: anything at all that names n, itself removable or not.
RefusedByAnyReferrer(n) == \E m \in known \ Along(n) : Subject(m) = n

\* HeldError: other content refers to n or to a description it would take.
Refused(n) ==
  ({n} \cup Along(n)) \cap Kept(known \ ({n} \cup Along(n))) # {}

\* Mutant: what goes along is kept by its names.
TakeByName(r) ==
  /\ pc = "idle" /\ tags[r] # None
  /\ LET n == tags[r]
     IN  /\ Describes(n) /\ ~NamedBeside(r, n) /\ ~Refused(n)
         /\ work' = {q \in Refs : tags[q] \in Along(n)}
         /\ target' = n
  /\ Goto("taking")
  /\ UNCHANGED <<layoutVars, promised>>

\* A description goes with the descriptions of it, unless it is refused,
\* which changes nothing.
Take(r) ==
  /\ pc = "idle" /\ tags[r] # None
  /\ LET n == tags[r]
     IN  /\ Describes(n) /\ ~NamedBeside(r, n) /\ ~Refused(n)
         /\ work' = Along(n)
         /\ target' = n
  /\ Goto("taking")
  /\ UNCHANGED <<layoutVars, promised>>

\* Anything else only loses its name.
Untag(r) ==
  /\ pc = "idle" /\ tags[r] # None
  /\ Describes(tags[r]) => NamedBeside(r, tags[r])
  /\ tags' = [tags EXCEPT ![r] = None]
  /\ UNCHANGED <<made, blobs, known, pc, work, target, promised>>

\* The deepest description goes first.
TakeAlong(d) ==
  /\ pc = "taking" /\ d \in work
  /\ \A e \in work : Subject(e) # d
  /\ Unindex(d)
  /\ \/ /\ blobs' = blobs \ {d}
        /\ work' = work \ {d}
        /\ UNCHANGED <<pc, target, promised>>
     \/ UNCHANGED blobs /\ Stop
  /\ UNCHANGED made

\* Mutant: what was named goes before the descriptions of it.
TakeNamedFirst ==
  /\ pc = "taking"
  /\ tags' = [r \in Refs |-> IF tags[r] = target THEN None ELSE tags[r]]
  /\ Goto("untagged")
  /\ UNCHANGED <<made, blobs, known, work, target, promised>>

\* Then the description that was named, untagged and deleted.
TakeNamed ==
  /\ pc = "taking" /\ work = {}
  /\ tags' = [r \in Refs |-> IF tags[r] = target THEN None ELSE tags[r]]
  /\ Goto("untagged")
  /\ UNCHANGED <<made, blobs, known, work, target, promised>>

TakeDone == pc = "untagged" /\ Delete(target, "idle")

-----------------------------------------------------------------------------
(* GC.                                                                     *)

Collect ==
  /\ pc = "idle"
  /\ promised' = Kept(known) \cap blobs
  /\ Goto("repair")
  /\ UNCHANGED <<layoutVars, work, target>>

\* dropIndexEntriesWithoutBlobs.
Repair ==
  /\ pc = "repair"
  /\ \E n \in known \ blobs : Unindex(n)
  /\ UNCHANGED <<made, blobs, pc, work, target, promised>>

\* Mutant: one hop from the artifacts, not a chain of descriptions.
OrphansOneHop ==
  {n \in Tagged : Describes(n) /\ Subject(n) \notin Reach(Anchors(known))}

\* Mutant: a description is an orphan once its model is gone, not before.
OrphansOfMissing == {n \in Tagged : Describes(n) /\ Subject(n) \notin blobs}

Orphans == {n \in Tagged : Describes(n) /\ n \notin Admitted(known)}

Repaired ==
  /\ pc = "repair" /\ known \subseteq blobs
  /\ work' = Orphans
  /\ Goto("unlink")
  /\ UNCHANGED <<layoutVars, target, promised>>

\* unlinkOrphanedTagged: the name goes first, then the manifest under every
\* other name it has.
Unlink(r) ==
  /\ pc = "unlink" /\ tags[r] \in work
  /\ target' = tags[r]
  /\ tags' = [tags EXCEPT ![r] = None]
  /\ Goto("unlinking")
  /\ UNCHANGED <<made, blobs, known, work, promised>>

Unlinked == pc = "unlinking" /\ Delete(target, "unlink")

\* Untagged referrers whose subject is out of the tagged graph.
Adrift == {n \in Untagged : Refers(n) /\ Subject(n) \notin Reach(Tagged)}

\* Mutant: a referrer that something kept names is deleted like the others.
UnlinkDoneAll ==
  /\ pc = "unlink" /\ work = {}
  /\ work' = Adrift
  /\ Goto("purge")
  /\ UNCHANGED <<layoutVars, target, promised>>

UnlinkDone ==
  /\ pc = "unlink" /\ work = {}
  /\ work' = Adrift \ Live
  /\ Goto("purge")
  /\ UNCHANGED <<layoutVars, target, promised>>

\* deleteUnreachableUntagged.
Purge == pc = "purge" /\ \E n \in work : Delete(n, "purge")

\* Mutant: what is not deleted keeps its entry.
ForgetNothing ==
  /\ pc = "purge" /\ work = {}
  /\ Goto("collect")
  /\ UNCHANGED <<made, blobs, tags, known, work, target, promised>>

\* forgetUntagged: those that something kept names lose their entry only.
Forget ==
  /\ pc = "purge" /\ work = {}
  /\ known' = known \ Adrift
  /\ Goto("collect")
  /\ UNCHANGED <<made, blobs, tags, work, target, promised>>

\* What the layout's collector can work on: it fails on an entry whose
\* manifest is gone, and never returns from one whose subject it cannot
\* place.
Placed == \A n \in Untagged :
            n \in blobs /\ (Refers(n) => Subject(n) \in Reach(Tagged))

LayoutGC ==
  /\ pc = "collect" /\ Placed
  /\ work' = blobs \ Live
  /\ Goto("sweep")
  /\ UNCHANGED <<layoutVars, target, promised>>

Sweep ==
  /\ pc = "sweep"
  /\ \E n \in work : blobs' = blobs \ {n} /\ work' = work \ {n}
  /\ UNCHANGED <<made, tags, known, pc, target, promised>>

\* The view the collector rebuilt is saved, also when a removal failed.
SaveIndex ==
  /\ pc = "sweep"
  /\ known' = Tagged \cup Attached(known, Reach(Tagged))
  /\ \/ work = {} /\ Goto("collected") /\ UNCHANGED <<work, target, promised>>
     \/ work # {} /\ Stop
  /\ UNCHANGED <<made, blobs, tags>>

\* The command returns, fails or dies.
Ends ==
  /\ pc # "idle" /\ Stop
  /\ UNCHANGED layoutVars

-----------------------------------------------------------------------------
Arrivals == \/ \E n \in Nodes : PushBlob(n) \/ PushManifest(n)
            \/ \E r \in Refs, n \in Nodes : Tag(r, n)

Removal == \/ \E r \in Refs : Take(r) \/ Untag(r)
           \/ \E d \in Nodes : TakeAlong(d)
           \/ TakeNamed \/ TakeDone

Collection == \/ Collect \/ Repair \/ Repaired \/ Unlinked \/ UnlinkDone
              \/ \E r \in Refs : Unlink(r)
              \/ Purge \/ Forget \/ LayoutGC \/ Sweep \/ SaveIndex

Next == Arrivals \/ Removal \/ Collection \/ Ends

Spec == Init /\ [][Next]_vars

-----------------------------------------------------------------------------
Content == Reach(Anchors(known))

\* No step of a removal or a collection takes a blob that tagged content
\* reaches: whatever order the passes run in, whatever they computed before
\* an earlier one deleted something, and whatever was interrupted before.
ContentStays == [][Content \cap blobs \subseteq blobs']_vars

\* Held says what collection then does: it keeps all it promised to ...
HeldIsKept == pc \in Passes => promised \subseteq blobs

\* ... and reclaims everything else.
UnheldIsReclaimed == pc = "collected" => blobs = promised

\* The layout's collector is only ever given a graph it returns from.
CollectorReturns == pc = "collect" => Placed

\* A removal that stops partway leaves no tagged description of something
\* it has taken.
DeepestFirst ==
  [][\A n \in blobs \ blobs', e \in Tagged \cap blobs' :
       (pc \in {"taking", "untagged"} /\ Describes(e)) => Subject(e) # n]_vars

\* Once the store no longer holds a removed model, nothing refuses the
\* removal of what describes it.
RemovedModelFreesDescriptions ==
  pc = "idle" =>
    \A n \in blobs : n \notin Kept(known) /\ n \notin Tagged =>
      \A e \in Tagged : Describes(e) /\ Subject(e) = n => ~Refused(e)

\* Removals do not block each other for good: while anything is tagged, some
\* reference can be removed (internal/store/removal_table_test.go:301, and
\* HeldError's "remove that first").  Four manifests are enough to break it.
SomethingRemovable ==
  pc = "idle" /\ Tagged # {} =>
    \E r \in Refs : tags[r] # None /\
      (Describes(tags[r]) => NamedBeside(r, tags[r]) \/ ~Refused(tags[r]))
=============================================================================
