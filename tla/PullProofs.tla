----------------------------- MODULE PullProofs -----------------------------
(***************************************************************************)
(* Theorems of Pull, for any artifacts, blobs, attempts, commands, output  *)
(* directories and number of processes: a gated command never gets hold of *)
(* an artifact that did not verify, what has a name has its content, an    *)
(* output directory reported as written holds every layer, a refused one   *)
(* is as it was, and who needs the store's lock has it.                    *)
(***************************************************************************)
EXTENDS Pull, TLAPS

Processes ==
  [at : Places, cmd : Commands \cup {None}, verified : Images \cup {None},
   root : Images \cup {None}, loaded : Images \cup {None},
   then : {"ended", "refused", "lock", "shared"}]

\* As much of the variables' kinds as the proofs need.
Kinds ==
  /\ proc \in [Procs -> Processes]
  /\ \A p \in Procs :
       /\ proc[p].at = "idle" => proc[p] = Idle
       /\ proc[p].at \in {"fetch", "copy", "attach"} => proc[p].root \in Images
  /\ origin \in Images
  /\ tag \in Images \cup {None}
  /\ task \in [Blobs -> [at : TaskPlaces, tries : Nat]]
  /\ disk \in [Blobs -> {"absent", "whole", "altered"}]

\* Places a gated command reaches only by way of its gate.
PastGate(c) ==
  \/ c.at \in {"resolve", "fetch", "copy", "attach", "write", "look", "prepare"}
  \/ c.at = "lock" /\ c.cmd.kind # "pull"
  \/ c.at = "release" /\ c.then = "lock"

\* Places in which it has fetched nothing yet.
BeforeFetch(c) ==
  \/ c.at \in {"gate", "check", "look", "lock"}
  \/ c.at = "release" /\ c.then = "lock"

\* A gated command past its gate knows what verified there, and has hold of
\* nothing else; before it, it has hold of nothing.
Carries(c) ==
  c.cmd # None /\ c.cmd.gated =>
    /\ c.verified \in Signed \cup {None}
    /\ c.root \in {None, c.verified}
    /\ c.loaded \in {None, c.verified}
    /\ PastGate(c) => c.verified # None
    /\ BeforeFetch(c) => c.root = None
    /\ c.loaded # None => c.at = "release" /\ c.then = "ended"

Carried == \A p \in Procs : Carries(proc[p])

\* A blob whose download is over is there, and so are all of an artifact that
\* is about to be named or has a name.
Present(image) == \A b \in BlobsOf(image) : disk[b] # "absent"

Arrived ==
  /\ \A b \in Blobs : task[b].at \in {"sweep", "done"} => disk[b] # "absent"
  /\ \A p \in Procs : proc[p].at = "copy" => Present(proc[p].root)
  /\ tag # None => Present(tag)

IInv == Kinds /\ Carried /\ Arrived

-----------------------------------------------------------------------------
\* The layers of an artifact are blobs that can be downloaded.
LEMMA LayersAreBlobs == ASSUME NEW image \in Images PROVE BlobsOf(image) \subseteq Blobs
<1>1. Layers[image] \in Seq(Layer)
  BY MaterializeAssumption
<1>2. \A i \in DOMAIN Layers[image] : Layers[image][i] \in Layer
  BY <1>1
<1> QED BY <1>2 DEF BlobsOf, Layer

LEMMA IdleIsAProcess == Idle \in Processes
BY DEF Idle, Processes, Places, Exclusive, Shared

LEMMA InitInv == ASSUME Init PROVE IInv
<1>1. Kinds
  BY IdleIsAProcess DEF Init, DownloadInit, Kinds, NoTask, TaskPlaces, Idle
<1>2. Carried
  BY DEF Init, Carried, Carries, Idle
<1>3. Arrived
  BY DEF Init, DownloadInit, Arrived, NoTask, Idle
<1> QED BY <1>1, <1>2, <1>3 DEF IInv

-----------------------------------------------------------------------------
\* What happens to the content: blobs come, whole, and none goes.
LEMMA ContentInv ==
  ASSUME IInv, UNCHANGED <<origin, tag, proc>>,
         task' \in [Blobs -> [at : TaskPlaces, tries : Nat]],
         disk' \in [Blobs -> {"absent", "whole", "altered"}],
         \A b \in Blobs : disk[b] # "absent" => disk'[b] # "absent",
         \A b \in Blobs : task'[b].at \in {"sweep", "done"} => disk'[b] # "absent"
  PROVE  IInv'
<1>1. Kinds' /\ Carried'
  BY DEF IInv, Kinds, Carried
<1>2. \A image \in Images : Present(image) => Present(image)'
  BY LayersAreBlobs DEF Present, BlobsOf
<1>3. Arrived'
  BY <1>2 DEF IInv, Kinds, Arrived
<1> QED BY <1>1, <1>3 DEF IInv

\* One step of a command: it goes on to another record that carries no more
\* than it may, and the blobs are those there were.
LEMMA CommandInv ==
  ASSUME IInv, NEW p \in Procs, NEW c \in Processes,
         proc' = [proc EXCEPT ![p] = c],
         c.at = "idle" => c = Idle,
         c.at \in {"fetch", "copy", "attach"} => c.root \in Images,
         Carries(c),
         disk' = disk, origin' = origin,
         task' \in [Blobs -> [at : TaskPlaces, tries : Nat]],
         \A b \in Blobs : task'[b].at \in {"sweep", "done"} => disk[b] # "absent",
         tag' \in Images \cup {None},
         c.at = "copy" => Present(c.root),
         tag' # None => Present(tag')
  PROVE  IInv'
<1>1. \A q \in Procs : proc'[q] = IF q = p THEN c ELSE proc[q]
  BY DEF IInv, Kinds
<1>2. Kinds'
  BY <1>1 DEF IInv, Kinds
<1>3. Carried'
  BY <1>1 DEF IInv, Carried
<1>4. \A image : Present(image)' <=> Present(image)
  BY DEF Present, BlobsOf
<1>5. Arrived'
  BY <1>1, <1>4 DEF IInv, Arrived
<1> QED BY <1>2, <1>3, <1>5 DEF IInv

-----------------------------------------------------------------------------
\* A download goes from one place to another; only a partial file with the
\* blob's digest becomes the blob, and only then is its download over.
LEMMA DownloadInv ==
  ASSUME IInv, NEW b \in Blobs, Downloading(b) PROVE IInv'
<1> DEFINE Tasks == [at : TaskPlaces, tries : Nat]
<1>1. UNCHANGED <<origin, tag, proc>>
  BY DEF Downloading, nameVars
<1>2. task \in [Blobs -> Tasks] /\ task[b] \in Tasks
  BY DEF IInv, Kinds
<1>3. \A place \in TaskPlaces : Goes(b, place) =>
        /\ task' \in [Blobs -> Tasks] /\ task'[b].at = place
        /\ \A c \in Blobs \ {b} : task'[c] = task[c]
  BY <1>2 DEF Goes
<1>4. AttemptFails(b) =>
        /\ task' \in [Blobs -> Tasks] /\ task'[b].at \in {"try", "failed"}
        /\ \A c \in Blobs \ {b} : task'[c] = task[c]
  BY <1>2 DEF AttemptFails, TaskPlaces
<1>5. CASE InstallPartial(b) /\ Hashes(b) /\ BecomesBlob(b) /\ Goes(b, "sweep")
  <2>1. disk'[b] = (IF disk[b] # "absent" THEN disk[b] ELSE "whole")
        /\ disk' \in [Blobs -> {"absent", "whole", "altered"}]
        /\ \A c \in Blobs \ {b} : disk'[c] = disk[c]
    BY <1>5 DEF BecomesBlob, IInv, Kinds
  <2> QED BY <1>1, <1>2, <1>3, <1>5, <2>1, ContentInv DEF IInv, Kinds, Arrived, TaskPlaces
<1>6. CASE /\ disk' = disk
           /\ \/ AttemptFails(b)
              \/ task' = task
              \/ \E place \in TaskPlaces \ {"sweep", "done"} : Goes(b, place)
              \/ task[b].at = "sweep" /\ Goes(b, "done")
  BY <1>1, <1>2, <1>3, <1>4, <1>6, ContentInv DEF IInv, Kinds, Arrived, TaskPlaces
<1>7. \/ InstallPartial(b) /\ Hashes(b) /\ BecomesBlob(b) /\ Goes(b, "sweep")
      \/ /\ disk' = disk
         /\ \/ AttemptFails(b)
            \/ task' = task
            \/ \E place \in TaskPlaces \ {"sweep", "done"} : Goes(b, place)
            \/ task[b].at = "sweep" /\ Goes(b, "done")
  BY DEF Downloading, DownloadStep, RehashPartial, AnsweredWhole, AnsweredRest,
    AnsweredNoRange, NotAnswered, Receive, StreamEnds, InstallPartial, SweepPartial,
    Cancelled, TaskPlaces
<1> QED BY <1>5, <1>6, <1>7

\* The steps that leave every download as it is.
StaysOrStops ==
  \/ task' = task
  \/ task' = [b \in Blobs |-> NoTask]

LEMMA TasksStop ==
  ASSUME IInv, StaysOrStops
  PROVE  /\ task' \in [Blobs -> [at : TaskPlaces, tries : Nat]]
         /\ \A b \in Blobs : task'[b].at \in {"sweep", "done"} => disk[b] # "absent"
BY DEF IInv, Kinds, Arrived, StaysOrStops, NoTask, TaskPlaces

\* A command begins, ends, or waits.
LEMMA LockInv ==
  ASSUME IInv, NEW p \in Procs,
         Begin(p) \/ TakeExclusive(p) \/ TakeShared(p) \/ Release(p) \/ Crash(p)
  PROVE  IInv'
<1> DEFINE c == proc'[p]
<1>1. proc[p] \in Processes /\ Carries(proc[p])
  BY DEF IInv, Kinds, Carried
<1>2. disk' = disk /\ origin' = origin /\ tag' = tag /\ StaysOrStops
  BY DEF Begin, TakeExclusive, TakeShared, Release, Crash, downloadVars, nameVars,
    StaysOrStops, NoTasks
<1>3. /\ c \in Processes /\ proc' = [proc EXCEPT ![p] = c]
      /\ c.at = "idle" => c = Idle
      /\ c.at \notin {"fetch", "copy", "attach"}
      /\ Carries(c)
  <2>1. CASE Begin(p)
    <3>1. PICK cmd \in Commands :
            proc' = [proc EXCEPT ![p].cmd = cmd,
                      ![p].at = IF cmd.kind = "pull" THEN "lock" ELSE "shared"]
      BY <2>1 DEF Begin
    <3>2. proc[p] = Idle
      BY <2>1 DEF Begin, IInv, Kinds
    <3>3. c = [Idle EXCEPT !.cmd = cmd,
                           !.at = IF cmd.kind = "pull" THEN "lock" ELSE "shared"]
      BY <3>1, <3>2 DEF IInv, Kinds
    <3>4. proc' = [proc EXCEPT ![p] = c]
      BY <3>1 DEF IInv, Kinds
    <3> HIDE DEF c
    <3> QED BY <3>3, <3>4 DEF Idle, Processes, Places, Exclusive, Shared, Carries, PastGate,
          BeforeFetch
  <2>2. CASE TakeExclusive(p)
    <3>1. proc[p].at = "lock"
          /\ \/ proc' = [proc EXCEPT ![p].at = "gate"]
             \/ /\ proc' = [proc EXCEPT ![p].at = "resolve"]
                /\ ~(proc[p].cmd.kind = "pull" /\ proc[p].cmd.gated)
      BY <2>2 DEF TakeExclusive, Goto
    <3> QED BY <1>1, <3>1, PullAssumption
        DEF IInv, Kinds, Processes, Places, Exclusive, Shared, Carries, PastGate,
          BeforeFetch
  <2>3. CASE TakeShared(p)
    <3>1. proc[p].at = "shared"
          /\ \/ proc' = [proc EXCEPT ![p].at = "prepare"] /\ proc[p].root # None
             \/ proc' = [proc EXCEPT ![p].at = "check"] /\ proc[p].root = None
             \/ /\ proc' = [proc EXCEPT ![p].at = "look"]
                /\ proc[p].root = None /\ ~proc[p].cmd.gated
      BY <2>3 DEF TakeShared, Goto
    <3> QED BY <1>1, <3>1
        DEF IInv, Kinds, Processes, Places, Exclusive, Shared, Carries, PastGate,
          BeforeFetch
  <2>4. CASE Release(p)
    <3>1. /\ proc[p].at = "release"
          /\ proc' = [proc EXCEPT ![p] =
               [(IF proc[p].then \in {"ended", "refused"} THEN Idle ELSE proc[p])
                  EXCEPT !.at = proc[p].then]]
      BY <2>4 DEF Release, IInv, Kinds
    <3> QED BY <1>1, <3>1
        DEF IInv, Kinds, Processes, Places, Exclusive, Shared, Carries, PastGate,
          BeforeFetch, Idle
  <2>5. CASE Crash(p)
    BY <2>5, IdleIsAProcess DEF Crash, IInv, Kinds, Carries, Idle
  <2> QED BY <2>1, <2>2, <2>3, <2>4, <2>5
<1>4. tag' \in Images \cup {None} /\ (tag' # None => Present(tag'))
  BY <1>2 DEF IInv, Kinds, Arrived
<1> HIDE DEF c
<1> QED BY <1>2, <1>3, <1>4, TasksStop, CommandInv

\* A gate admits what verified, or ends the command; what comes after it goes
\* on with the same.
LEMMA GateInv ==
  ASSUME IInv, NEW p \in Procs,
         \/ GatePull(p) \/ GateRun(p) \/ Look(p) \/ NotServed(p) \/ RegistryFails(p)
         \/ Materialized(p) \/ FetchSignature(p) \/ Prepare(p)
  PROVE  IInv'
<1> DEFINE c == proc'[p]
<1>1. proc[p] \in Processes /\ Carries(proc[p])
  BY DEF IInv, Kinds, Carried
<1>2. disk' = disk /\ origin' = origin /\ tag' = tag /\ StaysOrStops
  BY DEF GatePull, GateRun, Look, NotServed, RegistryFails, Materialized, FetchSignature,
    Prepare,
    downloadVars, storeVars, nameVars, StaysOrStops
<1>3. /\ c \in Processes /\ proc' = [proc EXCEPT ![p] = c]
      /\ c.at \notin {"idle", "fetch", "copy", "attach"}
      /\ Carries(c)
  <2>1. CASE \/ \E then \in {"ended", "refused", "shared"} : Releasing(p, then)
             \/ Look(p)
             \/ FetchSignature(p)
    <3>1. \/ \E then \in {"ended", "refused", "shared"} :
               proc' = [proc EXCEPT ![p].at = "release", ![p].then = then]
          \/ /\ proc[p].at = "look"
             /\ \/ proc' = [proc EXCEPT ![p].at = "release", ![p].then = "lock"]
                \/ proc' = [proc EXCEPT ![p].at = "prepare"]
          \/ proc[p].at = "attach" /\ proc' = [proc EXCEPT ![p].at = "write"]
      BY <2>1 DEF Look, FetchSignature, Releasing, Goto
    <3> QED BY <1>1, <3>1
        DEF IInv, Kinds, Processes, Places, Exclusive, Shared, Carries, PastGate,
          BeforeFetch
  <2>2. CASE \E subject \in Signed :
               \/ /\ proc[p].at = "gate"
                  /\ proc' = [proc EXCEPT ![p].verified = subject, ![p].at = "resolve"]
               \/ /\ proc[p].at = "check"
                  /\ proc' = [proc EXCEPT ![p].verified = subject, ![p].at = "look"]
    BY <1>1, <2>2, PullAssumption
       DEF IInv, Kinds, Processes, Places, Exclusive, Shared, Carries, PastGate,
          BeforeFetch
  <2>3. CASE /\ proc[p].at = "prepare" /\ tag # None /\ ContentChecked(p)
             /\ proc' = [proc EXCEPT ![p].loaded = tag,
                                     ![p].at = "release", ![p].then = "ended"]
    BY <1>1, <2>3
       DEF IInv, Kinds, Processes, Places, Exclusive, Shared, Carries, PastGate,
          BeforeFetch, ContentChecked
  <2> QED
    BY <2>1, <2>2, <2>3
       DEF GatePull, GateRun, NotServed, RegistryFails, Materialized, Prepare, Refuses
<1>4. tag' \in Images \cup {None} /\ (tag' # None => Present(tag'))
  BY <1>2 DEF IInv, Kinds, Arrived
<1> HIDE DEF c
<1> QED BY <1>2, <1>3, <1>4, TasksStop, CommandInv

\* What the registry has now is fetched if it is what verified.
LEMMA ResolveInv ==
  ASSUME IInv, NEW p \in Procs, Resolve(p) PROVE IInv'
<1> DEFINE c == proc'[p]
<1>1. proc[p] \in Processes /\ Carries(proc[p])
  BY DEF IInv, Kinds, Carried
<1>2. disk' = disk /\ origin' = origin /\ tag' = tag
  BY DEF Resolve, nameVars
<1>3. /\ task' \in [Blobs -> [at : TaskPlaces, tries : Nat]]
      /\ \A b \in Blobs : task'[b].at \in {"sweep", "done"} => disk[b] # "absent"
  BY DEF Resolve, TasksFor, NoTask, TaskPlaces, IInv, Kinds, Arrived
<1>4. /\ proc[p].at = "resolve"
      /\ \/ /\ proc[p].verified \in {None, origin}
            /\ proc' = [proc EXCEPT ![p].root = origin, ![p].at = "fetch"]
         \/ proc' = [proc EXCEPT ![p].at = "release", ![p].then = "refused"]
  BY DEF Resolve, Refuses, Releasing
<1>5. /\ c \in Processes /\ proc' = [proc EXCEPT ![p] = c]
      /\ c.at \notin {"idle", "copy"}
      /\ c.at \in {"fetch", "copy", "attach"} => c.root \in Images
      /\ Carries(c)
  BY <1>1, <1>4 DEF IInv, Kinds, Processes, Places, Exclusive, Shared, Carries, PastGate,
          BeforeFetch
<1>6. tag' \in Images \cup {None} /\ (tag' # None => Present(tag'))
  BY <1>2 DEF IInv, Kinds, Arrived
<1> HIDE DEF c
<1> QED BY <1>2, <1>3, <1>5, <1>6, CommandInv

\* Every download is over, so everything is there.
LEMMA FetchedInv ==
  ASSUME IInv, NEW p \in Procs, Fetched(p) PROVE IInv'
<1> DEFINE c == proc'[p]
<1>1. proc[p] \in Processes /\ Carries(proc[p]) /\ proc[p].root \in Images
  BY DEF Fetched, IInv, Kinds, Carried
<1>2. disk' = disk /\ origin' = origin /\ tag' = tag /\ StaysOrStops
  BY DEF Fetched, nameVars, StaysOrStops, NoTasks
<1>3. /\ proc[p].at = "fetch"
      /\ \/ /\ FetchSucceeds(BlobsOf(proc[p].root))
            /\ proc' = [proc EXCEPT ![p].at = "copy"]
         \/ proc' = [proc EXCEPT ![p].at = "release", ![p].then = "refused"]
  BY DEF Fetched, Goto, Refuses, Releasing
<1>4. FetchSucceeds(BlobsOf(proc[p].root)) => Present(proc[p].root)
  BY <1>1, LayersAreBlobs DEF FetchSucceeds, Present, IInv, Arrived
<1>5. /\ c \in Processes /\ proc' = [proc EXCEPT ![p] = c]
      /\ c.at # "idle"
      /\ c.root \in Images
      /\ Carries(c)
      /\ c.at = "copy" => Present(c.root)
  BY <1>1, <1>3, <1>4
     DEF IInv, Kinds, Processes, Places, Exclusive, Shared, Carries, PastGate,
          BeforeFetch
<1>6. tag' \in Images \cup {None} /\ (tag' # None => Present(tag'))
  BY <1>2 DEF IInv, Kinds, Arrived
<1> HIDE DEF c
<1> QED BY <1>2, <1>5, <1>6, TasksStop, CommandInv

\* What is there is named.
LEMMA CopyManifestInv ==
  ASSUME IInv, NEW p \in Procs, CopyManifest(p) PROVE IInv'
<1> DEFINE c == proc'[p]
<1>1. proc[p] \in Processes /\ Carries(proc[p])
      /\ proc[p].root \in Images /\ Present(proc[p].root)
  BY DEF CopyManifest, IInv, Kinds, Carried, Arrived
<1>2. disk' = disk /\ origin' = origin /\ tag' = proc[p].root /\ StaysOrStops
  BY DEF CopyManifest, downloadVars, StaysOrStops
<1>3. proc[p].at = "copy" /\ proc' = [proc EXCEPT ![p].at = "attach"]
  BY DEF CopyManifest, Goto
<1>4. /\ c \in Processes /\ proc' = [proc EXCEPT ![p] = c]
      /\ c.at = "attach" /\ c.root \in Images
      /\ Carries(c)
  BY <1>1, <1>3 DEF IInv, Kinds, Processes, Places, Exclusive, Shared, Carries, PastGate,
          BeforeFetch
<1> HIDE DEF c
<1> QED BY <1>1, <1>2, <1>4, TasksStop, CommandInv

\* What others do to the registry, to a blob on disk and to the name.
LEMMA AroundInv ==
  ASSUME IInv, Writing \/ MoveTag \/ AlterBlob \/ RemoveModel \/ UNCHANGED vars
  PROVE  IInv'
<1>1. UNCHANGED <<proc, task>> /\ origin' \in Images /\ tag' \in {tag, None}
  BY DEF Writing, MoveTag, AlterBlob, RemoveModel, vars, storeVars, nameVars,
    downloadVars, IInv, Kinds
<1>2. /\ disk' \in [Blobs -> {"absent", "whole", "altered"}]
      /\ \A b \in Blobs : disk[b] # "absent" => disk'[b] # "absent"
  BY DEF Writing, MoveTag, AlterBlob, RemoveModel, vars, storeVars, downloadVars, IInv, Kinds
<1>3. \A image \in Images : Present(image) => Present(image)'
  BY <1>2, LayersAreBlobs DEF Present, BlobsOf
<1>4. Kinds' /\ Carried'
  BY <1>1, <1>2 DEF IInv, Kinds, Carried
<1>5. Arrived'
  BY <1>1, <1>2, <1>3 DEF IInv, Kinds, Arrived
<1> QED BY <1>4, <1>5 DEF IInv

LEMMA NextInv == ASSUME IInv, [Next]_vars PROVE IInv'
BY DownloadInv, LockInv, GateInv, ResolveInv, FetchedInv, CopyManifestInv, AroundInv
   DEF Next, Working, ProcStep, Surroundings

\* The invariant the two theorems rest on.
THEOREM Inductive == Spec => []IInv
BY InitInv, NextInv, PTL DEF Spec

-----------------------------------------------------------------------------
\* However the tag moves between the gate, the fetch and the load, a gated
\* command gets hold only of what verified (Client.Pull's expected digest,
\* checkLoadedContent).
THEOREM OnlyTheAdmitted == Spec => []AdmittedOnly
<1>1. IInv => AdmittedOnly
  BY DEF IInv, Carried, Carries, AdmittedOnly
<1> QED BY <1>1, Inductive, PTL

\* What has a name has arrived and hashed to its digests, whichever attempts,
\* leftovers and deaths that took (Client.fetchMissing, installPartial).
THEOREM NamedHasArrived == Spec => []TaggedIsPresent
<1>1. IInv => TaggedIsPresent
  <2> SUFFICES ASSUME IInv, tag # None, NEW b \in BlobsOf(tag)
               PROVE  disk[b] \in {"whole", "altered"}
    BY DEF TaggedIsPresent
  <2> QED BY LayersAreBlobs DEF IInv, Kinds, Arrived, Present
<1> QED BY <1>1, Inductive, PTL

-----------------------------------------------------------------------------
(* The output directory.                                                   *)

\* As much of a materialization's kind as the proof needs.
JobKinds ==
  /\ DOMAIN job = DOMAIN NoJob
  /\ job.next \in Nat \ {0}

\* A layer that has been dealt with is in a file this run has made, or is
\* none that a server needs.
Placed(l) ==
  IF l.name = None THEN ~l.weight
  ELSE /\ FileOf[l.name] \in job.written
       /\ out.files[FileOf[l.name]] = Copied(l.blob, TRUE)

\* Every layer before the next one has been dealt with, and at the end that is
\* all of them.
LayersPlaced ==
  /\ JobKinds /\ out \in Output
  /\ job.at \in {"write", "ok"} =>
       /\ job.image \in Images
       /\ \A i \in DOMAIN Layers[job.image] :
            i < job.next => Placed(Layers[job.image][i])
  /\ job.at = "ok" => job.next > Len(Layers[job.image])

LEMMA LayerKinds ==
  ASSUME NEW image \in Images
  PROVE  /\ Layers[image] \in Seq(Layer)
         /\ \A i \in DOMAIN Layers[image] :
              /\ i \in Nat \ {0} /\ i <= Len(Layers[image])
              /\ Layers[image][i] \in Layer
              /\ Layers[image][i].name # None => FileOf[Layers[image][i].name] \in OutFiles
<1>1. Layers[image] \in Seq(Layer)
  BY MaterializeAssumption
<1>2. \A i \in DOMAIN Layers[image] :
        Layers[image][i] \in Layer /\ i \in Nat \ {0} /\ i <= Len(Layers[image])
  BY <1>1
<1> QED BY <1>1, <1>2 DEF Layer, OutFiles, Range

LEMMA InitPlaced == ASSUME Init PROVE LayersPlaced
BY MaterializeAssumption DEF Init, OutputInit, LayersPlaced, NoJob, JobKinds

\* A layer is written under a name this run has not used yet, so what was
\* placed stays where it is.
LEMMA WriteLayerPlaced ==
  ASSUME LayersPlaced, WriteLayer PROVE LayersPlaced'
<1> DEFINE l == ThisLayer
           file == FileOf[l.name]
<1>1. /\ job.at = "write" /\ job.image \in Images /\ JobKinds
      /\ job.next \in DOMAIN Layers[job.image]
      /\ l = Layers[job.image][job.next] /\ l.name # None
      /\ l \in Layer /\ file \in OutFiles
  <2>1. job.at = "write" /\ job.image \in Images /\ JobKinds /\ l.name # None
        /\ job.next <= Len(Layers[job.image])
    BY DEF WriteLayer, Writable, LayersLeft, LayersPlaced
  <2>2. job.next \in DOMAIN Layers[job.image]
    BY <2>1, LayerKinds DEF JobKinds, NoJob
  <2> QED BY <2>1, <2>2, LayerKinds DEF ThisLayer
<1>2. PICK whole \in BOOLEAN :
        LET created == disk[l.blob] # "absent" /\ MayCreate(file)
        IN /\ out' = [out EXCEPT
                !.dirs = @ \cup Range(DirsOf[l.name]),
                !.files[file] =
                  IF created THEN Copied(l.blob, whole /\ disk[l.blob] = "whole") ELSE @]
           /\ job' = [job EXCEPT
                !.madeDirs = @ \cup MissingDirs(l.name),
                !.written = IF created THEN @ \cup {file} ELSE @,
                !.next = @ + 1,
                !.at = IF created /\ whole /\ disk[l.blob] = "whole"
                       THEN "write" ELSE "undo"]
  BY DEF WriteLayer
<1>3. Range(DirsOf[l.name]) \subseteq OutDirs /\ l.blob \in Blobs
  <2>1. l.name \in DOMAIN FileOf /\ l.blob \in Blobs
    BY <1>1 DEF Layer
  <2> QED BY <2>1 DEF OutDirs
<1> HIDE DEF l, file
<1>4. JobKinds' /\ job'.image = job.image /\ job'.next = job.next + 1
      /\ job'.at \in {"write", "undo"}
  <2>1. \E dirs, written : \E at \in {"write", "undo"} :
          job' = [job EXCEPT !.madeDirs = dirs, !.written = written,
                             !.next = @ + 1, !.at = at]
    BY <1>2
  <2>2. PICK dirs, written, at :
          /\ job' = [job EXCEPT !.madeDirs = dirs, !.written = written,
                                !.next = @ + 1, !.at = at]
          /\ at \in {"write", "undo"}
    BY <2>1
  <2> QED BY <1>1, <2>2 DEF JobKinds, NoJob
<1>5. \A all \in BOOLEAN : Copied(l.blob, all) \in Contents
  BY <1>3 DEF Copied, Contents
<1>6. /\ out' \in Output
      /\ \A f \in OutFiles \ {file} : out'.files[f] = out.files[f]
  BY <1>1, <1>2, <1>3, <1>5 DEF LayersPlaced, Output
<1>7. job'.at = "write" =>
        /\ file \notin job.written
        /\ job'.written = job.written \cup {file}
        /\ out'.files[file] = Copied(l.blob, TRUE)
  BY <1>1, <1>2 DEF LayersPlaced, JobKinds, NoJob, MayCreate, Output
<1>8. PICK image \in Images : image = job.image
  BY <1>1
<1>9. ASSUME job'.at = "write", NEW i \in DOMAIN Layers[image], i < job.next + 1
      PROVE  Placed(Layers[image][i])'
  <2>1. CASE i = job.next
    BY <1>1, <1>7, <1>8, <1>9, <2>1 DEF Placed, file
  <2>2. CASE i # job.next
    <3>1. i < job.next
      BY <1>1, <1>9, <2>2, LayerKinds DEF JobKinds, NoJob
    <3>2. Placed(Layers[image][i])
      BY <1>1, <1>8, <3>1 DEF LayersPlaced
    <3> QED BY <1>6, <1>7, <1>9, <3>2, LayerKinds DEF Placed
  <2> QED BY <2>1, <2>2
<1> QED BY <1>1, <1>4, <1>6, <1>8, <1>9 DEF LayersPlaced

\* The other steps of a materialization change no file while it may succeed.
LEMMA MaterializePlaced ==
  ASSUME LayersPlaced, MaterializeStep PROVE LayersPlaced'
<1>1. CASE WriteLayer
  BY <1>1, WriteLayerPlaced
<1>2. CASE SkipLayer
  <2>1. /\ job.at = "write" /\ job.next <= Len(Layers[job.image])
        /\ ThisLayer.name = None /\ ~ThisLayer.weight
        /\ job' = [job EXCEPT !.next = @ + 1] /\ out' = out
    BY <1>2 DEF SkipLayer, LayersLeft
  <2>2. JobKinds' /\ job'.at = "write" /\ job'.image = job.image
        /\ job'.next = job.next + 1 /\ job'.written = job.written
        /\ job.image \in Images /\ job.next \in Nat
    BY <2>1 DEF LayersPlaced, JobKinds, NoJob
  <2>3. PICK image \in Images : image = job.image
    BY <2>2
  <2>4. ASSUME NEW i \in DOMAIN Layers[image], i < job.next + 1
        PROVE  Placed(Layers[image][i])'
    <3>1. CASE i = job.next
      <4>1. Layers[image][i].name = None /\ ~Layers[image][i].weight
        BY <2>1, <2>3, <3>1 DEF ThisLayer
      <4> QED BY <4>1 DEF Placed
    <3>2. CASE i # job.next
      <4>1. i < job.next
        BY <2>2, <2>4, <3>2, LayerKinds
      <4>2. Placed(Layers[image][i])
        BY <2>1, <2>3, <4>1 DEF LayersPlaced
      <4> QED BY <2>1, <2>2, <4>2 DEF Placed
    <3> QED BY <3>1, <3>2
  <2>5. out' \in Output
    BY <2>1 DEF LayersPlaced
  <2> QED BY <2>2, <2>3, <2>4, <2>5 DEF LayersPlaced
<1>3. CASE RefuseLayer
  BY <1>3 DEF RefuseLayer, LayersPlaced, JobKinds, NoJob
<1>4. CASE FinishOutput
  <2>1. /\ job.at = "write" /\ ~(job.next <= Len(Layers[job.image])) /\ out' = out
        /\ \/ job' = [job EXCEPT !.at = "ok"]
           \/ job' = [job EXCEPT !.at = "undo"]
    BY <1>4 DEF FinishOutput, LayersLeft
  <2>2. job.image \in Images /\ job.next \in Nat /\ Len(Layers[job.image]) \in Nat
    BY <2>1, LayerKinds DEF LayersPlaced, JobKinds, NoJob
  <2>3. /\ job'.at \in {"ok", "undo"} /\ job'.image = job.image
        /\ job'.next = job.next /\ job'.written = job.written /\ JobKinds'
    BY <2>1 DEF LayersPlaced, JobKinds, NoJob
  <2>4. PICK image \in Images : image = job.image
    BY <2>2
  <2>5. \A i \in DOMAIN Layers[image] :
          Placed(Layers[image][i]) => Placed(Layers[image][i])'
    BY <2>1, <2>3 DEF Placed
  <2>6. \A i \in DOMAIN Layers[image] : i < job.next => Placed(Layers[image][i])
    BY <2>1, <2>4 DEF LayersPlaced
  <2> QED BY <2>1, <2>2, <2>3, <2>4, <2>5, <2>6 DEF LayersPlaced
<1>5. CASE TakeBack
  <2>1. job' = [job EXCEPT !.at = "refused"]
    BY <1>5 DEF TakeBack
  <2>2. out' \in Output
    <3>1. Nothing \in Contents
      BY DEF Nothing, Contents
    <3> QED BY <1>5, <3>1 DEF TakeBack, LayersPlaced, Output
  <2> QED BY <2>1, <2>2 DEF LayersPlaced, JobKinds, NoJob
<1> QED BY <1>1, <1>2, <1>3, <1>4, <1>5 DEF MaterializeStep

\* A pull begins a materialization, or takes note of its end; nothing else
\* touches the output directory but the materialization itself.
LEMMA NextOutput ==
  ASSUME IInv, [Next]_vars
  PROVE  \/ UNCHANGED <<out, job>>
         \/ job' = NoJob /\ out' = out
         \/ \E image \in Images : OpenOutput(image)
         \/ MaterializeStep
<1>1. ASSUME NEW p \in Procs, ProcStep(p) \/ Crash(p)
      PROVE  \/ UNCHANGED <<out, job>>
             \/ job' = NoJob /\ out' = out
             \/ \E image \in Images : OpenOutput(image)
  <2>1. CASE FetchSignature(p)
    <3>1. proc[p].root \in Images
      BY <2>1 DEF FetchSignature, IInv, Kinds
    <3> QED BY <2>1, <3>1 DEF FetchSignature, outputVars
  <2>2. CASE ProcStep(p) /\ ~FetchSignature(p)
    BY <2>2 DEF ProcStep, TakeExclusive, GatePull, Resolve, Fetched, CopyManifest,
      Materialized, RegistryFails, Release, TakeShared, GateRun, Look, NotServed, Prepare,
      outputVars
  <2>3. CASE Crash(p)
    BY <2>3 DEF Crash
  <2> QED BY <1>1, <2>1, <2>2, <2>3
<1>2. CASE \/ \E p \in Procs : Begin(p)
           \/ \E b \in Blobs : Downloading(b)
           \/ MoveTag \/ AlterBlob \/ RemoveModel \/ UNCHANGED vars
  BY <1>2 DEF Begin, Downloading, MoveTag, AlterBlob, RemoveModel, vars, outputVars
<1>3. CASE Writing
  BY <1>3 DEF Writing
<1> QED BY <1>1, <1>2, <1>3 DEF Next, Working, Surroundings

LEMMA NextPlaced == ASSUME IInv, LayersPlaced, [Next]_vars PROVE LayersPlaced'
<1>1. CASE UNCHANGED <<out, job>>
  BY <1>1 DEF LayersPlaced, Placed, JobKinds
<1>2. CASE job' = NoJob /\ out' = out
  BY <1>2 DEF LayersPlaced, NoJob, JobKinds
<1>3. CASE \E image \in Images : OpenOutput(image)
  <2>1. PICK image \in Images : OpenOutput(image)
    BY <1>3
  <2>2. /\ JobKinds' /\ job'.at = "write" /\ job'.image = image /\ job'.next = 1
        /\ out' \in Output
    <3>1. out \in Output /\ out.exists \in BOOLEAN
          /\ [out EXCEPT !.exists = TRUE] \in Output
      BY DEF LayersPlaced, Output
    <3> DEFINE made == ~out.exists
    <3>2. /\ out' = [out EXCEPT !.exists = TRUE]
          /\ job' = [NoJob EXCEPT !.at = "write", !.image = image, !.prior = out,
                                  !.madeDir = made]
      BY <2>1 DEF OpenOutput
    <3>3. made \in BOOLEAN
      OBVIOUS
    <3> HIDE DEF made
    <3> QED BY <3>1, <3>2, <3>3 DEF NoJob, JobKinds
  <2> QED BY <2>2, LayerKinds DEF LayersPlaced
<1>4. CASE MaterializeStep
  BY <1>4, MaterializePlaced
<1> QED BY <1>1, <1>2, <1>3, <1>4, NextOutput

\* A materialization that reports success has every named layer whole in a file
\* of its own, also where two names are one file (materialize and
\* createOutputFile).
THEOREM NoLayerIsLost == Spec => []OutputIsTheModel
<1>1. LayersPlaced => OutputIsTheModel
  <2> SUFFICES ASSUME LayersPlaced, job.at = "ok", NEW i \in DOMAIN Layers[job.image]
               PROVE  Placed(Layers[job.image][i])
    BY DEF OutputIsTheModel, Placed
  <2>1. job.image \in Images /\ job.next \in Nat /\ job.next > Len(Layers[job.image])
    BY DEF LayersPlaced, JobKinds, NoJob
  <2>2. i \in Nat /\ i <= Len(Layers[job.image]) /\ Len(Layers[job.image]) \in Nat
    BY <2>1, LayerKinds
  <2>3. i < job.next
    BY <2>1, <2>2
  <2> QED BY <2>3 DEF LayersPlaced
<1>2. Init => LayersPlaced
  BY InitPlaced
<1>3. IInv /\ LayersPlaced /\ [Next]_vars => LayersPlaced'
  BY NextPlaced
<1> QED BY <1>1, <1>2, <1>3, Inductive, PTL DEF Spec

-----------------------------------------------------------------------------
(* What a refusal leaves.                                                  *)

\* The output directory is what was there before and what the run has recorded
\* as its own.
Recorded ==
  /\ out.dirs = job.prior.dirs \cup job.madeDirs
  /\ job.prior.dirs \cap job.madeDirs = {}
  /\ \A f \in OutFiles :
       IF f \in job.written THEN job.prior.files[f].what # "irregular"
                            ELSE out.files[f] = job.prior.files[f]

OutputRecorded ==
  /\ DOMAIN job = DOMAIN NoJob /\ out \in Output
  /\ out.exists \/ Empties(out)
  /\ job.at \in {"write", "undo", "ok"} =>
       /\ job.prior \in Output
       /\ job.prior.exists \/ Empties(job.prior)
       /\ job.madeDir = ~job.prior.exists
       /\ out.exists
       /\ Recorded
  /\ RefusalTakesBack

LEMMA InitRecorded == ASSUME Init PROVE OutputRecorded
BY MaterializeAssumption
   DEF Init, OutputInit, OutputRecorded, NoJob, RefusalTakesBack

\* A file that is created was not there, or was a regular file; a directory
\* that is made is recorded unless it was there.
LEMMA WriteLayerRecorded ==
  ASSUME LayersPlaced, OutputRecorded, WriteLayer PROVE OutputRecorded'
<1>1. /\ job.at = "write" /\ out' \in Output /\ ThisLayer.name # None
  BY WriteLayerPlaced DEF WriteLayer, Writable, LayersLeft, LayersPlaced
<1> DEFINE file == FileOf[ThisLayer.name]
           new == Range(DirsOf[ThisLayer.name])
<1>2. \E created \in BOOLEAN : \E content :
        /\ created => MayCreate(file)
        /\ out' = [out EXCEPT !.dirs = @ \cup new,
                              !.files[file] = IF created THEN content ELSE @]
        /\ job'.madeDirs = job.madeDirs \cup (new \ out.dirs)
        /\ job'.written = IF created THEN job.written \cup {file} ELSE job.written
        /\ job'.at \in {"write", "undo"}
        /\ job'.prior = job.prior /\ job'.madeDir = job.madeDir
        /\ DOMAIN job' = DOMAIN job
  BY DEF WriteLayer, OutputRecorded, NoJob, MissingDirs
<1>3. PICK created \in BOOLEAN : \E content :
        /\ created => MayCreate(file)
        /\ out' = [out EXCEPT !.dirs = @ \cup new,
                              !.files[file] = IF created THEN content ELSE @]
        /\ job'.madeDirs = job.madeDirs \cup (new \ out.dirs)
        /\ job'.written = IF created THEN job.written \cup {file} ELSE job.written
        /\ job'.at \in {"write", "undo"}
        /\ job'.prior = job.prior /\ job'.madeDir = job.madeDir
        /\ DOMAIN job' = DOMAIN job
  BY <1>2
<1>0. PICK content :
        out' = [out EXCEPT !.dirs = @ \cup new,
                           !.files[file] = IF created THEN content ELSE @]
  BY <1>3
<1>4. /\ out'.dirs = out.dirs \cup new /\ out'.exists = out.exists
      /\ \A f \in OutFiles : out'.files[f] =
           IF f = file /\ created THEN content ELSE out.files[f]
  BY <1>0 DEF OutputRecorded, Output
<1> HIDE DEF file, new
<1>5. Recorded'
  BY <1>1, <1>3, <1>4 DEF OutputRecorded, Recorded, MayCreate
<1> QED BY <1>1, <1>3, <1>4, <1>5 DEF OutputRecorded, RefusalTakesBack

\* The cleanup takes away what was recorded, and that is all there is besides
\* what was there.
LEMMA TakeBackRecorded ==
  ASSUME OutputRecorded, TakeBack PROVE OutputRecorded'
<1> DEFINE files == [f \in OutFiles |-> IF f \in job.written THEN Nothing ELSE out.files[f]]
           dirs == out.dirs \ job.madeDirs
           gone == job.madeDir /\ dirs = {} /\ \A f \in OutFiles : files[f] = Nothing
<1>1. /\ job.at = "undo"
      /\ out' = [exists |-> ~gone, dirs |-> dirs, files |-> files]
      /\ job' = [job EXCEPT !.at = "refused"]
  BY DEF TakeBack
<1>2. dirs = job.prior.dirs
  BY <1>1 DEF OutputRecorded, Recorded
<1>3. \A f \in OutFiles :
        \/ files[f] = job.prior.files[f]
        \/ files[f] = Nothing /\ job.prior.files[f].what # "irregular"
  BY <1>1 DEF OutputRecorded, Recorded
<1>4. gone <=> ~job.prior.exists
  BY <1>1, <1>2, <1>3 DEF OutputRecorded, Empties
<1>5. files \in [OutFiles -> Contents] /\ dirs \subseteq OutDirs
  <2>1. Nothing \in Contents
    BY DEF Nothing, Contents
  <2> QED BY <2>1 DEF OutputRecorded, Output
<1>6. job.prior.exists \in BOOLEAN
  BY <1>1 DEF OutputRecorded, Output
<1> HIDE DEF files, dirs
<1>7. out' \in Output
  BY <1>1, <1>5 DEF Output
<1>8. out'.exists \/ Empties(out')
  BY <1>1 DEF Empties
<1>9. RefusalTakesBack'
  BY <1>1, <1>2, <1>3, <1>4, <1>6 DEF RefusalTakesBack, OutputRecorded
<1> QED BY <1>1, <1>7, <1>8, <1>9 DEF OutputRecorded

\* The other steps of a materialization leave the directory and the record.
LEMMA MaterializeRecorded ==
  ASSUME LayersPlaced, OutputRecorded, MaterializeStep PROVE OutputRecorded'
<1>1. CASE SkipLayer \/ RefuseLayer \/ FinishOutput
  <2>1. /\ job.at = "write" /\ out' = out
        /\ DOMAIN job' = DOMAIN job /\ job'.at \in {"write", "undo", "ok"}
        /\ job'.prior = job.prior /\ job'.madeDir = job.madeDir
        /\ job'.madeDirs = job.madeDirs /\ job'.written = job.written
    BY <1>1 DEF SkipLayer, RefuseLayer, FinishOutput, LayersLeft, OutputRecorded, NoJob
  <2> QED BY <2>1 DEF OutputRecorded, Recorded, RefusalTakesBack, Empties
<1> QED BY <1>1, WriteLayerRecorded, TakeBackRecorded DEF MaterializeStep

LEMMA NextRecorded ==
  ASSUME IInv, LayersPlaced, OutputRecorded, [Next]_vars PROVE OutputRecorded'
<1>1. CASE UNCHANGED <<out, job>>
  BY <1>1 DEF OutputRecorded, Recorded, RefusalTakesBack, Empties
<1>2. CASE job' = NoJob /\ out' = out
  BY <1>2 DEF OutputRecorded, NoJob, RefusalTakesBack, Empties
<1>3. CASE \E image \in Images : OpenOutput(image)
  <2> DEFINE made == ~out.exists
  <2>1. PICK image \in Images :
          /\ out' = [out EXCEPT !.exists = TRUE]
          /\ job' = [NoJob EXCEPT !.at = "write", !.image = image, !.prior = out,
                                  !.madeDir = made]
    BY <1>3 DEF OpenOutput
  <2>2. /\ out' \in Output /\ out'.exists
        /\ out'.dirs = out.dirs /\ out'.files = out.files
    BY <2>1 DEF OutputRecorded, Output
  <2> HIDE DEF made
  <2>3. /\ DOMAIN job' = DOMAIN NoJob /\ job'.at = "write" /\ job'.prior = out
        /\ job'.madeDir = made /\ job'.written = {} /\ job'.madeDirs = {}
    BY <2>1 DEF NoJob
  <2>4. Recorded'
    BY <2>2, <2>3 DEF Recorded
  <2> QED BY <2>2, <2>3, <2>4 DEF OutputRecorded, RefusalTakesBack, Empties, made
<1>4. CASE MaterializeStep
  BY <1>4, MaterializeRecorded
<1> QED BY <1>1, <1>2, <1>3, <1>4, NextOutput

\* A refused materialization leaves the output directory as it found it, but
\* for the earlier files it had already replaced (the deferred cleanup of
\* materialize, with createOutputFile and missingDirs as its record).
THEOREM RefusalIsUndone == Spec => []RefusalTakesBack
<1>1. Init => LayersPlaced /\ OutputRecorded
  BY InitPlaced, InitRecorded
<1>2. IInv /\ LayersPlaced /\ OutputRecorded /\ [Next]_vars =>
        LayersPlaced' /\ OutputRecorded'
  BY NextPlaced, NextRecorded
<1>3. OutputRecorded => RefusalTakesBack
  BY DEF OutputRecorded
<1> QED BY <1>1, <1>2, <1>3, Inductive, PTL DEF Spec

-----------------------------------------------------------------------------
(* Types.                                                                  *)

Tasks == [at : TaskPlaces, tries : Nat]
Partials(b) == [len : 0 .. Size[b] + 1, good : BOOLEAN]

\* A download that goes on has an attempt left, one that is answered has a
\* file to write to, and one that asks has no more than the whole blob.
TaskKept(b) ==
  /\ partial[b] \in {None} \cup Partials(b)
  /\ task[b].tries \in 0 .. Attempts
  /\ task[b].at \in {"try", "ask", "stream", "install"} => task[b].tries < Attempts
  /\ task[b].at = "ask" => partial[b] = None \/ partial[b].len <= Size[b]
  /\ task[b].at = "stream" => partial[b] \in Partials(b)

DownloadKept ==
  /\ DOMAIN partial = Blobs
  /\ faults \in 0 .. MaxFaults
  /\ \A b \in Blobs : TaskKept(b)

LEMMA InitDownloadKept == ASSUME Init PROVE DownloadKept
BY DownloadAssumption DEF Init, DownloadInit, DownloadKept, TaskKept, NoTask

\* What one step of a download does to its own task and file.
LEMMA OwnStepKept ==
  ASSUME IInv, DownloadKept, NEW b \in Blobs, DownloadStep(b)
  PROVE  /\ TaskKept(b)' /\ DOMAIN partial' = Blobs
         /\ faults' \in 0 .. MaxFaults
         /\ \A c \in Blobs \ {b} : task'[c] = task[c] /\ partial'[c] = partial[c]
<1> DEFINE t == task[b]
           file == partial[b]
<1>1. /\ task \in [Blobs -> Tasks] /\ t \in Tasks /\ TaskKept(b)
      /\ Size[b] \in Nat \ {0} /\ Attempts \in Nat \ {0}
      /\ MaxFaults \in Nat /\ faults \in 0 .. MaxFaults /\ DOMAIN partial = Blobs
  BY DownloadAssumption DEF IInv, Kinds, DownloadKept, Tasks
<1>2. \A place \in TaskPlaces : Goes(b, place) =>
        /\ task'[b].at = place /\ task'[b].tries = t.tries
        /\ \A c \in Blobs \ {b} : task'[c] = task[c]
  BY <1>1 DEF Goes, Tasks
<1>3. AttemptFails(b) =>
        /\ task'[b].tries = t.tries + 1
        /\ task'[b].at = IF t.tries + 1 < Attempts THEN "try" ELSE "failed"
        /\ \A c \in Blobs \ {b} : task'[c] = task[c]
  BY <1>1 DEF AttemptFails, Tasks
<1>4. \A f : PartialBecomes(b, f) =>
        /\ partial'[b] = f /\ DOMAIN partial' = Blobs
        /\ \A c \in Blobs \ {b} : partial'[c] = partial[c]
  BY <1>1 DEF PartialBecomes
<1>5. Fault => faults' \in 0 .. MaxFaults
  BY <1>1 DEF Fault
<1>6. Empty \in Partials(b)
  BY <1>1 DEF Empty, Partials
<1>7. CASE RehashPartial(b)
  <2>1. /\ t.at = "try" /\ faults' = faults
        /\ \/ Length(b) > Size[b] /\ PartialBecomes(b, None)
           \/ ~(Length(b) > Size[b]) /\ partial' = partial
        /\ Goes(b, "install") \/ Goes(b, "ask")
    BY <1>7 DEF RehashPartial
  <2> QED BY <1>1, <1>2, <1>4, <2>1 DEF TaskKept, Length, TaskPlaces, Partials
<1>8. CASE AnsweredWhole(b) \/ AnsweredRest(b)
  <2>1. \A f \in Partials(b) \cup {None} :
          (f = None \/ f.len <= Size[b]) /\ f # None => f \in Partials(b)
    OBVIOUS
  <2>2. /\ t.at = "ask" /\ faults' = faults /\ Goes(b, "stream")
        /\ \E f \in Partials(b) : PartialBecomes(b, f)
    BY <1>1, <1>6, <1>8 DEF AnsweredWhole, AnsweredRest, TaskKept
  <2> QED BY <1>1, <1>2, <1>4, <2>2 DEF TaskKept, TaskPlaces
<1>9. CASE AnsweredNoRange(b) \/ NotAnswered(b)
  <2>1. /\ t.at = "ask" /\ Fault /\ AttemptFails(b)
        /\ PartialBecomes(b, None) \/ partial' = partial
    BY <1>9 DEF AnsweredNoRange, NotAnswered
  <2> QED BY <1>1, <1>3, <1>4, <1>5, <2>1 DEF TaskKept
<1>10. CASE Receive(b)
  <2>1. t.at = "stream" /\ file \in Partials(b) /\ task' = task
    BY <1>1, <1>10 DEF Receive, TaskKept
  <2>2. /\ file.len \in Nat
        /\ [file EXCEPT !.len = @ + 1] = [len |-> file.len + 1, good |-> file.good]
        /\ file.good \in BOOLEAN
    BY <1>1, <2>1 DEF Partials
  <2>3. \E f \in Partials(b) : PartialBecomes(b, f)
    <3>1. CASE file.len < Size[b] /\ PartialBecomes(b, [file EXCEPT !.len = @ + 1])
      <4>1. [len |-> file.len + 1, good |-> file.good] \in Partials(b)
        BY <1>1, <2>2, <3>1 DEF Partials
      <4> QED BY <2>2, <3>1, <4>1
    <3>2. CASE file.len <= Size[b]
               /\ PartialBecomes(b, [len |-> file.len + 1, good |-> FALSE])
      <4>1. [len |-> file.len + 1, good |-> FALSE] \in Partials(b)
        BY <1>1, <2>2, <3>2 DEF Partials
      <4> QED BY <3>2, <4>1
    <3> QED BY <1>10, <3>1, <3>2 DEF Receive
  <2>4. faults' \in 0 .. MaxFaults
    BY <1>1, <1>5, <1>10 DEF Receive
  <2> QED BY <1>1, <1>4, <2>1, <2>3, <2>4 DEF TaskKept
<1>11. CASE StreamEnds(b)
  <2>1. /\ t.at = "stream"
        /\ \/ Goes(b, "install") /\ partial' = partial /\ faults' = faults
           \/ AttemptFails(b) /\ PartialBecomes(b, None) /\ faults' = faults
           \/ AttemptFails(b) /\ partial' = partial /\ Fault
    BY <1>11 DEF StreamEnds
  <2> QED BY <1>1, <1>2, <1>3, <1>4, <1>5, <2>1 DEF TaskKept, TaskPlaces
<1>12. CASE InstallPartial(b)
  <2>1. /\ t.at = "install"
        /\ \/ Goes(b, "sweep") /\ partial' = partial /\ faults' = faults
           \/ AttemptFails(b) /\ partial' = partial /\ Fault
           \/ AttemptFails(b) /\ PartialBecomes(b, None) /\ faults' = faults
    BY <1>12 DEF InstallPartial
  <2> QED BY <1>1, <1>2, <1>3, <1>4, <1>5, <2>1 DEF TaskKept, TaskPlaces
<1>13. CASE SweepPartial(b) \/ Cancelled(b)
  <2>1. /\ Goes(b, "done") \/ Goes(b, "failed")
        /\ PartialBecomes(b, None) \/ partial' = partial
        /\ faults' = faults
    BY <1>13 DEF SweepPartial, Cancelled
  <2> QED BY <1>1, <1>2, <1>4, <2>1 DEF TaskKept, TaskPlaces
<1> QED BY <1>7, <1>8, <1>9, <1>10, <1>11, <1>12, <1>13 DEF DownloadStep

\* The tasks that are started have every attempt left, and nothing else
\* touches the files of downloads.
LEMMA NextDownloadKept ==
  ASSUME IInv, DownloadKept, [Next]_vars PROVE DownloadKept'
<1>1. CASE \E b \in Blobs : Downloading(b)
  BY <1>1, OwnStepKept DEF Downloading, DownloadKept, TaskKept, Partials
<1>2. CASE /\ partial' = partial
           /\ faults' = faults \/ Fault
           /\ \/ task' = task
              \/ \A b \in Blobs : task'[b].tries = 0 /\ task'[b].at \in {"none", "try", "done"}
  <2>1. faults' \in 0 .. MaxFaults
    BY <1>2, DownloadAssumption DEF DownloadKept, Fault
  <2>2. ASSUME NEW b \in Blobs PROVE TaskKept(b)'
    BY <1>2, DownloadAssumption DEF DownloadKept, TaskKept, Partials
  <2> QED BY <1>2, <2>1, <2>2 DEF DownloadKept
<1>3. \/ partial' = partial /\ (faults' = faults \/ Fault) /\ task' = task
      \/ \E b \in Blobs : Downloading(b)
      \/ \E p \in Procs : Resolve(p) \/ Fetched(p) \/ Crash(p)
  <2> DEFINE Aside == partial' = partial /\ (faults' = faults \/ Fault) /\ task' = task
  <2>1. ASSUME NEW p \in Procs,
               \/ TakeExclusive(p) \/ GatePull(p) \/ CopyManifest(p) \/ FetchSignature(p)
               \/ Materialized(p) \/ RegistryFails(p) \/ Release(p)
        PROVE  Aside
    BY <2>1 DEF TakeExclusive, GatePull, CopyManifest, FetchSignature, Materialized,
      RegistryFails, Release, downloadVars, storeVars
  <2>2. ASSUME NEW p \in Procs,
               \/ Begin(p) \/ TakeShared(p) \/ GateRun(p) \/ Look(p) \/ NotServed(p)
               \/ Prepare(p)
        PROVE  Aside
    BY <2>2 DEF Begin, TakeShared, GateRun, Look, NotServed, Prepare, downloadVars,
      storeVars
  <2>3. CASE Writing
    BY <2>3 DEF Writing, MaterializeStep, WriteLayer, storeVars
  <2>4. CASE MoveTag \/ AlterBlob \/ RemoveModel \/ UNCHANGED vars
    BY <2>4 DEF MoveTag, AlterBlob, RemoveModel, vars, downloadVars, storeVars
  <2> QED BY <2>1, <2>2, <2>3, <2>4 DEF Next, Working, Surroundings, ProcStep
<1>4. CASE \E p \in Procs : Resolve(p) \/ Fetched(p) \/ Crash(p)
  <2>1. /\ partial' = partial /\ (faults' = faults \/ Fault)
        /\ task' = task \/ NoTasks \/ task' = TasksFor(BlobsOf(origin))
    BY <1>4 DEF Resolve, Fetched, Crash
  <2>2. NoTasks => \A b \in Blobs : task'[b] = NoTask
    BY DEF NoTasks
  <2>3. task' = TasksFor(BlobsOf(origin)) =>
          \A b \in Blobs : task'[b].tries = 0 /\ task'[b].at \in {"none", "try", "done"}
    BY DEF TasksFor, NoTask
  <2> QED BY <1>2, <2>1, <2>2, <2>3 DEF NoTask
<1> QED BY <1>1, <1>2, <1>3, <1>4

-----------------------------------------------------------------------------
\* The output directory and the materialization.
OutputKept ==
  /\ out \in Output
  /\ DOMAIN job = DOMAIN NoJob
  /\ OutputTypeOK

LEMMA InitOutputKept == ASSUME Init PROVE OutputKept
BY MaterializeAssumption DEF Init, OutputInit, OutputKept, OutputTypeOK, NoJob

LEMMA MaterializeKept ==
  ASSUME LayersPlaced, OutputKept, MaterializeStep PROVE OutputKept'
<1>1. out' \in Output
  BY MaterializePlaced DEF LayersPlaced
<1>2. ASSUME NEW place \in {"write", "undo", "ok", "refused"},
             job.at # "none", job'.at = place,
             UNCHANGED <<job.image, job.prior>>, DOMAIN job' = DOMAIN job,
             job'.written \subseteq OutFiles, job'.madeDirs \subseteq OutDirs
      PROVE  OutputKept'
  BY <1>1, <1>2 DEF OutputKept, OutputTypeOK
<1>3. CASE SkipLayer \/ RefuseLayer \/ FinishOutput \/ TakeBack
  <2>1. /\ job.at \in {"write", "undo"} /\ job'.at \in {"write", "undo", "ok", "refused"}
        /\ UNCHANGED <<job.image, job.prior, job.written, job.madeDirs>>
        /\ DOMAIN job' = DOMAIN job
    BY <1>3 DEF SkipLayer, RefuseLayer, FinishOutput, TakeBack, LayersLeft, OutputKept,
      NoJob
  <2> QED BY <1>2, <2>1 DEF OutputKept, OutputTypeOK
<1>4. CASE WriteLayer
  <2> DEFINE l == ThisLayer
  <2>1. /\ job.at = "write" /\ l.name # None /\ l \in Layer
    <3>1. job.at = "write" /\ l.name # None /\ job.next <= Len(Layers[job.image])
          /\ job.image \in Images /\ job.next \in Nat \ {0}
      BY <1>4 DEF WriteLayer, Writable, LayersLeft, LayersPlaced, JobKinds
    <3>2. job.next \in DOMAIN Layers[job.image]
      BY <3>1, LayerKinds
    <3> QED BY <3>1, <3>2, LayerKinds DEF ThisLayer
  <2>2. FileOf[l.name] \in OutFiles /\ MissingDirs(l.name) \subseteq OutDirs
    <3>1. l.name \in DOMAIN FileOf
      BY <2>1 DEF Layer
    <3> QED BY <3>1 DEF OutFiles, OutDirs, MissingDirs, Range
  <2>3. \E created \in BOOLEAN :
          /\ job'.at \in {"write", "undo"}
          /\ UNCHANGED <<job.image, job.prior>> /\ DOMAIN job' = DOMAIN job
          /\ job'.madeDirs = job.madeDirs \cup MissingDirs(l.name)
          /\ job'.written = IF created THEN job.written \cup {FileOf[l.name]}
                                       ELSE job.written
    BY <1>4 DEF WriteLayer, OutputKept, NoJob
  <2> HIDE DEF l
  <2> QED BY <1>2, <2>1, <2>2, <2>3 DEF OutputKept, OutputTypeOK
<1> QED BY <1>3, <1>4 DEF MaterializeStep

LEMMA NextOutputKept ==
  ASSUME IInv, LayersPlaced, OutputKept, [Next]_vars PROVE OutputKept'
<1>1. CASE UNCHANGED <<out, job>>
  BY <1>1 DEF OutputKept, OutputTypeOK
<1>2. CASE job' = NoJob /\ out' = out
  BY <1>2 DEF OutputKept, OutputTypeOK, NoJob
<1>3. CASE \E image \in Images : OpenOutput(image)
  <2> DEFINE made == ~out.exists
  <2>1. PICK image \in Images :
          /\ out' = [out EXCEPT !.exists = TRUE]
          /\ job' = [NoJob EXCEPT !.at = "write", !.image = image, !.prior = out,
                                  !.madeDir = made]
    BY <1>3 DEF OpenOutput
  <2>2. out' \in Output
    BY <2>1 DEF OutputKept, Output
  <2> HIDE DEF made
  <2> QED BY <2>1, <2>2 DEF OutputKept, OutputTypeOK, NoJob
<1>4. CASE MaterializeStep
  BY <1>4, MaterializeKept
<1> QED BY <1>1, <1>2, <1>3, <1>4, NextOutput

-----------------------------------------------------------------------------
\* What needs the lock is done by who holds it: it is taken for oneself where
\* nobody has it, and let go of only by its holder.
LocksKept ==
  /\ writer \in Procs \cup {None}
  /\ readers \subseteq Procs
  /\ held \subseteq Images
  /\ \A p \in Procs :
       /\ proc[p].at \notin {"idle", "ended", "refused"} => proc[p].cmd \in Commands
       /\ proc[p].at \in Exclusive => writer = p
       /\ proc[p].at \in Shared => p \in readers

LEMMA InitLocksKept == ASSUME Init PROVE LocksKept
BY DEF Init, LocksKept, Idle, Exclusive, Shared

\* A step of one command: it goes on at a place it has the lock for.
LEMMA OwnLocksKept ==
  ASSUME IInv, LocksKept, NEW p \in Procs, NEW c,
         proc' = [proc EXCEPT ![p] = c],
         writer' \in {writer, None, p}, readers' \in SUBSET (readers \cup {p}),
         writer' = p => writer \in {None, p},
         writer' = None => writer \in {None, p},
         readers \subseteq readers' \cup {p},
         held' \subseteq Images,
         c.at \notin {"idle", "ended", "refused"} => c.cmd \in Commands,
         c.at \in Exclusive => writer' = p,
         c.at \in Shared => p \in readers'
  PROVE  LocksKept'
<1>1. \A q \in Procs : proc'[q] = IF q = p THEN c ELSE proc[q]
  BY DEF IInv, Kinds
<1>2. \A q \in Procs \ {p} : proc[q].at \in Exclusive => writer' = q
  BY PullAssumption DEF LocksKept
<1>3. \A q \in Procs \ {p} : proc[q].at \in Shared => q \in readers'
  BY DEF LocksKept
<1> QED BY <1>1, <1>2, <1>3 DEF LocksKept

\* A step of a command that leaves the lock alone takes it from a place with
\* the lock it needs to another such, or to the release.
LEMMA OnwardLocksKept ==
  ASSUME IInv, LocksKept, NEW p \in Procs,
         \/ GatePull(p) \/ Resolve(p) \/ Fetched(p) \/ CopyManifest(p)
         \/ FetchSignature(p) \/ Materialized(p) \/ RegistryFails(p)
         \/ GateRun(p) \/ Look(p) \/ NotServed(p) \/ Prepare(p)
  PROVE  LocksKept'
<1> DEFINE c == proc'[p]
<1>1. proc[p] \in Processes /\ p \in DOMAIN proc
  BY DEF IInv, Kinds
<1>2. UNCHANGED lockVars /\ held' \subseteq Images
  BY PullAssumption DEF GatePull, Resolve, Fetched, CopyManifest, FetchSignature, Materialized,
    RegistryFails, GateRun, Look, NotServed, Prepare, nameVars, LocksKept
<1>3. /\ proc' = [proc EXCEPT ![p] = c]
      /\ c.cmd = proc[p].cmd /\ proc[p].at \notin {"idle", "ended", "refused"}
      /\ c.at \in Exclusive => proc[p].at \in Exclusive
      /\ c.at \in Shared => proc[p].at \in Shared
  <2>1. CASE GatePull(p) \/ Resolve(p) \/ Fetched(p) \/ CopyManifest(p)
    BY <1>1, <2>1 DEF GatePull, Resolve, Fetched, CopyManifest, Goto, Refuses, Releasing,
      Exclusive, Shared, Processes
  <2>2. CASE FetchSignature(p) \/ Materialized(p) \/ RegistryFails(p)
    BY <1>1, <2>2 DEF FetchSignature, Materialized, RegistryFails, Goto, Refuses,
      Releasing, Exclusive, Shared, Processes
  <2>3. CASE GateRun(p) \/ Look(p) \/ NotServed(p) \/ Prepare(p)
    BY <1>1, <2>3 DEF GateRun, Look, NotServed, Prepare, Goto, Refuses, Releasing,
      Exclusive, Shared, Processes
  <2> QED BY <2>1, <2>2, <2>3
<1> HIDE DEF c
<1> QED BY <1>2, <1>3, OwnLocksKept DEF LocksKept, lockVars

LEMMA LockingLocksKept ==
  ASSUME IInv, LocksKept, NEW p \in Procs,
         Begin(p) \/ TakeExclusive(p) \/ TakeShared(p) \/ Release(p) \/ Crash(p)
  PROVE  LocksKept'
<1> DEFINE c == proc'[p]
<1>1. proc[p] \in Processes /\ p \in DOMAIN proc
  BY DEF IInv, Kinds
<1>2. held' = held
  BY DEF Begin, TakeExclusive, TakeShared, Release, Crash, nameVars
<1>3. CASE Begin(p)
  <2>1. PICK cmd \in Commands :
          proc' = [proc EXCEPT ![p].cmd = cmd,
                    ![p].at = IF cmd.kind = "pull" THEN "lock" ELSE "shared"]
    BY <1>3 DEF Begin
  <2>2. /\ proc' = [proc EXCEPT ![p] = c]
        /\ c.cmd = cmd /\ c.at \in {"lock", "shared"}
    BY <1>1, <2>1 DEF Processes
  <2> HIDE DEF c
  <2> QED BY <1>2, <1>3, <2>2, OwnLocksKept DEF Begin, LocksKept, lockVars, Exclusive, Shared
<1>4. CASE TakeExclusive(p)
  <2>1. /\ proc' = [proc EXCEPT ![p] = c]
        /\ c.cmd = proc[p].cmd /\ c.at \in {"gate", "resolve"}
        /\ proc[p].at = "lock" /\ writer = None /\ writer' = p /\ readers' = readers
    BY <1>1, <1>4 DEF TakeExclusive, Goto, Processes
  <2> HIDE DEF c
  <2> QED BY <1>2, <2>1, OwnLocksKept DEF LocksKept, Exclusive, Shared
<1>5. CASE TakeShared(p)
  <2>1. /\ proc' = [proc EXCEPT ![p] = c]
        /\ c.cmd = proc[p].cmd /\ c.at \in {"prepare", "check", "look"}
        /\ proc[p].at = "shared" /\ writer' = writer /\ readers' = readers \cup {p}
    BY <1>1, <1>5 DEF TakeShared, Goto, Processes
  <2> HIDE DEF c
  <2> QED BY <1>2, <2>1, OwnLocksKept DEF LocksKept, Exclusive, Shared
<1>6. CASE Release(p) \/ Crash(p)
  <2>1. /\ writer' = IF writer = p THEN None ELSE writer
        /\ readers' = readers \ {p}
        /\ proc[p].at \notin {"idle", "ended", "refused"}
    BY <1>6 DEF Release, Crash
  <2>2. /\ proc' = [proc EXCEPT ![p] = c]
        /\ c.at \in {"idle", "ended", "refused", "lock", "shared"}
        /\ c.at \in {"lock", "shared"} => c.cmd = proc[p].cmd
    BY <1>1, <1>6 DEF Release, Crash, Idle, Processes
  <2> HIDE DEF c
  <2> QED BY <1>2, <2>1, <2>2, OwnLocksKept DEF LocksKept, Exclusive, Shared
<1> QED BY <1>3, <1>4, <1>5, <1>6

LEMMA NextLocksKept == ASSUME IInv, LocksKept, [Next]_vars PROVE LocksKept'
<1>1. CASE \/ \E b \in Blobs : Downloading(b)
           \/ Writing \/ MoveTag \/ AlterBlob \/ UNCHANGED vars
  BY <1>1 DEF Downloading, Writing, MoveTag, AlterBlob, vars, nameVars, lockVars, LocksKept
<1>2. CASE RemoveModel
  BY <1>2 DEF RemoveModel, lockVars, LocksKept
<1> QED BY <1>1, <1>2, OnwardLocksKept, LockingLocksKept
    DEF Next, Working, Surroundings, ProcStep

\* Every variable of a pull keeps its kind, and what reads or writes the
\* store does so under the lock that it needs, whatever fails or dies.
THEOREM LocksAndKinds == Spec => []TypeOK
<1> DEFINE All == IInv /\ LayersPlaced /\ DownloadKept /\ OutputKept /\ LocksKept
<1>1. Init => All
  BY InitInv, InitPlaced, InitDownloadKept, InitOutputKept, InitLocksKept
<1>2. All /\ [Next]_vars => All'
  BY NextInv, NextPlaced, NextDownloadKept, NextOutputKept, NextLocksKept
<1>3. All => TypeOK
  <2> SUFFICES ASSUME All PROVE TypeOK
    OBVIOUS
  <2>1. DownloadTypeOK
    BY DEF DownloadKept, TaskKept, Partials, IInv, Kinds, DownloadTypeOK
  <2>2. \A p \in Procs : proc[p] \in Processes
    BY DEF IInv, Kinds
  <2> QED BY <2>1, <2>2 DEF OutputKept, LocksKept, IInv, Kinds, Processes, TypeOK
<1> HIDE DEF All
<1> QED BY <1>1, <1>2, <1>3, PTL DEF Spec
=============================================================================
