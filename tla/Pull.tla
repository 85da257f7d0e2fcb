-------------------------------- MODULE Pull --------------------------------
(***************************************************************************)
(* `palan pull`, `palan run` and a load of `palan serve` of one reference  *)
(* (internal/cli, internal/transfer/pull.go), with the signature gate in   *)
(* front of each and the disturbances they are written against: the        *)
(* registry moves the tag or fails to answer, another process pulls in     *)
(* between, a blob is changed on disk, the model is removed, the process   *)
(* dies.                                                                   *)
(*                                                                         *)
(* StoreAccess has the lock and index.json in detail; here the lock is     *)
(* held or free and a save is one step.                                    *)
(***************************************************************************)
EXTENDS Materialize

CONSTANTS
  Procs,    \* the palan processes
  Signed,   \* the artifacts with a signature that verifies
  Commands  \* what they may be asked: [kind, gated, rehash, output]

ASSUME PullAssumption ==
  /\ Signed \subseteq Images
  /\ None \notin Images \cup Procs
  /\ Commands \subseteq [kind : {"pull", "run", "serve"}, gated : BOOLEAN,
                         rehash : BOOLEAN, output : BOOLEAN]

VARIABLES
  origin,   \* the artifact the registry has under the reference
  tag,      \* the artifact the store has under it, or None
  held,     \* the artifacts whose signature the store has
  writer,   \* the holder of the exclusive lock, or None
  readers,  \* the holders of the shared lock
  proc      \* where each process is

storeVars == <<disk, partial, task>>
nameVars == <<origin, tag, held>>
lockVars == <<writer, readers>>
vars == <<downloadVars, outputVars, nameVars, lockVars, proc>>

Exclusive == {"gate", "resolve", "fetch", "copy", "attach", "write"}
Shared == {"check", "look", "prepare"}
Places == Exclusive \cup Shared \cup
  {"idle", "lock", "shared", "release", "ended", "refused"}

\* cmd is what was asked, verified the artifact the gate accepted, root the
\* one being fetched, loaded the one handed to the engine, and then is where
\* the release of the lock leads.
Idle == [at |-> "idle", cmd |-> None, verified |-> None, root |-> None,
         loaded |-> None, then |-> "ended"]

\* Type invariant: every variable of the pull and its surroundings has its
\* kind, and what needs the store's lock is done by who holds it.
TypeOK ==
  /\ DownloadTypeOK
  /\ OutputTypeOK
  /\ origin \in Images
  /\ tag \in Images \cup {None}
  /\ held \subseteq Images
  /\ writer \in Procs \cup {None}
  /\ readers \subseteq Procs
  /\ DOMAIN proc = Procs
  /\ \A p \in Procs :
       /\ proc[p].at \in Places
       /\ proc[p].cmd \in Commands \cup {None}
       /\ proc[p].at \notin {"idle", "ended", "refused"} => proc[p].cmd \in Commands
       /\ proc[p].verified \in Images \cup {None}
       /\ proc[p].root \in Images \cup {None}
       /\ proc[p].loaded \in Images \cup {None}
       /\ proc[p].then \in {"ended", "refused", "lock", "shared"}
       /\ proc[p].at \in Exclusive => writer = p
       /\ proc[p].at \in Shared => p \in readers

Init ==
  /\ DownloadInit
  /\ OutputInit
  /\ origin \in Images
  /\ tag = None
  /\ held = {}
  /\ writer = None
  /\ readers = {}
  /\ proc = [p \in Procs |-> Idle]

-----------------------------------------------------------------------------
Goto(p, place) == proc' = [proc EXCEPT ![p].at = place]

\* The command gives the lock up and goes where that leads.
Releasing(p, then) ==
  proc' = [proc EXCEPT ![p].at = "release", ![p].then = then]

Refuses(p) == Releasing(p, "refused")

NoTasks == task' = [b \in Blobs |-> NoTask]

\* A command starts; a pull takes the store for itself.
Begin(p) ==
  /\ proc[p].at = "idle"
  /\ \E cmd \in Commands :
       proc' = [proc EXCEPT ![p].cmd = cmd,
                 ![p].at = IF cmd.kind = "pull" THEN "lock" ELSE "shared"]
  /\ UNCHANGED <<downloadVars, outputVars, nameVars, lockVars>>

\* Mutant: who reads the store is not waited for.
TakeUnderReaders(p) ==
  /\ proc[p].at = "lock"
  /\ writer' = p
  /\ Goto(p, IF proc[p].cmd.kind = "pull" /\ proc[p].cmd.gated
             THEN "gate" ELSE "resolve")
  /\ UNCHANGED <<downloadVars, outputVars, nameVars, readers>>

\* A pull checks the signature under the lock, before it resolves the
\* reference; the pull inside a run was checked before it asked for the lock.
TakeExclusive(p) ==
  /\ proc[p].at = "lock"
  /\ writer = None /\ readers = {}
  /\ writer' = p
  /\ Goto(p, IF proc[p].cmd.kind = "pull" /\ proc[p].cmd.gated
             THEN "gate" ELSE "resolve")
  /\ UNCHANGED <<downloadVars, outputVars, nameVars, readers>>

\* The gate of a pull asks the registry, and what it accepts is carried into
\* the fetch.
GatePull(p) ==
  /\ proc[p].at = "gate"
  /\ IF origin \in Signed
     THEN proc' = [proc EXCEPT ![p].verified = origin, ![p].at = "resolve"]
     ELSE Refuses(p)
  /\ UNCHANGED <<downloadVars, outputVars, nameVars, lockVars>>

\* Mutant: the tag is resolved again and whatever it is now is fetched.
ResolveAgain(p) ==
  /\ proc[p].at = "resolve"
  /\ proc' = [proc EXCEPT ![p].root = origin, ![p].at = "fetch"]
  /\ task' = TasksFor(BlobsOf(origin))
  /\ UNCHANGED <<disk, partial, faults, outputVars, nameVars, lockVars>>

\* Client.Pull resolves the reference again, refuses anything but what was
\* checked, and starts a task for each leaf of what it found.
Resolve(p) ==
  /\ proc[p].at = "resolve"
  /\ IF proc[p].verified \in {None, origin}
     THEN /\ proc' = [proc EXCEPT ![p].root = origin, ![p].at = "fetch"]
          /\ task' = TasksFor(BlobsOf(origin))
     ELSE Refuses(p) /\ UNCHANGED task
  /\ UNCHANGED <<disk, partial, faults, outputVars, nameVars, lockVars>>

\* errgroup.Wait: every task has ended, and one that failed fails the pull.
Fetched(p) ==
  /\ proc[p].at = "fetch"
  /\ \/ FetchSucceeds(BlobsOf(proc[p].root)) /\ Goto(p, "copy")
     \/ FetchFails(BlobsOf(proc[p].root)) /\ Refuses(p)
  /\ NoTasks
  /\ UNCHANGED <<disk, partial, faults, outputVars, nameVars, lockVars>>

\* oras.Copy, by digest: the manifest is written and the reference tagged.
CopyManifest(p) ==
  /\ proc[p].at = "copy"
  /\ tag' = proc[p].root
  /\ Goto(p, "attach")
  /\ UNCHANGED <<downloadVars, outputVars, origin, held, lockVars>>

\* The signature follows if the registry has one.  The pull has succeeded
\* either way, and goes on to the output directory or ends.
FetchSignature(p) ==
  /\ proc[p].at = "attach"
  /\ \/ held' = held \cup ({proc[p].root} \cap Signed) /\ UNCHANGED faults
     \/ Fault /\ UNCHANGED held
  /\ IF proc[p].cmd.output
     THEN Goto(p, "write") /\ OpenOutput(proc[p].root)
     ELSE /\ Releasing(p, IF proc[p].cmd.kind = "run" THEN "shared" ELSE "ended")
          /\ UNCHANGED outputVars
  /\ UNCHANGED <<storeVars, origin, tag, lockVars>>

\* The output directory is finished with, one way or the other.
Materialized(p) ==
  /\ proc[p].at = "write"
  /\ \/ job.at = "ok" /\ Releasing(p, "ended")
     \/ job.at = "refused" /\ Refuses(p)
  /\ job' = NoJob
  /\ UNCHANGED <<downloadVars, out, nameVars, lockVars>>

\* The registry does not answer where the command depends on it.
RegistryFails(p) ==
  /\ proc[p].at \in {"gate", "resolve", "copy"}
  /\ Fault
  /\ Refuses(p)
  /\ UNCHANGED <<storeVars, outputVars, nameVars, lockVars>>

\* The deferred unlock.  A command that is over exits with nothing in hand.
Release(p) ==
  /\ proc[p].at = "release"
  /\ writer' = IF writer = p THEN None ELSE writer
  /\ readers' = readers \ {p}
  /\ proc' = [proc EXCEPT ![p] =
       [(IF @.then \in {"ended", "refused"} THEN Idle ELSE @) EXCEPT !.at = proc[p].then]]
  /\ UNCHANGED <<downloadVars, outputVars, nameVars>>

-----------------------------------------------------------------------------
(* `palan run`, and each load of `palan serve` (storeBackend.Spec), which   *)
(* goes the same way without the fetch.                                    *)

\* withSharedLock: first to check and look, and again after a fetch.
TakeShared(p) ==
  /\ proc[p].at = "shared"
  /\ writer = None
  /\ readers' = readers \cup {p}
  /\ Goto(p, IF proc[p].root # None THEN "prepare"
             ELSE IF proc[p].cmd.gated THEN "check" ELSE "look")
  /\ UNCHANGED <<downloadVars, outputVars, nameVars, writer>>

\* resolveVerifySource: the store answers for what it has with its
\* signature, and the registry otherwise.
Subject == IF tag # None /\ tag \in held THEN tag ELSE origin

\* verifyGate, before anything is fetched.  The registry may not answer.
GateRun(p) ==
  /\ proc[p].at = "check"
  /\ \/ /\ Subject \in Signed
        /\ proc' = [proc EXCEPT ![p].verified = Subject, ![p].at = "look"]
        /\ UNCHANGED faults
     \/ Subject \notin Signed /\ Refuses(p) /\ UNCHANGED faults
     \/ tag \notin held /\ Fault /\ Refuses(p)
  /\ UNCHANGED <<storeVars, outputVars, nameVars, lockVars>>

\* A model that is not in the store is fetched, under the other lock.
Look(p) ==
  /\ proc[p].at = "look"
  /\ tag = None => proc[p].cmd.kind = "run"
  /\ IF tag = None THEN Releasing(p, "lock") ELSE Goto(p, "prepare")
  /\ UNCHANGED <<downloadVars, outputVars, nameVars, lockVars>>

\* A load behind the router knows only the models that are there.
NotServed(p) ==
  /\ proc[p].at = "look"
  /\ tag = None /\ proc[p].cmd.kind = "serve"
  /\ Refuses(p)
  /\ UNCHANGED <<downloadVars, outputVars, nameVars, lockVars>>

\* The weights a run hands to the engine: the first weight layer.
WeightOf(image) ==
  LET weights == {i \in DOMAIN Layers[image] : Layers[image][i].weight}
  IN IF weights = {} THEN None
     ELSE Layers[image][CHOOSE i \in weights : \A j \in weights : i <= j]

\* loadModelInfo and requireGGUF: raw weights, and a file that opens and
\* begins as it should.
Servable(image) ==
  /\ WeightOf(image) # None
  /\ WeightOf(image).raw
  /\ disk[WeightOf(image).blob] # "absent"

\* checkLoadedContent: the store's copy is what verified, and its blobs are
\* read back when that is asked for.
ContentChecked(p) ==
  /\ proc[p].verified # None => tag = proc[p].verified
  /\ proc[p].cmd.rehash => \A b \in BlobsOf(tag) : disk[b] = "whole"

\* prepare: what the store has now is held to what verified, and becomes
\* what the engine will open once the lock is released.
Prepare(p) ==
  /\ proc[p].at = "prepare"
  /\ IF tag # None /\ ContentChecked(p) /\ Servable(tag)
     THEN proc' = [proc EXCEPT ![p].loaded = tag,
                               ![p].at = "release", ![p].then = "ended"]
     ELSE Refuses(p)
  /\ UNCHANGED <<downloadVars, outputVars, nameVars, lockVars>>

-----------------------------------------------------------------------------
(* What the surroundings do, each a fault of the budget.                   *)

\* The tag moves in the registry.
MoveTag ==
  /\ Fault
  /\ \E image \in Images \ {origin} : origin' = image
  /\ UNCHANGED <<storeVars, outputVars, tag, held, lockVars, proc>>

\* A blob is changed on disk, under the name it had.
AlterBlob ==
  /\ Fault
  /\ \E b \in Blobs : disk[b] = "whole" /\ disk' = [disk EXCEPT ![b] = "altered"]
  /\ UNCHANGED <<partial, task, outputVars, nameVars, lockVars, proc>>

\* Someone else removes the model, whose signature goes with it.
RemoveModel ==
  /\ Fault
  /\ writer = None /\ readers = {} /\ tag # None
  /\ tag' = None
  /\ held' = held \ {tag}
  /\ UNCHANGED <<storeVars, outputVars, origin, lockVars, proc>>

\* The process dies.  The kernel releases its lock; nothing is taken back.
Crash(p) ==
  /\ Fault
  /\ proc[p].at \notin {"idle", "ended", "refused"}
  /\ proc' = [proc EXCEPT ![p] = Idle]
  /\ writer' = IF writer = p THEN None ELSE writer
  /\ readers' = readers \ {p}
  /\ IF writer = p THEN NoTasks /\ job' = NoJob ELSE UNCHANGED <<task, job>>
  /\ UNCHANGED <<disk, partial, out, nameVars>>

-----------------------------------------------------------------------------
ProcStep(p) ==
  \/ TakeExclusive(p) \/ GatePull(p)       \/ Resolve(p)
  \/ Fetched(p)       \/ CopyManifest(p)   \/ FetchSignature(p)
  \/ Materialized(p)  \/ RegistryFails(p)  \/ Release(p)
  \/ TakeShared(p)    \/ GateRun(p)        \/ Look(p)
  \/ NotServed(p)     \/ Prepare(p)

Downloading(b) ==
  DownloadStep(b) /\ UNCHANGED <<outputVars, nameVars, lockVars, proc>>

Writing ==
  MaterializeStep /\ UNCHANGED <<storeVars, nameVars, lockVars, proc>>

Surroundings == MoveTag \/ AlterBlob \/ RemoveModel \/ \E p \in Procs : Crash(p)

\* The steps of the commands that were started.
Working ==
  \/ \E p \in Procs : ProcStep(p)
  \/ \E b \in Blobs : Downloading(b)
  \/ Writing

Next ==
  \/ \E p \in Procs : Begin(p)
  \/ Working
  \/ Surroundings

\* Commands that were started go on: as long as one of their steps can be
\* made, one is.  Nobody has to start a command, nothing has to go wrong, and
\* who gets the lock, or which download gets to run, is left open.
Fairness == WF_vars(Working)

Spec == Init /\ [][Next]_vars /\ Fairness

-----------------------------------------------------------------------------
(* Safety.                                                                 *)

\* What a gated command fetches, keeps or hands to the engine is an artifact
\* whose signature verified, however the tag moves between the gate, the
\* fetch and the load (internal/cli/pull.go:96, run.go:210).
AdmittedOnly ==
  \A p \in Procs :
    proc[p].cmd # None /\ proc[p].cmd.gated =>
      {proc[p].root, proc[p].loaded} \subseteq Signed \cup {None}

\* A reference is never published before its content has arrived and hashed
\* to its digests, whichever attempts, ranges and leftovers that took.
TaggedIsPresent ==
  tag # None => \A b \in BlobsOf(tag) : disk[b] \in {"whole", "altered"}

-----------------------------------------------------------------------------
(* Liveness.                                                               *)

\* Nothing goes wrong any more, and p is a pull without a gate about to run.
Undisturbed(p) ==
  /\ faults = MaxFaults
  /\ proc[p].at = "lock" /\ proc[p].cmd.kind = "pull" /\ ~proc[p].cmd.gated

\* A pull that meets no further fault brings the whole artifact, whatever
\* earlier pulls left in the way of partial files, tasks and locks.
UndisturbedPullCompletes ==
  \A p \in Procs :
    Undisturbed(p) ~>
      \/ tag = origin /\ proc[p].at = "write"
      \/ proc[p].at = "ended"
=============================================================================
