--------------------------- MODULE RuntimeUnpack ---------------------------
(***************************************************************************)
(* How an engine build gets from the store to a path that is executed      *)
(* (Ensure, internal/runtime/artifact.go), and how it is admitted before   *)
(* (checkRuntime and `palan runtime pull`, internal/cli/runtime.go).       *)
(*                                                                         *)
(* Each build has one unpacked tree per host, shared by every palan        *)
(* process and lying outside the content-addressed store, where anything   *)
(* may change it.  Whoever finds it does not match builds a replacement    *)
(* in a staging directory, removes the tree and renames; a process may die *)
(* between any two of these steps.                                         *)
(***************************************************************************)
EXTENDS Naturals, Sequences

CONSTANTS
  Builds,     \* the runtime artifacts there are
  Layers,     \* the files of each: a sequence of [name, blob]
  Config,     \* of each: [runtime, host, safe, entry], see Fits
  Blobs,
  Signed,     \* the builds whose signature verifies, at the registry
  Procs,
  MaxFaults,  \* how often the surroundings may interfere (bounds the model)
  Link,       \* a tree that is a symbolic link, or no directory
  None

Names(build) == {Layers[build][i].name : i \in DOMAIN Layers[build]}

ASSUME UnpackAssumption ==
  /\ \A build \in Builds : \A i \in DOMAIN Layers[build] :
       Layers[build][i].blob \in Blobs
  /\ Signed \subseteq Builds
  /\ MaxFaults \in Nat
  /\ None \notin Builds \cup Procs

VARIABLES
  origin,     \* the build the registry has under the reference
  tag,        \* the build the store has under it, or None
  altered,    \* the store's blobs that were changed on disk
  tree,       \* the unpacked tree of each build: its files, Link or None
  meddled,    \* the processes whose engine's tree was changed under them
  linked,     \* a directory above the trees was replaced by a link
  staging,    \* what each process has staged, or None
  unpacker,   \* the holder of the unpack lock, or None
  proc,       \* where each process is
  faults

vars == <<origin, tag, altered, tree, meddled, linked, staging, unpacker, proc, faults>>
storeVars == <<origin, tag, altered>>
treeVars == <<tree, meddled, linked, staging, unpacker>>

Idle == [at |-> "idle", gated |-> FALSE, build |-> None, alone |-> FALSE]

Init ==
  /\ origin \in Builds
  /\ tag = None
  /\ altered = {}
  /\ tree = [b \in Builds |-> None]
  /\ meddled = {}
  /\ linked = FALSE
  /\ staging = [p \in Procs |-> None]
  /\ unpacker = None
  /\ proc = [p \in Procs |-> Idle]
  /\ faults = 0

-----------------------------------------------------------------------------
(* What the manifest says.                                                 *)

\* The files a tree must hold, no more and no fewer, each with its bytes.
Manifest(build) ==
  {<<Layers[build][i].name, Layers[build][i].blob>> : i \in DOMAIN Layers[build]}

\* validateLayers: two layers may not claim one name.
NamesDiffer(build) ==
  \A i, j \in DOMAIN Layers[build] :
    Layers[build][i].name = Layers[build][j].name => i = j

\* safePathFields and namesLayer: the config's names are single components,
\* and the entrypoint is one of the files.
Sound(build) == Config[build].safe /\ Config[build].entry \in Names(build)

\* Ensure's refusals, before it reads or changes anything.
Fits(build) ==
  /\ Config[build].runtime /\ Config[build].host
  /\ Sound(build)
  /\ NamesDiffer(build)

\* Pack's: what a publisher can build with `palan runtime pack`.
Packs(build) ==
  /\ Layers[build] # <<>>
  /\ Config[build].runtime
  /\ Sound(build)
  /\ NamesDiffer(build)

-----------------------------------------------------------------------------
Fault == faults < MaxFaults /\ faults' = faults + 1

Goto(p, place) == proc' = [proc EXCEPT ![p].at = place]

\* A command keeps the store's lock from its first read to the path it hands
\* back: shared, or alone for one that writes.
Busy(p) == proc[p].at \notin {"idle", "ready", "refused"}
NobodyBusy == \A p \in Procs : ~Busy(p)
NobodyWrites == \A p \in Procs : ~(Busy(p) /\ proc[p].alone)

\* `palan runtime pack` on this host.
Pack(build) ==
  /\ NobodyBusy
  /\ Packs(build) /\ tag # build
  /\ Fault
  /\ tag' = build
  /\ UNCHANGED <<origin, altered, treeVars, proc>>

\* checkRuntime resolves the reference in the store; what it finds is what
\* will be unpacked.
CheckRuntime(p) ==
  /\ proc[p].at = "idle"
  /\ NobodyWrites
  /\ \E gated \in BOOLEAN :
       proc' = [proc EXCEPT ![p] =
         [at |-> IF tag = None THEN "refused" ELSE IF gated THEN "gate" ELSE "accept",
          gated |-> gated, build |-> tag, alone |-> FALSE]]
  /\ UNCHANGED <<storeVars, treeVars, faults>>

\* Mutant: what verified is not compared with what was resolved.
GateUncompared(p) ==
  /\ proc[p].at = "gate"
  /\ \E subject \in {tag, origin} :
       Goto(p, IF subject \in Signed THEN "accept" ELSE "refused")
  /\ UNCHANGED <<storeVars, treeVars, faults>>

\* The gate answers for what it verified: this store's build, whose signature
\* the store may hold, or the registry's.  Only the build that was resolved
\* may pass on it (checkLoadedContent).
GateRuntime(p) ==
  /\ proc[p].at = "gate"
  /\ \E subject \in {tag, origin} :
       Goto(p, IF subject \in Signed /\ subject = proc[p].build
               THEN "accept" ELSE "refused")
  /\ UNCHANGED <<storeVars, treeVars, faults>>

\* `palan runtime pull`: what the registry answers is gated, fetched, tagged
\* and then unpacked, all under the exclusive lock.
PullRuntime(p) ==
  /\ proc[p].at = "idle"
  /\ NobodyBusy
  /\ \E gated \in BOOLEAN :
       IF gated /\ origin \notin Signed
       THEN Goto(p, "refused") /\ UNCHANGED tag
       ELSE /\ tag' = origin
            /\ proc' = [proc EXCEPT ![p] = [at |-> "accept", gated |-> gated,
                                            build |-> origin, alone |-> TRUE]]
  /\ UNCHANGED <<origin, altered, treeVars, faults>>

\* Ensure's refusals, plainDirs' among them, before the unpack lock.
Accept(p) ==
  /\ proc[p].at = "accept"
  /\ Goto(p, IF Fits(proc[p].build) /\ ~linked THEN "wait" ELSE "refused")
  /\ UNCHANGED <<storeVars, treeVars, faults>>

\* Mutant: nobody is waited for.
TakeNoUnpackLock(p) ==
  /\ proc[p].at = "wait"
  /\ IF linked THEN Goto(p, "refused") /\ UNCHANGED unpacker
               ELSE Goto(p, "match") /\ unpacker' = p
  /\ UNCHANGED <<storeVars, tree, meddled, linked, staging, faults>>

\* lockUnpacking, and plainDirs once more under the lock.
TakeUnpackLock(p) ==
  /\ proc[p].at = "wait"
  /\ unpacker = None
  /\ IF linked THEN Goto(p, "refused") /\ UNCHANGED unpacker
               ELSE Goto(p, "match") /\ unpacker' = p
  /\ UNCHANGED <<storeVars, tree, meddled, linked, staging, faults>>

\* The unpack ends: its lock and its staging directory go.
Leaves(p, place) ==
  /\ Goto(p, place)
  /\ unpacker' = None
  /\ staging' = [staging EXCEPT ![p] = None]

\* materializedMatches: a tree with exactly the manifest's files is handed
\* back as it is; for any other a replacement is begun.
Match(p) ==
  /\ proc[p].at = "match"
  /\ IF tree[proc[p].build] = Manifest(proc[p].build)
     THEN Leaves(p, "ready")
     ELSE /\ Goto(p, "stage")
          /\ staging' = [staging EXCEPT ![p] = {}]
          /\ UNCHANGED unpacker
  /\ UNCHANGED <<storeVars, tree, meddled, linked, faults>>

\* copyBlob: the next layer is copied and held to its digest.  A blob that
\* does not match, or a copy that fails, ends the unpack.
StageFile(p) ==
  /\ proc[p].at = "stage"
  /\ staging[p] # Manifest(proc[p].build)
  /\ \E file \in Manifest(proc[p].build) \ staging[p] :
       \/ /\ file[2] \notin altered
          /\ staging' = [staging EXCEPT ![p] = @ \cup {file}]
          /\ UNCHANGED <<unpacker, proc, faults>>
       \/ file[2] \in altered /\ Leaves(p, "refused") /\ UNCHANGED faults
       \/ Fault /\ Leaves(p, "refused")
  /\ UNCHANGED <<storeVars, tree, meddled, linked>>

\* Mutant: the old tree is left for the rename to replace.
RemoveNothing(p) ==
  /\ proc[p].at = "stage"
  /\ staging[p] = Manifest(proc[p].build)
  /\ Goto(p, "rename")
  /\ UNCHANGED <<storeVars, tree, meddled, linked, staging, unpacker, faults>>

\* Only a replacement that is whole takes the old tree away ...
RemoveTree(p) ==
  /\ proc[p].at = "stage"
  /\ staging[p] = Manifest(proc[p].build)
  /\ tree' = [tree EXCEPT ![proc[p].build] = None]
  /\ Goto(p, "rename")
  /\ UNCHANGED <<storeVars, meddled, linked, staging, unpacker, faults>>

\* ... and becomes the tree, if nothing else has taken the name.
Rename(p) ==
  /\ proc[p].at = "rename"
  /\ IF tree[proc[p].build] = None
     THEN /\ tree' = [tree EXCEPT ![proc[p].build] = staging[p]]
          /\ UNCHANGED meddled
          /\ Leaves(p, "ready")
     ELSE Leaves(p, "refused") /\ UNCHANGED <<tree, meddled>>
  /\ UNCHANGED <<storeVars, linked, faults>>

-----------------------------------------------------------------------------
(* What the surroundings do, each a fault of the budget.                   *)

\* Someone changes, adds or removes a file of a tree, or puts a link there.
Meddle(build) ==
  /\ Fault
  /\ \E t \in {Link, {<<"added", "other">>} \cup Manifest(build)} \cup
              {Manifest(build) \ {file} : file \in Manifest(build)} :
       tree' = [tree EXCEPT ![build] = t]
  /\ meddled' = meddled \cup
       {p \in Procs : proc[p].at = "ready" /\ proc[p].build = build}
  /\ UNCHANGED <<storeVars, linked, staging, unpacker, proc>>

\* Someone puts a link where runtimes/ or runtimes/<name> was.
LinkAbove ==
  /\ Fault
  /\ linked' = TRUE
  /\ UNCHANGED <<storeVars, tree, meddled, staging, unpacker, proc>>

AlterBlob ==
  /\ Fault
  /\ \E b \in Blobs \ altered : altered' = altered \cup {b}
  /\ UNCHANGED <<origin, tag, treeVars, proc>>

MoveTag ==
  /\ Fault
  /\ \E b \in Builds \ {origin} : origin' = b
  /\ UNCHANGED <<tag, altered, treeVars, proc>>

\* A process dies: the kernel releases its locks, and what it staged stays
\* behind under a name nobody asks for again.
Crash(p) ==
  /\ Fault
  /\ Busy(p)
  /\ proc' = [proc EXCEPT ![p] = Idle]
  /\ unpacker' = IF unpacker = p THEN None ELSE unpacker
  /\ staging' = [staging EXCEPT ![p] = None]
  /\ UNCHANGED <<storeVars, tree, meddled, linked>>

-----------------------------------------------------------------------------
Working(p) ==
  \/ GateRuntime(p) \/ Accept(p)    \/ TakeUnpackLock(p) \/ Match(p)
  \/ StageFile(p)   \/ RemoveTree(p) \/ Rename(p)

Next ==
  \/ \E p \in Procs : CheckRuntime(p) \/ PullRuntime(p) \/ Working(p) \/ Crash(p)
  \/ \E b \in Builds : Pack(b) \/ Meddle(b)
  \/ LinkAbove \/ AlterBlob \/ MoveTag

\* A command that was started goes on.  Each process runs one command, so
\* whoever waits for the unpack lock gets it without a promise from flock.
Fairness == \A p \in Procs : WF_vars(Working(p))

Spec == Init /\ [][Next]_vars /\ Fairness

-----------------------------------------------------------------------------
\* A gated command executes a build whose signature verified, however the
\* reference moves in the registry between the store's answer and the gate's.
EngineIsAdmitted ==
  \A p \in Procs :
    proc[p].at = "ready" /\ proc[p].gated => proc[p].build \in Signed

\* The tree an engine is started from is exactly what its manifest says, no
\* matter what was there before, and stays so unless something other than
\* palan changes it: no unpack of another process removes it, mixes it or
\* leaves it half done.
EngineHasItsTree ==
  \A p \in Procs \ meddled :
    proc[p].at = "ready" => tree[proc[p].build] = Manifest(proc[p].build)

\* Nothing goes wrong any more, and p is about to unpack a build that
\* `palan runtime pack` lets out, from blobs that are what they were.
Unpacks(p) ==
  /\ faults = MaxFaults
  /\ ~linked
  /\ proc[p].at = "accept"
  /\ Packs(proc[p].build) /\ Config[proc[p].build].host
  /\ \A file \in Manifest(proc[p].build) : file[2] \notin altered

\* Whatever an earlier unpack's death or somebody's meddling left, a build
\* that was packed is unpacked and handed back.
UnpackIsRepaired == \A p \in Procs : Unpacks(p) ~> proc[p].at = "ready"
=============================================================================
