---------------------------- MODULE StoreAccess ----------------------------
(***************************************************************************)
(* palan processes sharing one store: internal/store/store.go's Open, Lock *)
(* and reload, and the commands that use them (internal/cli/pull.go, rm.go *)
(* and gc.go, and every command that reads under the shared lock).         *)
(*                                                                         *)
(* index.json is saved by truncating and rewriting it, so a save is two    *)
(* steps, and a process that dies between them leaves the index cut short. *)
(* A process works on the view of the index it read last, and saves that   *)
(* view.  It runs one command after the other; `palan run` on a model it   *)
(* does not have is a read, a pull and a read.                             *)
(***************************************************************************)
EXTENDS StoreLayout

CONSTANTS
  Procs,    \* the processes using the store
  Offers,   \* the images the registry may answer each reference with
  Signed,   \* the images the registry holds a signature of
  Cut       \* the index is cut short and nobody is saving it

ASSUME AccessAssumption ==
  /\ Offers \in [Refs -> SUBSET Images]
  /\ Signed \subseteq Images
  /\ None \notin Procs
  /\ Cut \notin Procs \cup {None}

VARIABLES
  index,    \* index.json, as its last finished save left it
  saver,    \* the process in the middle of saving it, Cut, or None
  blobs,    \* blobs/
  writer,   \* the holder of the exclusive flock, or None
  readers,  \* the holders of the shared flock
  pc,       \* where each process is
  op,       \* the command it runs
  ref,      \* the reference its command names
  view,     \* the index as it last read or changed it
  img       \* the image, or signature's image, its command works on

diskVars == <<index, saver, blobs>>
lockVars == <<writer, readers>>
cmdVars  == <<op, ref>>
vars     == <<diskVars, lockVars, pc, cmdVars, view, img>>

Writing == {"pull", "rm", "gc"}
Ops     == Writing \cup {"read"}

\* Where a save leads once it is finished.
AfterSave == [tagging   |-> "signature",
              signing   |-> "unlock",
              untagging |-> "attached",
              unsigning |-> "delete",
              unlinking |-> "delete",
              resaving  |-> "unlock"]

\* The steps made holding a lock, after the reload.
Locked == DOMAIN AfterSave \cup
  {"resolve", "fetch", "signature", "signed", "untag", "attached", "delete",
   "unlink", "sweep", "lookup", "reading", "unlock"}

\* Type invariant: every variable of the store and its users has its kind.
TypeOK ==
  /\ index \in Indexes
  /\ saver \in Procs \cup {None, Cut}
  /\ blobs \subseteq Blobs
  /\ writer \in Procs \cup {None}
  /\ readers \subseteq Procs
  /\ pc \in [Procs -> Locked \cup {"idle", "open", "lock", "reload"}]
  /\ op \in [Procs -> Ops]
  /\ ref \in [Procs -> Refs]
  /\ view \in [Procs -> Indexes]
  /\ img \in [Procs -> Images \cup {None}]

Empty == [tags |-> [r \in Refs |-> None], sigs |-> {}]

Init ==
  /\ index = Empty
  /\ saver = None
  /\ blobs = {}
  /\ writer = None
  /\ readers = {}
  /\ pc = [p \in Procs |-> "idle"]
  /\ op = [p \in Procs |-> "read"]
  /\ ref = [p \in Procs |-> CHOOSE r \in Refs : TRUE]
  /\ view = [p \in Procs |-> Empty]
  /\ img = [p \in Procs |-> None]

-----------------------------------------------------------------------------
Goto(p, step) == pc' = [pc EXCEPT ![p] = step]

Whole == saver = None

FreeLock(p) ==
  /\ writer' = IF writer = p THEN None ELSE writer
  /\ readers' = readers \ {p}

\* A changed view is on its way to index.json.
BeginSave(p, ix, saving) ==
  /\ view' = [view EXCEPT ![p] = ix]
  /\ saver' = p
  /\ Goto(p, saving)

\* The command ends: its process forgets what it read.
EndCommand(p) ==
  /\ Goto(p, "idle")
  /\ view' = [view EXCEPT ![p] = Empty]
  /\ img' = [img EXCEPT ![p] = None]

-----------------------------------------------------------------------------
(* Opening and locking.                                                    *)

\* A command starts.  Those that write read the layout before they lock, and
\* a reader may leave that to its lock.
Begin(p, o, r) ==
  /\ pc[p] = "idle"
  /\ op' = [op EXCEPT ![p] = o]
  /\ ref' = [ref EXCEPT ![p] = r]
  /\ Goto(p, "open") \/ (o = "read" /\ Goto(p, "lock"))
  /\ UNCHANGED <<diskVars, lockVars, view, img>>

\* openLayout with no lock held: a read caught mid-save is tried again, ten
\* times at most.
Open(p) ==
  /\ pc[p] = "open"
  /\ \/ /\ Whole
        /\ view' = [view EXCEPT ![p] = index]
        /\ Goto(p, "lock")
        /\ UNCHANGED img
     \/ ~Whole /\ EndCommand(p)
  /\ UNCHANGED <<diskVars, lockVars, cmdVars>>

\* Mutant of Acquire: a shared lock is granted beside an exclusive one.
AcquireBeside(p) ==
  /\ pc[p] = "lock"
  /\ \/ /\ op[p] \in Writing /\ writer = None /\ readers = {}
        /\ writer' = p
        /\ UNCHANGED readers
     \/ /\ op[p] = "read"
        /\ readers' = readers \cup {p}
        /\ UNCHANGED writer
  /\ Goto(p, "reload")
  /\ UNCHANGED <<diskVars, cmdVars, view, img>>

\* flock, polled until it is granted.
Acquire(p) ==
  /\ pc[p] = "lock"
  /\ writer = None
  /\ \/ /\ op[p] \in Writing /\ readers = {}
        /\ writer' = p
        /\ UNCHANGED readers
     \/ /\ op[p] = "read"
        /\ readers' = readers \cup {p}
        /\ UNCHANGED writer
  /\ Goto(p, "reload")
  /\ UNCHANGED <<diskVars, cmdVars, view, img>>

\* The wait for the lock is given up.
GiveUp(p) ==
  /\ pc[p] = "lock"
  /\ EndCommand(p)
  /\ UNCHANGED <<diskVars, lockVars, cmdVars>>

FirstStep == [pull |-> "resolve", rm |-> "untag", gc |-> "unlink",
              read |-> "lookup"]

\* Mutants of Reload: the layout is not read again, and a failed reload
\* keeps the lock.
ReloadSkipped(p) ==
  /\ pc[p] = "reload"
  /\ Goto(p, FirstStep[op[p]])
  /\ UNCHANGED <<diskVars, lockVars, cmdVars, view, img>>

ReloadKeepsLock(p) ==
  /\ pc[p] = "reload"
  /\ \/ /\ Whole
        /\ view' = [view EXCEPT ![p] = index]
        /\ Goto(p, FirstStep[op[p]])
        /\ UNCHANGED img
     \/ ~Whole /\ EndCommand(p)
  /\ UNCHANGED <<diskVars, lockVars, cmdVars>>

\* The layout is read again under the lock, or the lock is let go.
Reload(p) ==
  /\ pc[p] = "reload"
  /\ \/ /\ Whole
        /\ view' = [view EXCEPT ![p] = index]
        /\ Goto(p, FirstStep[op[p]])
        /\ UNCHANGED <<lockVars, img>>
     \/ ~Whole /\ EndCommand(p) /\ FreeLock(p)
  /\ UNCHANGED <<diskVars, cmdVars>>

\* The deferred unlock, however the command ended.
Unlock(p) ==
  /\ pc[p] = "unlock"
  /\ EndCommand(p) /\ FreeLock(p)
  /\ UNCHANGED <<diskVars, cmdVars>>

\* The save under way is finished.
Saved(p) ==
  /\ pc[p] \in DOMAIN AfterSave
  /\ index' = view[p]
  /\ saver' = None
  /\ Goto(p, AfterSave[pc[p]])
  /\ UNCHANGED <<blobs, lockVars, cmdVars, view, img>>

-----------------------------------------------------------------------------
(* pull.                                                                   *)

\* The registry says which image the reference is.
Resolve(p) ==
  /\ pc[p] = "resolve"
  /\ \E i \in Offers[ref[p]] : img' = [img EXCEPT ![p] = i]
  /\ Goto(p, "fetch")
  /\ UNCHANGED <<diskVars, lockVars, cmdVars, view>>

\* A blob the store lacks arrives; the manifest comes after what it names.
Fetch(p) ==
  /\ pc[p] = "fetch"
  /\ \E b \in Content(img[p]) \ blobs :
       /\ b = img[p] => Layers[img[p]] \subseteq blobs
       /\ blobs' = blobs \cup {b}
  /\ UNCHANGED <<index, saver, lockVars, pc, cmdVars, view, img>>

\* Mutant of TagModel: the reference is tagged before everything is there.
TagEarly(p) ==
  /\ pc[p] = "fetch"
  /\ img[p] \in blobs \/ Layers[img[p]] \subseteq blobs
  /\ BeginSave(p, [view[p] EXCEPT !.tags[ref[p]] = img[p]], "tagging")
  /\ UNCHANGED <<index, blobs, lockVars, cmdVars, img>>

\* oras.Copy tags the reference once all of the image is there.
TagModel(p) ==
  /\ pc[p] = "fetch"
  /\ Content(img[p]) \subseteq blobs
  /\ BeginSave(p, [view[p] EXCEPT !.tags[ref[p]] = img[p]], "tagging")
  /\ UNCHANGED <<index, blobs, lockVars, cmdVars, img>>

\* fetchSignature: the signature follows the model, if the registry has it.
FetchSignature(p) ==
  /\ pc[p] = "signature"
  /\ img[p] \in Signed
  /\ blobs' = blobs \cup {Sig[img[p]]}
  /\ Goto(p, "signed")
  /\ UNCHANGED <<index, saver, lockVars, cmdVars, view, img>>

\* Mutant of TagSignature: the signature takes the model's reference.
TagSignatureAsModel(p) ==
  /\ pc[p] = "signed"
  /\ BeginSave(p, [view[p] EXCEPT !.tags[ref[p]] = Sig[img[p]]], "signing")
  /\ UNCHANGED <<index, blobs, lockVars, cmdVars, img>>

\* Then it is tagged, by a name made from the image's digest.
TagSignature(p) ==
  /\ pc[p] = "signed"
  /\ BeginSave(p, [view[p] EXCEPT !.sigs = @ \cup {img[p]}], "signing")
  /\ UNCHANGED <<index, blobs, lockVars, cmdVars, img>>

\* The pull fails, or does without the signature.
PullEnds(p) ==
  /\ pc[p] \in {"resolve", "fetch", "signature", "signed"}
  /\ Goto(p, "unlock")
  /\ UNCHANGED <<diskVars, lockVars, cmdVars, view, img>>

-----------------------------------------------------------------------------
(* rm.                                                                     *)

\* The reference is untagged, if there is one.
Untag(p) ==
  /\ pc[p] = "untag"
  /\ LET i == view[p].tags[ref[p]]
     IN  \/ /\ i # None
            /\ img' = [img EXCEPT ![p] = i]
            /\ BeginSave(p, [view[p] EXCEPT !.tags[ref[p]] = None],
                         "untagging")
         \/ /\ i = None
            /\ Goto(p, "unlock")
            /\ UNCHANGED <<saver, view, img>>
  /\ UNCHANGED <<index, blobs, lockVars, cmdVars>>

\* Mutant of Held: another name of the image is not looked for.
HeldNever(ix, i) == FALSE

Held(ix, i) == i \in Tagged(ix)

\* The signature goes with the model, unless the store still holds it.
Unsign(p) ==
  /\ pc[p] = "attached"
  /\ \/ /\ ~Held(view[p], img[p]) /\ img[p] \in view[p].sigs
        /\ BeginSave(p, [view[p] EXCEPT !.sigs = @ \ {img[p]}], "unsigning")
     \/ /\ Held(view[p], img[p]) \/ img[p] \notin view[p].sigs
        /\ Goto(p, "unlock")
        /\ UNCHANGED <<saver, view>>
  /\ UNCHANGED <<index, blobs, lockVars, cmdVars, img>>

\* deleteManifest: the signature's manifest goes once the index is saved.
DeleteSignature(p) ==
  /\ pc[p] = "delete"
  /\ blobs' = blobs \ {Sig[img[p]]}
  /\ Goto(p, IF op[p] = "gc" THEN "unlink" ELSE "unlock")
  /\ UNCHANGED <<index, saver, lockVars, cmdVars, view, img>>

-----------------------------------------------------------------------------
(* gc.                                                                     *)

\* Signatures whose image is there with nothing naming it.
Orphans(ix) == {i \in ix.sigs : i \notin Tagged(ix) /\ i \in blobs}

\* unlinkOrphanedTagged, one signature at a time, then on to the sweep.
UnlinkOrphan(p) ==
  /\ pc[p] = "unlink"
  /\ \/ \E i \in Orphans(view[p]) :
          /\ img' = [img EXCEPT ![p] = i]
          /\ BeginSave(p, [view[p] EXCEPT !.sigs = @ \ {i}], "unlinking")
     \/ /\ Orphans(view[p]) = {}
        /\ Goto(p, "sweep")
        /\ UNCHANGED <<saver, view, img>>
  /\ UNCHANGED <<index, blobs, lockVars, cmdVars>>

\* The layout's collection removes a blob its view does not reach.
Sweep(p) ==
  /\ pc[p] = "sweep"
  /\ \E b \in blobs \ Keeps(view[p]) : blobs' = blobs \ {b}
  /\ UNCHANGED <<index, saver, lockVars, pc, cmdVars, view, img>>

\* The index is saved when nothing is left to remove, and when a removal
\* fails.
Resave(p) ==
  /\ pc[p] = "sweep"
  /\ BeginSave(p, view[p], "resaving")
  /\ UNCHANGED <<index, blobs, lockVars, cmdVars, img>>

-----------------------------------------------------------------------------
(* Every command that reads under the shared lock.                         *)

\* Mutant of Lookup: the lock is released before the model is read.
LookupUnlocks(p) ==
  /\ pc[p] = "lookup"
  /\ img' = [img EXCEPT ![p] = view[p].tags[ref[p]]]
  /\ Goto(p, IF view[p].tags[ref[p]] = None THEN "unlock" ELSE "reading")
  /\ FreeLock(p)
  /\ UNCHANGED <<diskVars, cmdVars, view>>

\* The reference is looked up in the view.
Lookup(p) ==
  /\ pc[p] = "lookup"
  /\ img' = [img EXCEPT ![p] = view[p].tags[ref[p]]]
  /\ Goto(p, IF view[p].tags[ref[p]] = None THEN "unlock" ELSE "reading")
  /\ UNCHANGED <<diskVars, lockVars, cmdVars, view>>

ReadDone(p) ==
  /\ pc[p] = "reading"
  /\ Goto(p, "unlock")
  /\ UNCHANGED <<diskVars, lockVars, cmdVars, view, img>>

-----------------------------------------------------------------------------
\* The process dies: the system drops its lock, the disk stays as it is.
Crash(p) ==
  /\ pc[p] # "idle"
  /\ EndCommand(p) /\ FreeLock(p)
  /\ saver' = IF saver = p THEN Cut ELSE saver
  /\ UNCHANGED <<index, blobs, cmdVars>>

PullStep(p) == Resolve(p) \/ Fetch(p) \/ TagModel(p) \/ FetchSignature(p)
                 \/ TagSignature(p) \/ PullEnds(p)

RmStep(p) == Untag(p) \/ Unsign(p) \/ DeleteSignature(p)

GCStep(p) == UnlinkOrphan(p) \/ Sweep(p) \/ Resave(p)

LockedStep(p) == Reload(p) \/ PullStep(p) \/ RmStep(p) \/ GCStep(p)
                   \/ Lookup(p) \/ ReadDone(p) \/ Saved(p) \/ Unlock(p)

Next ==
  \E p \in Procs :
    \/ \E o \in Ops, r \in Refs : Begin(p, o, r)
    \/ Open(p) \/ Acquire(p) \/ GiveUp(p) \/ LockedStep(p) \/ Crash(p)

Spec == Init /\ [][Next]_vars

\* A process that holds the lock goes on: what it reads from the network or
\* the disk arrives or fails.  Nothing obliges a command to start, to get
\* the lock (flock grants it in no order) or to be killed.
FairSpec == Spec /\ \A p \in Procs : WF_vars(LockedStep(p))

-----------------------------------------------------------------------------
\* Holding the lock and holding a stale view do not happen together: from
\* the reload to the unlock, what a command sees is what is on disk, apart
\* from the change it is saving.
FreshUnderLock ==
  \A p \in Procs : pc[p] \in Locked /\ saver # p => view[p] = index

\* Everything a reference or a signature names is on disk, also between the
\* steps of a pull, a removal and a collection, and after a crash in one.
NamedIsWhole == Keeps(index) \subseteq blobs

\* A command reading a model under the shared lock finds all of it for as
\* long as it reads, whatever is removed and collected meanwhile.
ReadsWholeModel ==
  \A p \in Procs : pc[p] = "reading" => Content(img[p]) \subseteq blobs

\* No reader comes between a model being tagged and its signature arriving,
\* when the model would look unsigned.
NoHalfPullRead ==
  \A p, q \in Procs :
    pc[p] = "reading" => pc[q] \notin {"signature", "signed", "signing"}

\* The store keeps its promise: no process undoes, by saving a stale view,
\* what another one saved, no signature goes while its image is named, and
\* no blob goes while something names it.  What the promise sees of all this is
\* the index as it is on disk and the blobs.
Promise == INSTANCE StorePromise WITH index <- index, blobs <- blobs
KeepsPromise == Promise!Spec

\* A lock taken is given back, whether or not the reload under it worked.
LockReleased ==
  \A p \in Procs :
    p \in readers \cup {writer} ~> p \notin readers \cup {writer}
=============================================================================
