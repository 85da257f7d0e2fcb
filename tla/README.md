# Verification of palan

TLA+ modules, TLC configurations and TLAPS proofs about palan, the command line
tool in `src/` that keeps OCI model artifacts in a local store, moves them
between registries and machines, and serves them through llama-server child
processes. `PROJECT.json` maps every definition to the lines it stands for and
lists runs, mutants, hazards and theorems.

## The system

| Component | State it keeps | Operations | Where |
|---|---|---|---|
| Serving router | `rt.loaded`, single flight, per-instance active count and last use | proxy a request, load, make room, evict, reap, sweep, shut down | `internal/router` |
| Child supervisor | one child process per instance | start, wait until ready, stop (SIGTERM, SIGKILL after 10 s) | `internal/runtime/supervisor.go` |
| `serve` | HTTP server, router | run, drain, shut down | `internal/cli/serve.go` |
| Store | `index.json`, `blobs/`, a flock, an in-memory view of the index | open, lock, reload, tag, remove, collect | `internal/store/store.go` |
| `pull` and downloads | partial files in `ingest/`, an output directory | resolve, gate, resume, install, tag, fetch signature, materialize, take back | `internal/transfer`, `internal/cli/pull.go` |
| `rm`, `gc` | none of their own | untag, take signatures along, collect | `internal/cli/rm.go`, `gc.go` |
| `run` | none of its own | gate, read, pull, read again, start an engine | `internal/cli/run.go` |
| Runtime artifacts | `runtimes/<name>/<dir>`, an unpack lock | pack, unpack, compare with the manifest | `internal/runtime/artifact.go` |
| Verification gates | trust policy, keys, trusted root | choose a source, verify, compare attestations | `internal/cli/sign.go`, `internal/signing`, `internal/attest`, `internal/keyless`, `internal/trustpolicy` |
| Signing and travel | `.sig`, `.att` and bundle tags beside a model, a tar of a layout | sign, attest, push, copy, save, check before import, load | `internal/cli/sign.go`, `airgap.go`, `internal/transfer` |
| Packing and Hugging Face | files of a model | group parts and shards, fetch, push layers | `internal/pack`, `internal/hf` |

How they interact. Requests are goroutines that share the router's table under
one mutex and leave it for anything slow: the store lock and the gate
(`Backend.Spec`), the start of a child, a `Stop` that waits. Processes share a
store through an advisory lock and a file that is truncated and rewritten, and
each works on the copy of the index it read last. A pull makes content complete
before it names it, a removal unnames it and leaves it to the collector, an
unpack makes a tree of its own out of the store under a second lock.

What is hard. Everything between two critical sections of the router; children
that crash while someone is about to use, evict or stop them; a stale index
saved over a newer one; a crash in the middle of a save, a download, a
collection or an unpack; a tag that moves between a check and the use of what
was checked; what vouches for a model falling behind while the model travels.
`PROJECT.json` `hazards` lists each at its line, with the property that covers it,
or the reason why none does.

## Modules

| Module | What it is |
|---|---|
| `Router` | the router, its children and the shutdown of `serve` |
| `MCRouter` | its small instances |
| `RouterProofs` | its theorems |
| `StoreLayout` | blobs, images, signatures and indexes |
| `StorePromise` | what the store promises, with no process in sight |
| `StoreAccess` | the processes that share the store; implements `StorePromise` |
| `MCStoreAccess` | its small instances |
| `StoreAccessProofs` | its theorems and the refinement |
| `Collector` | removal and collection over every graph of manifests |
| `MCCollector` | its small instances |
| `CollectorProofs` | its theorems |
| `Download` | one task per blob: partial file, attempts, install |
| `Materialize` | the output directory of a pull and its roll-back |
| `Pull` | `pull`, `run` and the loads of `serve` over both, with their gates |
| `MCPull` | its small instance |
| `PullProofs` | its theorems |
| `RuntimeUnpack` | an engine build from the store to a path that is executed |
| `MCRuntimeUnpack` | its small instance |
| `RuntimeUnpackProofs` | its theorems |
| `Globs` | the wildcards, as code and as they are meant |
| `GlobsProofs` | that the two are the same |
| `InclusionProof` | the walk of a Merkle proof and the tree it has to agree with |
| `Keyless` | the checks of a keyless bundle, and the signers a policy names |
| `KeylessSigning` | an honest signer, authority and log, and what can be put together from what they record |
| `TrustPolicy` | who may sign a repository |
| `Attestation` | what is stated of a model's layers, and how it is matched |
| `Signatures` | where signatures are kept, how they are found, `verify`, the gate of an import |
| `Travel` | push, sign, pull or copy, save, carry, load |
| `TravelProofs` | theorems of `Travel` |
| `MCProvenance` | its small instance, and questions for the pure algorithms |
| `ProvenanceProofs` | theorems of the pure algorithms |

### Router

A step is one critical section of `rt.mu`, or one call with an effect others
see (`flight.Do`, `Backend.Spec`, `runtime.Start`, `Stop`, `begin`, `end`). An
instance is named after the request that led its load, which is possible because
a request leads at most one. `pc[r]` walks `handleProxy` and `ensure`:

    new -> got                                   hit in rt.loaded
    new -> join -> wait                          follower of a flight
           join -> recheck -> finish             loaded meanwhile
                   recheck -> spec -> room -> start -> ready -> publish -> finish
                                      room <-> evict
    finish -> got -> proxy -> done | failed

Abstractions: `lastUsed` is the order of last uses (`older`); a timeout fires
whenever what it guards has not happened; every error status is one answer; a
flight's followers touch the instance together with its leader; the drain of
`http.Server.Shutdown` is part of `Shutdown`, and may have given up after its
thirty seconds with requests in flight; a client going away is a failed
`WaitReady` or a failed exchange. A failed load fails all its followers,
also when the reason was the leader's own client going away, as the code does.
Gauges, logs and the death of `palan serve` itself are left out.

### StoreAccess

Any number of processes run commands one after the other: pull, rm, gc, or a
read under the shared lock; `run` on an absent model is a read, a pull and a
read. A save of the index is two steps (the file is cut short, then whole), and
a process that dies between them leaves it cut short. A read of the layout
caught in a save by another process ends its command, which is the outcome the ten retries of
`openLayout` leave when they all fail; their success is the same step taken later.
A process may die, or fail a step, anywhere.

Abstractions: a signature is one blob and one tag named after its image;
attestations and keyless bundles follow it through the same code in the same
order and are not repeated. Index entries without a tag, and the saves the layout library makes
while an artifact is still untagged, belong to the collector's module. `pack`
and `load` write under the exclusive lock the way pull does. The listing behind
`/v1/models` reads with no lock and writes nothing. flock and the OCI layout library are
modelled from how the code uses them.

### Collector

One process holds the exclusive lock (which is `StoreAccess`'s business), so what
is hard here is the graph. A node is a digest, and what it holds is chosen when it
first arrives and never changes: a blob, an image (its parts are layers, marked but not
read) or an index (its parts are manifests, read), perhaps with a subject, perhaps
only describing it. `tags` and `known` are `index.json`. `RemoveReporting` is

    idle --Untag--> idle
    idle --Take--> taking --TakeAlong*, TakeNamed--> untagged --TakeDone--> idle

and `GC` is, pass by pass,

    Collect -> repair --Repair*, Repaired--> unlink --(Unlink, Unlinked)*--> unlink
            --UnlinkDone--> purge --Purge*, Forget--> collect --LayoutGC--> sweep
            --Sweep*, SaveIndex--> collected

Each deletion is a save of the index and then a blob, and the command may end
after either, or between any two steps, with the next command starting from what
is left. The walks of `successorClosure` and the rounds of `admit` are least
fixpoints, written as intersections: the code's queue and its order are left
out, because the result does not depend on them, and what does depend on order
(which entry is deleted when) is a choice. `promised` is a history variable: what
`Held` answered for each digest when the collection began.

Abstractions: a present manifest can be read; deleting a manifest deletes that
manifest and no other, as the comment at `store.go:157` says of the layout with
`AutoGC` off; the layout library's collector is modelled from the comments and tests that
rely on it (it fails on a missing untagged manifest, does not return when it
cannot place a subject, keeps what the tagged graph reaches and the untagged
referrers one hop beside it); a refused removal changes nothing, so it is not a step;
`ingest/` is swept after everything else and holds no digest. Layouts written
by other tools are included: they may name digests that are not there.

### Download, Materialize and Pull

`Pull` extends `Materialize`, which extends `Download`: one process at a time holds
the exclusive lock, so the tasks of a fetch and the output directory are not
per process. `Download` is, for each blob,

    try -> ask -> stream -> install -> sweep -> done
      ^------ an attempt failed ------'      or  failed, after the last attempt

A file is its length in chunks and whether every chunk so far is the right one, which is
all a digest tells. A registry may answer a range with the rest, with everything, with a
refusal or not at all, and any chunk may be wrong; the partial file stays between attempts,
between commands and after a death, as in `ingest/`. `installPartial` is the comparison
and the rename; a blob that is already on disk is not asked for, whatever it holds.

`Materialize` keeps the output directory and, of the run in progress, what
`createOutputFile` and `missingDirs` record: the files and directories it made. A layer
name and the file it leads to are kept apart (`FileOf`), since a file system may fold
two names into one. A copy may fail or meet an altered blob after its file
exists; `TakeBack` is the deferred cleanup.

`Pull` walks a command through the locks:

    pull:   lock -> gate -> resolve -> fetch -> copy -> attach -> write -> release
    run:    shared -> check -> look -> prepare -> release
                               look -> release -> lock -> resolve ... -> release -> shared -> prepare
    serve:  shared -> check -> look -> prepare -> release

`verified` is the digest the gate accepted, `root` what is being fetched, `loaded` what
the engine is given. The registry may move the tag, another command may pull or
remove the model wherever no lock forbids it, a blob may change on disk, a
process may die. Here a save of the index is one step, because `StoreAccess` has the
two steps it takes. A signature verifies or does not (`Signed`); `Travel` has what it is.
A run asks for its engine through `RuntimeUnpack`, which is a module of its own. Output files
that are no regular files are in the model but not in the instance.

### RuntimeUnpack

Commands go `gate -> accept -> wait -> match -> stage -> rename -> ready`, with the
store's lock from the first read to the path that is handed back (`Busy`), and the
unpack lock from `match` on. `palan runtime pull` is one step up to `accept`: it holds
the exclusive lock, and its fetch is the one of `Pull`. A tree is a set of files, or
a link, or nothing; anything may change it between two steps, put a link above it,
alter a blob, or kill a process between staging, removal and rename. `meddled` records whose
tree was changed from outside after it was handed over, since no program can
promise anything of that. Staging directories of dead processes stay for ever in the code
(no command removes `.unpack-*`); since nothing asks for their names again they are left
out.

### Travel and Signatures

`Signatures` says what a place (a registry, a store, a bundle file) keeps: names on
content, content that only refers to a model, and whether it can list
referrers. From that it defines, the way the code does, whether a key or a keyless
signature verifies (`SignatureVerifies`, `KeylessVerifies`, `VerifiedBy`), which place is asked
(`VerifySources`), what `palan verify` accepts (`VerifyAccepts`), and what an import
accepts (`FileVerifies`). A signature is the term of who made it over what, so it verifies
exactly where it should; a key signature binds the repository, host included.

`Travel` moves content between a registry, a mirror, a connected host, a file and a disconnected
host. Signing is two steps, because the signature is there before the
attestation; a pull or copy is four (model, signature, attestation, bundles), the
registry may change between any two, and each may fail. A save and a load hold the
store's lock and are one step; a load may stop part-way, and the names it got to may be any,
which is more than the order of the file allows. On its way a file may lose a name, with or without
what it named; a name, a model's tag among them, may get on something else; and another
tool may have written signatures or bundles into it that its index lists without a name. A tag
resolves to the digest of the manifest it names (`Digest`), so a tag on a signature manifest asks
for a signature over that manifest and there is none. Four history variables state what is owed:
`sure` says that what is being carried verified at the registry at every moment, `promised` which
models verified where the file was saved, `admitted` which verified in the file they were loaded
from, and `lacking` of which a load left behind what vouches for them. There is one near store and
nothing is removed from it. What the subject of a copied manifest drags along without a name is not
tracked. Names are a set: a file that lists one name twice is a file that lists it once.

**What the gate does not promise.** The gate of an import reads all of the file: a signature or
bundle there that only refers to a model counts (`airgap.go:192-267`, `signing.go:195-207`). The
import that follows copies names only (`saveload.go:311-315`). So a file in which nothing that has
a name vouches for a model passes the gate, and the model is in the far store without what vouched for
it: it verified when it was imported and does not verify there afterwards. A load that stops part-way can leave
the same. Files that `palan save` wrote and that arrive as they were are not of this kind, since
it names the bundles it finds (`saveBundles`) and carries signatures by their names. No sentence of the
documentation says that an admitted model can be verified again later, so this is no finding here;
`GatedImportVerifies` says what does hold. Everything behind the gate verified in its file;
a bundle's name holds that bundle; and a model verifies again from the far store alone unless a load left
behind what vouches for it and none since has brought it. The run reaches the exception: without
`lacking` the invariant fails for a file that held a model with a bundle without a name, loaded whole.

What an honest signer can meet, and the properties leave room for because the code
does it: signing again replaces the `.sig` tag; a model whose attestation could not be
written after it was signed by another key does not verify, although the message at
`cli/sign.go:958` says it does "with no provenance", because the old attestation is still
there and is held to the new key; a key signature that is only a referrer is
found by `verify` and not carried by pull, copy or save; a key signature does not
verify at a mirror (`docs/guides/security.md:147` says so); and a pull that reads
the signature before and the attestation after a model is signed again has one of
each (`Changed` excepts it).

### The pure algorithms

`Globs`, `InclusionProof`, `Keyless`, `TrustPolicy` and `Attestation` have no state. Text
is a sequence of tokens, with `*`, `**`, `/`, `@` and `://` among them; a hash is the term it
hashes; a certificate is a record of what the checks read. Each is put beside a definition of what
it should compute: `StandsFor` and `Allows` for wildcards, the tree of RFC 6962 as
`keylesstest/merkle.go` builds it for the proof walk, multisets of records for the
attestation, and the honest signings of `KeylessSigning` for a bundle. `MCProvenance` asks
every question from an initial state of its own, so that they are checked in the
same run as the journeys that rely on them.

## What the runs show

| Run | Instance | What it shows |
|---|---|---|
| `router_safety` | 3 requests, 3 models (one pinned and as large as the budget) | type invariant; one usable instance per model; every live child loaded, loading, or about to be stopped; requests reach an instance of their own model; the budget holds unless loads overlapped; pinned and busy instances stay |
| `router_liveness` | 2 requests, one model too large for the budget | requests are answered, unloaded children exit, crashed instances leave the table, shutdown ends |
| `router_overcommit` | 2 requests | the documented "evicts instead of overcommitting" fails: two loads pass `makeRoom` before either is in the table |
| `router_shutdown_misses` | 2 requests | "stops the sweeper and all children" fails: a child still starting, or one the sweeper or an eviction took out, outlives the process |
| `router_busy_evicted` | 2 requests | "evicts idle instances" fails: a request can begin on the victim between `makeRoom`'s critical section and `Stop`, because `ensure` hands out an instance without marking it |
| `store_safety` | 2 processes, 2 references, 2 images sharing a layer, 1 signature | no stale view under the lock, named content is whole, a reader finds all of its model and never a model whose signature is still arriving, and the whole implements `StorePromise` |
| `collector_safety` | 3 digests, 2 references, every manifest they allow | no step loses what tagged content reaches; `Held` says exactly what a collection keeps; the library's collector is never given a graph it hangs on; a removed model frees its descriptions, and a removal cut short leaves no description without its subject |
| `collector_removals_block` | 4 digests, 2 references, manifests with a subject and at most one part | "remove that first" fails: two tagged descriptions of a model that is gone, each kept by way of the other, refuse each other's removal for good |
| `store_liveness` | 2 processes, 1 image | a lock taken is released, also when the reload meets a cut index |
| `pull` | 2 processes, 3 artifacts under one reference (a signed one with a nested file, one with two names for one file, one whose weights have no name), 2 attempts, 2 faults | a gated command gets hold only of what verified; a name is given only to content that arrived with its digest; a reported output directory holds every layer, a refused one nothing new; an undisturbed pull completes whatever earlier ones left behind |
| `unpack` | 2 processes, 3 builds under one reference, 2 faults | what is executed was admitted and is exactly its manifest's files; a damaged tree is repaired |
| `provenance` | 2 models under one tag, 2 keys, 2 bundles, 3 events, at most 1 of them a fault; and all bounded questions | what reports success arrives verifiable; behind the gate nothing gets a name that did not verify in its file, and what did verifies again in the far store unless a load left behind what vouches for it; attestation matching, the proof walk, bundle acceptance (nothing but a recorded signing, and every allowed one) and wildcards agree with their references |

Why the bounds are enough for these questions. Three requests give a leader, a
follower and a third that evicts or replaces what the first two share; a fourth only
repeats a role. A budget of two with footprints one, one and two makes both
"fit together" and "one excludes all others" happen. Two processes are a writer and a reader,
two writers, or a command and one that died; a third waits for the
lock like the second. Two references to one image make `Held` matter, two images with a
common layer make the sweep and a partial fetch matter. Three digests are a model, its signature and
an attestation of that, or an image and a part that is a manifest with a subject of its
own, and what they hold is every possibility. They are not enough for every question: a signature
that takes two descriptions with it has four digests, which the theorems cover, and
that some reference can always be removed holds of three digests and fails of four. Two faults are a death and then a moved tag or an altered
blob, or a stream that breaks twice; two attempts are one that leaves something
behind and one that meets it; two chunks are a beginning and a rest. Three events
are a signing, a second one by another key and a failure between
the steps of a transfer, or a model, its bundle and a
mishandled file; one fault is enough for a file that holds what vouches for a model without a name. The pinned root of the run has windows without an end, so the run shows nothing
of an authority or a log key that has expired: `AcceptedIsASigning` covers any windows. Logs of one to eight entries have every shape of right edge up to three
levels, four tokens are a wildcard with text on both sides and a separator, and three
records against three layers are enough for two equal ones and a stranger.

## Fairness

Router: goroutines that can run do, a child on which `Stop` was called exits
(`supervisor.go` kills it after the grace period), a load and an exchange end.
Nothing obliges a client to ask, a child to crash, an instance to go idle or an
operator to stop the server. Store: only a process that holds the lock is fair.
flock grants the lock in no order, so nothing says that every command gets it; starting and
dying are never owed. Pull: some step of a started command is made as long as one can be
(`WF_vars(Working)`), which is the scheduler running a process that is not
blocked; who gets the lock is left open. Unpack: each process that can go on does, and runs one
command, so whoever waits for the unpack lock gets it without a promise from flock. The two
liveness properties begin where the faults are used up, because a registry that never
answers is owed nothing. Travel states no fairness: nobody has to publish or carry anything.

## What is proved

For every value of the constants under the named assumptions
(`RouterAssumption`, `LayoutAssumption`, `AccessAssumption`, `CollectorAssumption`,
`DownloadAssumption`, `MaterializeAssumption`, `PullAssumption`, `UnpackAssumption`,
`TravelAssumption`):

- `RouterProofs`: type correctness, `OneInstancePerModel`,
  `EveryChildAccountedFor`, `AnsweredByOwnModel`, `PinnedOrBusyStays`, `BudgetKeptWithoutOverlap`. The
  inductive invariant adds who holds what at each step: a request past
  `recheck` leads the flight of its model and no instance of that model is in
  the table; a request's own child is live only from `ready` on; an instance in the table, in a
  request's hands or on its way out belongs to the model it is filed under, which is
  what the properties alone do not say when a flight ends or an instance is reaped.
  For the budget it says that while loads have kept apart at most one is admitted, and that it and
  the loaded instances fit together (`BudgetInv`): every step but an admission only shrinks what is in
  use. Memory is counted unit by unit, as a cardinality, so that the sum needs no induction.
- `StoreAccessProofs`: type correctness, `FreshUnderLock`, `NamedIsWhole`,
  `ReadsWholeModel`, `NoHalfPullRead`, and `KeepsPromise`, the refinement of
  `StorePromise`. The inductive invariant `IInv` says that a writer excludes
  readers, that named content is whole, and of each process that its step
  belongs to its command, that it holds the lock its step needs, that its view is fresh,
  and what it knows about its image (complete, tagged, or no longer tagged).
  A save maps to `Publish`, `Attach`, `Unlink`, `Detach` or a stutter, a fetched
  blob to `Arrive`, a removed one to `Reclaim`, everything else to a stutter.

- `CollectorProofs`: type correctness, `ContentStays`, `HeldIsKept`, `UnheldIsReclaimed`,
  `CollectorReturns`, `RemovedModelFreesDescriptions`, `DeepestFirst`, over graphs of any size. What `Collector` computes is
  restated as operators of a layout (blobs, tags, entries), so that two layouts
  can be compared; two facts about walks carry the rest: with fewer blobs and
  roots a walk is shorter, and a walk that meets nothing taken is unchanged. The rounds
  of `admit` are a least fixpoint, used only through its definition, so no
  induction is needed. The invariant is stated of the layout *as if everything
  condemned were gone already* (`StillKept`, `StillLive`): deleting a condemned node
  leaves that layout as it is, although it changes what `admit` would answer
  now, since a description whose subject is gone is admitted for that reason. The converse,
  that nothing else stays (`NothingElse`), is easier: every pass makes the layout smaller,
  a smaller layout keeps less as long as nothing tagged stops being so, and once the orphans
  are out what the library keeps is within what `Held` said. That a second
  collection finds nothing is no theorem, and not so: a tagged description may be
  admitted only by way of an untagged referrer of an untagged referrer, which the first collection
  deletes, whereupon the second takes the description too (five digests are needed,
  so no run here shows it). `IInv` was first checked with TLC.

- `PullProofs`: type correctness, `AdmittedOnly`, `TaggedIsPresent`, `OutputIsTheModel` and `RefusalTakesBack`. The
  invariant says of a gated command at which places it knows what verified (`PastGate`)
  and at which it has fetched nothing yet (`BeforeFetch`): a run passes its gate
  under one lock and fetches under another, so what it carries across the release
  is what the proof is about. A download that is over has its blob on disk and no blob
  ever leaves, which is why a name can be given without looking again. For the
  output directory, every layer before the next one is in a file this run made, and a file
  this run made is not replaced; what the other steps do to it does not matter as long as
  they touch no file while the run may still succeed. A refusal can take back its own because
  the directory is at every moment what was there before and what the run has recorded
  (`Recorded`); the assumption on `Outputs` it needs is that a directory that is not there is empty.
  Type correctness is more than kinds: a download that goes on has an attempt left, a partial
  file is at most one chunk too long (`TaskKept`), and each step that needs the store's
  lock is made by its holder (`LocksKept`).
- `RuntimeUnpackProofs`: `EngineIsAdmitted` and `EngineHasItsTree`. Beside what the gate
  admitted (`PastTheGate`) and who holds the unpack lock (`OneUnpacks`), the invariant
  has to say that whoever replaces a tree has seen that nobody was given it whole
  (`NobodysTree`): a tree that matches is never replaced, so one that is replaced
  belongs to nobody, or to someone whose tree was changed from outside.
- `TravelProofs`: `GatedImportVerifies` and `VerifiableTravels`, for any models, keys, bundles,
  policies and bounds. Four invariants carry them, each an invariant of the instance first.
  `PlacesInv`: at a registry or in a store every name is that of its content, and neither the near
  store nor the mirror has a signature or attestation under a name the origin has not.
  `CrossingInv`: so among what a file names, and in the far store, a signature is under its own name.
  It says nothing of what a file holds without a name (`OnlyNamed` leaves it out).
  `GateInv` then says of each name behind the gate that its model was admitted and verifies *in the far
  store* unless it is `lacking`; that is not what the gate looked at, which is the whole file. It holds because
  an import replaces the far store's signature of a model by the file's or the file names none, and because
  what a whole load leaves behind is exactly what had no name (`LoadIs`). `PromiseInv` is the same for what the file promises. `JobInv` follows a
  transfer: after the signature, either the one at the registry was brought or a bundle still to come has to
  vouch; after the attestation, the verdict on the pair is the registry's; after the bundles,
  somebody accepts. The two lemmas the rest leans on are that content added to a place takes no
  verdict back unless it replaces the model's own `.sig` (`VerdictIsKept`), and that two places
  alike in a model's own names give the same verdict (`VerdictTravels`). `TravelAssumption` asks for a mirror that is another
  repository than the origin, and for keys that are none of the two words which stand for no key.
  How a bundle is checked does not matter here (`VerifyBundle` stays closed), so nothing is assumed of it.

- `GlobsProofs`: `GlobIsStandsFor` and `MatchIsAllows`, for patterns and texts of any length: the matcher
  inside a name, which takes each run of a pattern where it is found first and never tries a second
  split, accepts exactly what the stars can stand for, and the one over segments exactly what some
  deal of the segments allows. To the prover a recursive function `f[i \in S] == e` is a CHOOSE,
  so that it satisfies its equation has to be shown: from the least length that would have no such
  function, which is why induction over numbers is possible here after all (`LeastOf`, `Induct`).
  The argument is then one invariant along the pattern: the places a pattern may reach behind
  a star are all those from the least on, and the least is the one the code keeps.
- `ProvenanceProofs`: `AttestationIsExact` (it states `AttestationCoversExactly`) by counting, since both
  striking off records one by one and dealing them out one to one leave, of every record, as many as it
  occurs too often. `AcceptedIsASigning`: whatever is in a bundle, it is accepted only if it is piece for
  piece one signing, provided its promise is one the log made and certificates are an
  authority's; `AcceptedIsLogged` is the same of the run's signings, and states `AcceptedSignatureIsLogged`.
  `URLPatternKeepsAccount` and `MailPatternKeepsDomain` say how far a star in any signer's pattern
  reaches in any text, and with the two theorems of `GlobsProofs` give `WildcardsStayWithin`, which states
  `WildcardsReachNoFurther` for a pattern of any tokens. The hypotheses are that texts, proofs and
  records are sequences and that what is asked is a question of the kind `MCProvenance` asks.
- The transparency log, also in `ProvenanceProofs`, for logs of any size and any entries. The verifier walks a proof
  with bit operations on the index and the size (`Inner`, `Border`); the log builds it by splitting the tree
  in two at the largest power of two. `HonestProofAccepted` says the two agree. The argument goes by the size of a
  subtree (`PathHolds`): a leaf in the left half, which is full, has one hash more than in that half alone, and
  the walk joins it on the right (`TurnLeft`); one in the right half has one more too, which the walk joins on
  the left, because the index has the bit of the split (`TurnRight`); and the sides of all the other levels are those of
  the half. The lemmas before it say what halving and counting ones do to a number below a power of two
  (`ShiftedBelow`, `OnesOfSum`, `OnesOfFull`). `OneEntryPerPlace` is the converse: under one checkpoint, two
  proofs that are accepted for one index are of one entry and have the same hashes. Together they give
  `OnlyItsOwnProof`, and with it `ProofIsOfItsEntry`, which states `InclusionProofSound`.
  On them rests that no genuine signature is turned down: `GenuineBundleAccepted` for any signings in a log of
  any length, and `GenuineIsAccepted`, which states `GenuineSignatureAccepted`, for those of the run. They assume
  that the value for nothing (`None`) is none of the records and names it would be confused with (`Apart`), and the
  general one that a pattern which stands for the signer's name is for that kind of name.
- `AnswersAreRight` closes the module: the five invariants about the pure algorithms are invariants of `MCSpec`,
  because every question it asks is of the kind the theorems assume and no step of a journey changes the
  question. It assumes that the routes of the journeys are those of the run and that filtering a sequence leaves a
  sequence (the prover knows nothing of `SelectSeq`).

Every invariant, action property and refinement the runs check is a theorem. Only model-checked: the liveness
properties (fairness and ENABLED are out of the prover's reach), and the four findings, which are counterexamples.

## Not modelled, and why

- Signature schemes, key decryption, certificate parsing, payload encodings, weight file
  parsing, OpenSSF model signatures, tar and JSON formats, the syntax of names and URLs: functions of bytes
  with no state. What the program decides by their results is modelled, with terms for the bytes.
- The Hugging Face client: its download is the same protocol as `Download`, against
  a stated size and optional hash instead of a digest, into a cache directory of its own; the rest of it builds URLs.
- Packing: one pass from the files of a directory to the layers of a manifest. The
  write into the store is the locked write of `StoreAccess`, the attributes of its layers are what
  `Attestation` reads.
- Printing, progress, metrics, listings and interactive commands: no decision reads what they keep.
- Blobs named by a digest other than SHA-256, which the download hands to the library without resuming;
  the sweep of `ingest/` at the end of a collection; mounts across repositories; logins.
- Most test doubles and the deployment manifests: not the program. The log and the authority of
  `keylesstest` are modelled, as what the verifier has to agree with.

## What comes next

Modules worth adding: the grouping of split parts and shards against its reference, once the properties of
packing are stated anywhere in the repository.
