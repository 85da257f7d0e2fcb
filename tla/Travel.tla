------------------------------- MODULE Travel -------------------------------
(***************************************************************************)
(* A model and what vouches for it on their way across a gap: pushed and   *)
(* signed at a registry (internal/cli/sign.go, push.go), pulled to a       *)
(* connected host or copied to a mirror (internal/transfer), saved to a    *)
(* file, carried, and loaded on a disconnected host behind the gate of     *)
(* internal/cli/airgap.go.                                                 *)
(*                                                                         *)
(* A pull or a copy is a job of several steps: the model, its signature,   *)
(* its attestation, its bundles.  The registry may change between any two, *)
(* and each may fail.  Save and load hold the store's lock and are steps;  *)
(* a load may stop part-way.                                               *)
(***************************************************************************)
EXTENDS Signatures

CONSTANTS
  Tags, Keys,
  Pushed,        \* the model a tag has at first
  Attachments,   \* pairs of a bundle and the model another tool attaches it to
  Config,        \* what each host's configuration says of signers
  MaxEvents,     \* bound on what is published, fails or goes astray in all
  Routes,        \* the routes to consider
  MaxFaults      \* bound on failures and on what happens to the file alone

VARIABLES
  at,          \* the places: origin, mirror, near, carrier, far
  unattested,  \* signings whose attestation is still to be written
  job,         \* the pull or copy under way, or the last one
  sure,        \* what it carries verified at the registry all along
  promised,    \* tags that verified where the file was saved, if it is as saved
  trust,       \* who may sign for each address, as the configuration resolves
  route,       \* where the models go: a mirror, or a far host with or without a gate
  arrived,     \* tags the last load brought that were promised
  admitted,    \* models that verified in the file they were loaded from
  lacking,     \* models of which a load left behind what vouches for them
  published, faults

crossing == <<promised, trust, route, arrived, admitted, lacking>>
vars == <<at, unattested, job, sure, crossing, published, faults>>

Hosts == {"origin", "mirror", "near", "carrier", "far"}
SignersFor(address) == ResolveVerifiers(Config, None, Repository[address])

\* No key is the absence of one, and the mirror is another repository.
ASSUME TravelAssumption ==
  /\ {"origin", "mirror"} \subseteq DOMAIN Repository
  /\ Repository["mirror"] # Repository["origin"]
  /\ None # "keyless"
  /\ \A address \in {"origin", "mirror"} :
       LET keys == SignersFor(address).keys
       IN keys \in Seq({keys[i] : i \in DOMAIN keys} \ {None})

Nowhere == [kind |-> "none", step |-> "idle", tag |-> None, model |-> None,
            clean |-> TRUE]

\* The far host has what it needs on disk and asks no registry.
VerifiesOffline(store, t) ==
  VerifyAccepts(store, {}, t, trust[store.address])

\* What names can carry: a signature under its tag, or bundles.
Portable(place, m, signers) ==
  \/ Names(place, SigName(m)) /\ VerifiedBy(place, m, signers) # None
  \/ signers.identities # {} /\ KeylessVerifies(place, m, signers)

\* Verifies at the registry in a way that can be expected elsewhere.  A key
\* signature names the repository it was made for, and at a mirror only a
\* keyless one does not.
SoundAt(origin, m, kind) ==
  IF kind = "copy" THEN KeylessVerifies(origin, m, trust["mirror"])
  ELSE LET signers == trust["origin"]
       IN /\ Portable(origin, m, signers)
          /\ ~AttestationRefuses(origin, m, VerifiedBy(origin, m, signers))

Init ==
  /\ \E lists \in BOOLEAN, t \in Tags :
       at = [p \in Hosts |->
               LET empty == EmptyPlace(IF p = "mirror" THEN "mirror" ELSE "origin",
                                       p = "origin" => lists)
               IN IF p = "origin" THEN Name(empty, TagName(t), ModelContent(Pushed))
                  ELSE empty]
  /\ unattested = {} /\ job = Nowhere /\ sure = FALSE
  /\ promised = {} /\ route \in Routes
  /\ trust = [address \in DOMAIN Repository |-> SignersFor(address)]
  /\ arrived = {} /\ admitted = {} /\ lacking = {}
  /\ published = 0 /\ faults = 0

-----------------------------------------------------------------------------
\* Something fails, or something happens to the file.
Astray ==
  faults < MaxFaults /\ published + faults < MaxEvents /\ faults' = faults + 1

-----------------------------------------------------------------------------
(* At the registry.                                                        *)

\* What is carried goes on being sure only if it still verifies at the
\* registry, and if the signature that was carried is not replaced before the
\* attestation is: the two are read one after the other, and could be of two
\* signers.
Changed(origin) ==
  /\ at' = [at EXCEPT !["origin"] = origin]
  /\ sure' = /\ sure
             /\ SoundAt(origin, job.model, job.kind)
             /\ LET name == SigName(job.model)
                IN job.step # "signature" /\ Names(at["origin"], name) =>
                     origin.names[name] = at["origin"].names[name]

Publish(origin) ==
  /\ published + faults < MaxEvents
  /\ published' = published + 1
  /\ Changed(origin)
  /\ UNCHANGED <<job, crossing, faults>>

Push(t, m) ==
  /\ Publish(Name(at["origin"], TagName(t), ModelContent(m)))
  /\ UNCHANGED unattested

\* The sign command up to its first line of output.
Sign(key, t) ==
  LET m == ModelAt(at["origin"], t)
      layer == SigLayer(key, m, Repository["origin"])
  IN /\ m # None
     /\ Publish(Name(at["origin"], SigName(m), SigContent(m, {layer})))
     /\ unattested' = unattested \cup
          (IF CanBeBuilt(LayersFromManifest(LayersOf[m]))
           THEN {[model |-> m, key |-> key]} ELSE {})

\* And what is left of it.
Attest(signing) ==
  /\ signing \in unattested
  /\ unattested' = unattested \ {signing}
  /\ LET m == signing.model
     IN Changed(Name(at["origin"], AttName(m), AttContent(m, signing.key)))
  /\ UNCHANGED <<job, crossing, published, faults>>

AttestationFails(signing) ==
  /\ signing \in unattested /\ Astray
  /\ unattested' = unattested \ {signing}
  /\ UNCHANGED <<at, job, sure, crossing, published>>

\* Another tool's signatures: they refer to the model and have no name.
AttachBundle(b, m) ==
  /\ ModelContent(m) \in Held(at["origin"])
  /\ Publish(Attach(at["origin"], {BundleContent(b, m)}))
  /\ UNCHANGED unattested

AttachSignature(key, m) ==
  /\ ModelContent(m) \in Held(at["origin"])
  /\ Publish(Attach(at["origin"],
                    {SigContent(m, {SigLayer(key, m, Repository["origin"])})}))
  /\ UNCHANGED unattested

AttachInStore(b, m) ==
  /\ published + faults < MaxEvents /\ published' = published + 1
  /\ ModelContent(m) \in Held(at["near"])
  /\ at' = [at EXCEPT !["near"] = Attach(@, {BundleContent(b, m)})]
  /\ UNCHANGED <<unattested, job, sure, crossing, faults>>

-----------------------------------------------------------------------------
(* Pull and copy.                                                          *)

Target(kind) == IF kind = "copy" THEN "mirror" ELSE "near"

Start(kind, t) ==
  LET m == ModelAt(at["origin"], t)
  IN /\ job.step \in {"idle", "done"}
     /\ kind = (IF route = <<"mirror">> THEN "copy" ELSE "pull")
     /\ m # None
     /\ at' = [at EXCEPT ![Target(kind)] = Name(@, TagName(t), ModelContent(m))]
     /\ job' = [kind |-> kind, step |-> "signature", tag |-> t, model |-> m,
                clean |-> TRUE]
     /\ sure' = SoundAt(at["origin"], m, kind)
     /\ UNCHANGED <<unattested, crossing, published, faults>>

\* The next step, with what this one brought.
Goto(step, place) ==
  /\ job' = [job EXCEPT !.step = step]
  /\ at' = [at EXCEPT ![Target(job.kind)] = place]
  /\ UNCHANGED <<unattested, sure, crossing, published, faults>>

\* A tag that is not there is nothing to carry, and no failure.
CarryNamed(name, step) ==
  LET origin == at["origin"] place == at[Target(job.kind)]
  IN Goto(step, IF Names(origin, name) THEN Name(place, name, origin.names[name])
                ELSE place)

CarrySignature == job.step = "signature" /\ CarryNamed(SigName(job.model), "attestation")
CarryAttestation == job.step = "attestation" /\ CarryNamed(AttName(job.model), "bundles")

\* A pull names each bundle after itself; at a mirror it stays a referrer.
NamedBundles(place, bundles) ==
  NameAll(place, [n \in {BundleName(c) : c \in bundles} |-> BundleContent(n[2], n[3])])

WithBundles(kind, place, bundles) ==
  IF kind = "pull" THEN NamedBundles(place, bundles)
  ELSE Attach(place, bundles)

\* Mutant: the first that is listed is carried.
CarryOneBundle ==
  /\ job.step = "bundles" /\ at["origin"].lists
  /\ \E c \in BundleReferrers(at["origin"], job.model) :
       Goto("done", WithBundles(job.kind, at[Target(job.kind)], {c}))

CarryBundles ==
  /\ job.step = "bundles" /\ at["origin"].lists
  /\ Goto("done", WithBundles(job.kind, at[Target(job.kind)],
                              BundleReferrers(at["origin"], job.model)))

\* A failed lookup or copy is reported, and the transfer goes on.
Report(place) ==
  /\ job' = [job EXCEPT !.clean = FALSE,
                        !.step = CASE @ = "signature" -> "attestation"
                                   [] @ = "attestation" -> "bundles"
                                   [] @ = "bundles" -> "done"]
  /\ at' = [at EXCEPT ![Target(job.kind)] = place]
  /\ UNCHANGED <<unattested, sure, crossing, published>>

BundlesUnavailable ==
  /\ job.step = "bundles" /\ ~at["origin"].lists
  /\ Report(at[Target(job.kind)])
  /\ UNCHANGED faults

CarryingFails ==
  /\ job.step \in {"signature", "attestation", "bundles"}
  /\ Astray
  /\ LET place == at[Target(job.kind)]
         bundles == BundleReferrers(at["origin"], job.model)
     IN \E some \in IF job.step = "bundles" /\ at["origin"].lists
                    THEN (SUBSET bundles) \ {bundles} ELSE {{}} :
          Report(WithBundles(job.kind, place, some))

-----------------------------------------------------------------------------
(* Save, the courier and load.                                             *)

\* Save: each model with its signature and attestation by their names, and
\* whatever bundles refer to it, named on the way.
Saved(store, T) ==
  LET models == {ModelAt(store, t) : t \in T}
      wanted == {TagName(t) : t \in T} \cup {SigName(m) : m \in models}
                  \cup {AttName(m) : m \in models}
      file == Place([n \in wanted \cap DOMAIN store.names |-> store.names[n]], {},
                    TRUE, store.address)
  IN NamedBundles(file, UNION {BundleReferrers(store, m) : m \in models})

Save(T) ==
  /\ job.kind = "pull" => job.step = "done"
  /\ \A t \in T : Names(at["near"], TagName(t))
  /\ at' = [at EXCEPT !["carrier"] = Saved(at["near"], T)]
  /\ promised' =
       {t \in T : LET m == ModelAt(at["near"], t)
                  IN VerifiesOffline(at["near"], t)
                       /\ Portable(at["near"], m, trust["origin"])}
  /\ UNCHANGED <<unattested, job, sure, trust, route, arrived, admitted, lacking,
                 published, faults>>

\* What another tool may put in a layout, listed in its index without a name.
Unnamed ==
  {SigContent(m, {SigLayer(key, m, Repository["origin"])}) : key \in Keys, m \in Models}
    \cup {BundleContent(p[1], p[2]) : p \in Attachments}

\* The file reaches the far side short of a name, with or without what it
\* named, with a name on something else, or with content that has none.
Mishandle ==
  /\ Astray
  /\ promised' = {}
  /\ LET file == at["carrier"]
         held == DOMAIN file.names
         Handled(names, unnamed) ==
           at' = [at EXCEPT !["carrier"] =
                    Attach(Place(names, file.loose, file.lists, file.address), unnamed)]
         known == held \cup {TagName(t) : t \in Tags} \cup {SigName(m) : m \in Models}
         other == UNION {{SigContent(m, {}), ModelContent(m)} : m \in Models}
     IN /\ held # {}
        /\ \/ \E n \in held : \E left \in {{}, {file.names[n]}} :
                Handled([k \in held \ {n} |-> file.names[k]], left)
           \/ \E n \in known, c \in other :
                Handled([k \in held \cup {n} |-> IF k = n THEN c ELSE file.names[k]], {})
           \/ \E c \in Unnamed : Handled(file.names, {c})
  /\ UNCHANGED <<unattested, job, sure, trust, route, arrived, admitted, lacking, published>>

Imported(store, file, names) == NameAll(store, [n \in names |-> file.names[n]])

Admits(file) == route = <<"gated">> => FileVerifies(file, trust["origin"])

\* The model a name is about, by what a place has under it.
Concerns(place, n) ==
  CASE NamesModel(n) -> Digest(place.names[n])
    [] n[1] = "bundle" -> n[3]
    [] OTHER -> n[2]

\* What a load can bring of a file.
OnlyNamed(file) == Place(file.names, {}, file.lists, file.address)

Vouches(file, m) == VerifiedBy(file, m, trust["origin"]) # None

\* Every name of the file, or those before the one it fails on.  The order is
\* the file's own, so any of them may be before it.  What vouched for a model
\* without a name stays behind.
Load ==
  LET file == at["carrier"]
      all == DOMAIN file.names
  IN /\ all # {} /\ Admits(file)
     /\ admitted' = admitted \cup {m \in Tagged(file) : Vouches(file, m)}
     /\ \E names \in (SUBSET all) \ {{}} :
          /\ at' = [at EXCEPT !["far"] = Imported(@, file, names)]
          /\ \/ names = all /\ UNCHANGED faults
                /\ arrived' = promised
                /\ lacking' = (lacking \ Tagged(file))
                      \cup {m \in Tagged(file) : ~Vouches(OnlyNamed(file), m)}
             \/ names # all /\ Astray
                /\ arrived' = {}
                /\ lacking' = lacking \cup {Concerns(file, n) : n \in names}
     /\ UNCHANGED <<unattested, job, sure, promised, trust, route, published>>

-----------------------------------------------------------------------------
Next ==
  \/ \E t \in Tags, m \in Models : Push(t, m)
  \/ \E key \in Keys, t \in Tags : Sign(key, t)
  \/ \E signing \in unattested : Attest(signing) \/ AttestationFails(signing)
  \/ \E p \in Attachments : AttachBundle(p[1], p[2]) \/ AttachInStore(p[1], p[2])
  \/ \E key \in Keys, m \in Models : AttachSignature(key, m)
  \/ \E kind \in {"pull", "copy"}, t \in Tags : Start(kind, t)
  \/ CarrySignature \/ CarryAttestation \/ CarryBundles
  \/ BundlesUnavailable \/ CarryingFails
  \/ \E T \in (SUBSET Tags) \ {{}} : Save(T)
  \/ Mishandle \/ Load

Spec == Init /\ [][Next]_vars

-----------------------------------------------------------------------------
\* A transfer that says all went well brought enough to verify the model with
\* no registry, if it verified at the source all along: a pull into the store,
\* a copy into the mirror, a file that was saved, carried as it was and loaded
\* (internal/transfer/pull.go, saveload.go).
VerifiableTravels ==
  /\ job.step = "done" /\ job.clean /\ sure =>
       IF job.kind = "copy"
       THEN VerifyAccepts(EmptyPlace("mirror", TRUE), {at["mirror"]}, job.tag,
                          trust["mirror"])
       ELSE VerifiesOffline(at["near"], job.tag)
  /\ \A t \in arrived : VerifiesOffline(at["far"], t)

\* Behind the gate the far store names only what verified in the file it came
\* in and what belongs to that, a bundle's name holds that bundle, and each such
\* model verifies again in the far store, with no file at hand.  A model is
\* excepted after a load that left behind what vouches for it: one that stopped
\* part-way, or one from a file in which nothing that has a name vouches for
\* the model, since the gate also asks for referrers (signing.Verify) and a load
\* copies names only; a load that brings what vouches ends the exception
\* (bundleVerifier, internal/cli/airgap.go; Load, internal/transfer/saveload.go).
GatedImportVerifies ==
  route = <<"gated">> =>
    LET far == at["far"]
    IN \A n \in DOMAIN far.names :
         LET m == Concerns(far, n)
         IN /\ m \in admitted
            /\ n[1] = "bundle" => far.names[n] = BundleContent(n[2], n[3])
            /\ m \in lacking \/ VerifiedBy(far, m, trust["origin"]) # None
=============================================================================
