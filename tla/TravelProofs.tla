---------------------------- MODULE TravelProofs ----------------------------
(***************************************************************************)
(* Theorems of Travel, for any models, tags, keys, bundles, policies and   *)
(* bounds: behind the gate nothing gets a name that does not verify, and   *)
(* what a transfer reports to have brought can be verified where it is.    *)
(*                                                                         *)
(* First what naming and attaching content does to a place, and what a     *)
(* verdict on a model depends on; then the invariants one by one, each     *)
(* with the steps that could disturb it.                                   *)
(***************************************************************************)
EXTENDS Travel, TLAPS, WellFoundedInduction

\* What there is at a registry or in a store, and the name each kind goes by.
Made(c) ==
  \/ c = ModelContent(c.of)
  \/ c = SigContent(c.of, c.layers)
  \/ c = AttContent(c.of, c.holds)
  \/ c = BundleContent(c.holds, c.of)

\* The content a name is given by whoever makes it.
NamedFor(n, c) ==
  \/ n = TagName(n[2]) /\ c = ModelContent(c.of)
  \/ n = SigName(c.of) /\ c = SigContent(c.of, c.layers)
  \/ n = AttName(c.of) /\ c = AttContent(c.of, c.holds)
  \/ n = BundleName(c) /\ c = BundleContent(c.holds, c.of)

\* A registry or a store: every name is that of its content, every key signed
\* for the origin's repository, and no attestation is without its name.
Orderly(place) ==
  /\ \A n \in DOMAIN place.names : NamedFor(n, place.names[n])
  /\ \A c \in Held(place) :
       /\ Made(c)
       /\ \A layer \in c.layers : layer.identity = Repository["origin"]
       /\ c.is = "att" => AttName(c.of) \in DOMAIN place.names

\* The signatures a transfer brings are all under their names.
Tidy(place) ==
  \A c \in Held(place) : c.layers # {} => SigName(c.of) \in DOMAIN place.names

\* A signature and an attestation are nowhere but where they came from.
Within(place, source) ==
  \A m : /\ SigName(m) \in DOMAIN place.names => SigName(m) \in DOMAIN source.names
         /\ AttName(m) \in DOMAIN place.names => AttName(m) \in DOMAIN source.names

Steps == {"idle", "signature", "attestation", "bundles", "done"}

\* Where everything is, and what the transfer under way is about.
PlacesInv ==
  /\ at = [h \in Hosts |-> at[h]]
  /\ trust = [address \in DOMAIN Repository |-> SignersFor(address)]
  /\ job = [kind |-> job.kind, step |-> job.step, tag |-> job.tag,
            model |-> job.model, clean |-> job.clean]
  /\ job.step \in Steps
  /\ job.step # "idle" => job.kind \in {"pull", "copy"}
  /\ \A h \in Hosts : at[h].address = IF h = "mirror" THEN "mirror" ELSE "origin"
  /\ \A h \in Hosts \ {"origin"} : at[h].lists = TRUE
  /\ \A h \in {"origin", "near", "mirror"} : Orderly(at[h])
  /\ \A h \in {"near", "mirror"} : Tidy(at[h]) /\ Within(at[h], at["origin"])

\* What a file holds by name, mishandled or not.
Sealed(file) ==
  /\ file.loose = {}
  /\ \A n \in DOMAIN file.names :
       LET c == file.names[n]
       IN /\ c.layers # {} => n = SigName(c.of)
          /\ c.is = "att" => n = AttName(c.of)
          /\ c.is = "bundle" => c = BundleContent(c.holds, c.of)

\* Where something comes from the store, what goes by its name there does.
ComesFrom(place, store) ==
  /\ \A c \in Held(place) :
       /\ c.layers # {} => SigName(c.of) \in DOMAIN store.names
       /\ c.is = "att" => AttName(c.of) \in DOMAIN store.names
  /\ \A m : AttName(m) \in DOMAIN place.names => AttName(m) \in DOMAIN store.names

\* What a load can bring and what the far store has: signatures by their names
\* only, and of nothing the near store did not have them of.
CrossingInv ==
  /\ Sealed(OnlyNamed(at["carrier"]))
  /\ \A n \in DOMAIN at["far"].names :
       at["far"].names[n].layers # {} => n = SigName(at["far"].names[n].of)
  /\ ComesFrom(OnlyNamed(at["carrier"]), at["near"])
  /\ ComesFrom(at["far"], at["near"])

\* What has a name behind the gate verified in its file, and verifies there by
\* itself unless a load left behind what vouches: the gate reads the file, and
\* the far store may have signatures of its own.
GateInv ==
  route = <<"gated">> =>
    \A n \in DOMAIN at["far"].names :
      /\ Concerns(at["far"], n) \in admitted
      /\ n[1] = "bundle" => at["far"].names[n] = BundleContent(n[2], n[3])
      /\ \/ Concerns(at["far"], n) \in lacking
         \/ VerifiedBy(at["far"], Concerns(at["far"], n), trust["origin"]) # None

\* What a promise means while the file is on its way: the model verifies from
\* the file, and the far store has no signature and no attestation of it that
\* the file would not replace.
Vouched(t) ==
  LET file == OnlyNamed(at["carrier"])
      far == at["far"]
      m == Digest(file.names[TagName(t)])
      by == VerifiedBy(file, m, trust["origin"])
  IN /\ TagName(t) \in DOMAIN file.names
     /\ m # None
     /\ by # None
     /\ ~AttestationRefuses(file, m, by)
     /\ \A c \in Held(far) :
          c.of = m =>
            /\ c.layers # {} => SigName(m) \in DOMAIN file.names
            /\ c.is = "att" => AttName(m) \in DOMAIN file.names
     /\ AttName(m) \in DOMAIN far.names => AttName(m) \in DOMAIN file.names

\* A promise holds of the file until it is loaded, and of the far store then.
PromiseInv ==
  /\ \A t \in promised : Vouched(t)
  /\ \A t \in arrived : VerifiesOffline(at["far"], t)

\* Step by step, what a pull has brought so far is what the registry has, and
\* what that cannot vouch for the bundles still to come do.
PullKept ==
  LET origin == at["origin"]
      near == at["near"]
      m == job.model
      signers == trust["origin"]
  IN /\ job.step \in {"attestation", "bundles", "done"} =>
          IF Names(near, SigName(m))
          THEN near.names[SigName(m)] = origin.names[SigName(m)]
          ELSE signers.identities # {} /\ KeylessVerifies(origin, m, signers)
     /\ job.step \in {"bundles", "done"} =>
          ~AttestationRefuses(near, m, VerifiedBy(near, m, signers))
     /\ job.step = "done" => VerifiedBy(near, m, signers) # None

\* A transfer that was sure all along has brought its model, and what vouches
\* for it as far as it has come.
JobInv ==
  /\ job.step # "idle" =>
       LET place == at[Target(job.kind)]
       IN /\ job.model # None
          /\ TagName(job.tag) \in DOMAIN place.names
          /\ Digest(place.names[TagName(job.tag)]) = job.model
  /\ sure => job.step # "idle" /\ SoundAt(at["origin"], job.model, job.kind)
  /\ sure /\ job.clean /\ job.kind = "pull" => PullKept
  /\ sure /\ job.clean /\ job.kind = "copy" /\ job.step = "done" =>
       KeylessVerifies(at["mirror"], job.model, trust["mirror"])

-----------------------------------------------------------------------------
(* Places.                                                                 *)

Less == {pair \in Nat \X Nat : pair[1] < pair[2]}

LEMMA MinIsIn == ASSUME NEW S \in SUBSET Nat, S # {} PROVE Min(S) \in S
<1>1. OpToRel(<, Nat) = Less
  BY Zenon DEF OpToRel, Less
<1>2. IsWellFoundedOn(Less, Nat)
  BY <1>1, NatLessThanWellFounded, Zenon
<1>3. PICK x \in S : \A y \in S : ~(<<y, x>> \in Less)
  BY <1>2, WFMin, Zenon
<1>4. ASSUME NEW y \in S PROVE x <= y
  <2>1. x \in Nat /\ y \in Nat
    OBVIOUS
  <2>2. <<y, x>> \in Nat \X Nat /\ <<y, x>>[1] = y /\ <<y, x>>[2] = x
    BY <2>1
  <2>3. ~(y < x)
    BY <1>3, <2>2, Zenon DEF Less
  <2> QED BY <2>1, <2>3
<1> QED BY <1>4 DEF Min

LEMMA NameAllKeeps ==
  ASSUME NEW p, NEW given
  PROVE /\ DOMAIN NameAll(p, given).names = DOMAIN given \cup DOMAIN p.names
        /\ \A n \in DOMAIN given : NameAll(p, given).names[n] = given[n]
        /\ \A n \in DOMAIN p.names \ DOMAIN given :
             NameAll(p, given).names[n] = p.names[n]
        /\ Held(NameAll(p, given)) = Held(p) \cup {given[n] : n \in DOMAIN given}
        /\ NameAll(p, given).lists = p.lists
        /\ NameAll(p, given).address = p.address
        /\ DOMAIN given \cap DOMAIN p.names = {} /\ p.loose = {} =>
             NameAll(p, given).loose = {}
<1> DEFINE q == NameAll(p, given)
<1>1. /\ DOMAIN q.names = DOMAIN given \cup DOMAIN p.names
      /\ \A n \in DOMAIN given : q.names[n] = given[n]
      /\ \A n \in DOMAIN p.names \ DOMAIN given : q.names[n] = p.names[n]
      /\ q.lists = p.lists /\ q.address = p.address
  BY DEF NameAll, Place
<1>2. q.loose = (p.loose \cup {p.names[n] : n \in DOMAIN given \cap DOMAIN p.names})
                  \ {q.names[n] : n \in DOMAIN q.names}
  BY DEF NameAll, Place
<1> HIDE DEF q
<1>3. Held(q) = {q.names[n] : n \in DOMAIN q.names} \cup p.loose
                  \cup {p.names[n] : n \in DOMAIN given \cap DOMAIN p.names}
  BY <1>2 DEF Held, Named
<1>4. Held(q) = Held(p) \cup {given[n] : n \in DOMAIN given}
  <2>1. {q.names[n] : n \in DOMAIN q.names} =
          {given[n] : n \in DOMAIN given}
            \cup {p.names[n] : n \in DOMAIN p.names \ DOMAIN given}
    BY <1>1
  <2> QED BY <1>3, <2>1 DEF Held, Named
<1>5. DOMAIN given \cap DOMAIN p.names = {} /\ p.loose = {} => q.loose = {}
  BY <1>2
<1> QED BY <1>1, <1>4, <1>5 DEF q

LEMMA AttachKeeps ==
  ASSUME NEW p, NEW contents
  PROVE /\ Attach(p, contents).names = p.names
        /\ Held(Attach(p, contents)) = Held(p) \cup contents
        /\ Attach(p, contents).lists = p.lists
        /\ Attach(p, contents).address = p.address
  BY DEF Attach, Place, Held, Named

LEMMA OnePlace ==
  ASSUME at = [h \in Hosts |-> at[h]], NEW h \in Hosts, NEW place,
         at' = [at EXCEPT ![h] = place]
  PROVE /\ at' = [g \in Hosts |-> at'[g]]
        /\ at'[h] = place
        /\ \A g \in Hosts \ {h} : at'[g] = at[g]
  OBVIOUS

\* What a name says of its content.
LEMMA NamedForMeans ==
  ASSUME NEW n, NEW c, NamedFor(n, c)
  PROVE /\ c.layers # {} => n = SigName(c.of)
        /\ c.is = "att" => n = AttName(c.of)
        /\ c.is = "bundle" => c = BundleContent(c.holds, c.of)
<1>1. CASE c = ModelContent(c.of)
  BY <1>1 DEF ModelContent, Content
<1>2. CASE n = SigName(c.of) /\ c = SigContent(c.of, c.layers)
  BY <1>2 DEF SigContent, Content
<1>3. CASE n = AttName(c.of) /\ c = AttContent(c.of, c.holds)
  BY <1>3 DEF AttContent, Content
<1>4. CASE c = BundleContent(c.holds, c.of)
  BY <1>4 DEF BundleContent, Content
<1> QED BY <1>1, <1>2, <1>3, <1>4 DEF NamedFor

\* A place that has had names and content added.
Grows(p, q) ==
  /\ DOMAIN p.names \subseteq DOMAIN q.names
  /\ Held(p) \subseteq Held(q)
  /\ q.lists = p.lists /\ q.address = p.address

LEMMA NamingGrows ==
  ASSUME NEW p, NEW given PROVE Grows(p, NameAll(p, given))
  BY NameAllKeeps DEF Grows

LEMMA AttachingGrows ==
  ASSUME NEW p, NEW contents PROVE Grows(p, Attach(p, contents))
  BY AttachKeeps DEF Grows

\* Content that is named as it should be leaves a place orderly.
LEMMA NamingIsOrderly ==
  ASSUME NEW p, NEW given, Orderly(p),
         \A n \in DOMAIN given :
           /\ NamedFor(n, given[n])
           /\ \A layer \in given[n].layers : layer.identity = Repository["origin"]
  PROVE Orderly(NameAll(p, given))
<1> DEFINE q == NameAll(p, given)
<1>1. ASSUME NEW n \in DOMAIN q.names PROVE NamedFor(n, q.names[n])
  <2>1. CASE n \in DOMAIN given BY <2>1, NameAllKeeps
  <2>2. CASE n \notin DOMAIN given BY <1>1, <2>2, NameAllKeeps DEF Orderly
  <2> QED BY <2>1, <2>2
<1>2. ASSUME NEW c \in Held(q)
      PROVE /\ Made(c)
            /\ \A layer \in c.layers : layer.identity = Repository["origin"]
            /\ c.is = "att" => AttName(c.of) \in DOMAIN q.names
  <2>1. CASE c \in Held(p) BY <2>1, NameAllKeeps DEF Orderly
  <2>2. CASE c \notin Held(p)
    <3>1. PICK n \in DOMAIN given : c = given[n]
      BY <1>2, <2>2, NameAllKeeps
    <3>2. NamedFor(n, c) /\ n \in DOMAIN q.names
      BY <3>1, NameAllKeeps
    <3>3. Made(c) /\ (c.is = "att" => n = AttName(c.of))
      BY <3>2 DEF NamedFor, Made, ModelContent, SigContent, AttContent, BundleContent, Content
    <3> QED BY <3>1, <3>2, <3>3
  <2> QED BY <2>1, <2>2
<1> QED BY <1>1, <1>2 DEF Orderly

LEMMA AttachingIsOrderly ==
  ASSUME NEW p, NEW contents, Orderly(p),
         \A c \in contents :
           /\ Made(c) /\ c.is # "att"
           /\ \A layer \in c.layers : layer.identity = Repository["origin"]
  PROVE Orderly(Attach(p, contents))
  BY AttachKeeps DEF Orderly

-----------------------------------------------------------------------------
(* Who accepted a model.                                                   *)

\* The keys that verify a model.
Good(place, m, signers) ==
  {i \in DOMAIN signers.keys : SignatureVerifies(place, m, signers.keys[i])}

KeysAreKeys(signers) ==
  signers.keys \in Seq({signers.keys[i] : i \in DOMAIN signers.keys} \ {None})

LEMMA AcceptedBy ==
  ASSUME NEW p, NEW m, NEW signers, KeysAreKeys(signers)
  PROVE /\ Good(p, m, signers) # {} =>
             /\ VerifiedBy(p, m, signers) = signers.keys[Min(Good(p, m, signers))]
             /\ VerifiedBy(p, m, signers) # None
        /\ Good(p, m, signers) = {} =>
             VerifiedBy(p, m, signers) =
               IF signers.identities # {} /\ KeylessVerifies(p, m, signers)
               THEN "keyless" ELSE None
<1>1. CASE Good(p, m, signers) # {}
  <2>1. Good(p, m, signers) \in SUBSET Nat
    BY DEF Good, KeysAreKeys
  <2>2. Min(Good(p, m, signers)) \in DOMAIN signers.keys
    BY <1>1, <2>1, MinIsIn DEF Good
  <2>3. VerifiedBy(p, m, signers) = signers.keys[Min(Good(p, m, signers))]
    BY <1>1 DEF VerifiedBy, Good
  <2>4. signers.keys[Min(Good(p, m, signers))] # None
    BY <2>2 DEF KeysAreKeys
  <2> QED BY <1>1, <2>3, <2>4
<1>2. CASE Good(p, m, signers) = {}
  BY <1>2 DEF VerifiedBy, Good
<1> QED BY <1>1, <1>2

\* A signature under its name decides alone.
LEMMA SameSignatureSameGood ==
  ASSUME NEW p, NEW q, NEW m, NEW signers,
         Names(p, SigName(m)), Names(q, SigName(m)),
         p.names[SigName(m)] = q.names[SigName(m)], p.address = q.address
  PROVE Good(p, m, signers) = Good(q, m, signers)
  BY DEF Good, SignatureVerifies

\* With no layers there is no signature.
LEMMA NothingGood ==
  ASSUME NEW p, NEW m, NEW signers,
         Names(p, SigName(m)) => p.names[SigName(m)].layers = {},
         ~Names(p, SigName(m)) => \A c \in Held(p) : c.of = m => c.layers = {}
  PROVE Good(p, m, signers) = {}
<1> SUFFICES ASSUME NEW key PROVE ~SignatureVerifies(p, m, key)
  BY DEF Good
<1> QED BY DEF SignatureVerifies, ManifestVerifies, Referrers

LEMMA KeylessNeedsIdentities ==
  ASSUME NEW p, NEW m, NEW signers, KeylessVerifies(p, m, signers)
  PROVE signers.identities # {} /\ BundleReferrers(p, m) # {} /\ p.lists
  BY DEF KeylessVerifies, VerifyBundle

LEMMA KeylessTravels ==
  ASSUME NEW p, NEW q, NEW m, NEW signers, KeylessVerifies(p, m, signers),
         BundleReferrers(p, m) \subseteq Held(q), q.lists
  PROVE KeylessVerifies(q, m, signers)
<1>1. BundleReferrers(p, m) \subseteq BundleReferrers(q, m)
  BY DEF BundleReferrers, Referrers
<1> QED BY <1>1 DEF KeylessVerifies

LEMMA BundlesAreHeld ==
  ASSUME NEW p, NEW m
  PROVE /\ BundleReferrers(p, m) \subseteq Held(p)
        /\ \A c \in BundleReferrers(p, m) : c.is = "bundle" /\ c.of = m
  BY DEF BundleReferrers, Referrers

\* What is added to a place takes no verdict back, but for a new signature
\* under the model's own name.
LEMMA VerdictIsKept ==
  ASSUME NEW p, NEW q, NEW m, NEW signers, KeysAreKeys(signers), Grows(p, q),
         Names(q, SigName(m)) =>
           Names(p, SigName(m)) /\ q.names[SigName(m)] = p.names[SigName(m)],
         VerifiedBy(p, m, signers) # None
  PROVE VerifiedBy(q, m, signers) # None
<1>1. CASE Good(p, m, signers) # {}
  <2>1. PICK i \in DOMAIN signers.keys : SignatureVerifies(p, m, signers.keys[i])
    BY <1>1 DEF Good
  <2>2. Referrers(p, m, "sig") \subseteq Referrers(q, m, "sig")
    BY DEF Referrers, Grows
  <2>3. Names(q, SigName(m)) <=> Names(p, SigName(m))
    BY DEF Grows, Names
  <2>4. SignatureVerifies(q, m, signers.keys[i])
    BY <2>1, <2>2, <2>3 DEF SignatureVerifies, ManifestVerifies, Grows
  <2>5. Good(q, m, signers) # {}
    BY <2>4 DEF Good
  <2> QED BY <2>5, AcceptedBy
<1>2. CASE Good(p, m, signers) = {}
  <2>1. signers.identities # {} /\ KeylessVerifies(p, m, signers)
    BY <1>2, AcceptedBy
  <2>2. KeylessVerifies(q, m, signers)
    BY <2>1, KeylessTravels, BundlesAreHeld, KeylessNeedsIdentities DEF Grows
  <2>3. CASE Good(q, m, signers) # {}
    BY <2>3, AcceptedBy
  <2>4. CASE Good(q, m, signers) = {}
    BY <2>1, <2>2, <2>4, AcceptedBy, TravelAssumption
  <2> QED BY <2>3, <2>4
<1> QED BY <1>1, <1>2

LEMMA SameAttestationsSameRefusal ==
  ASSUME NEW p, NEW q, NEW m, NEW by, Attestations(p, m) = Attestations(q, m)
  PROVE AttestationRefuses(p, m, by) <=> AttestationRefuses(q, m, by)
  BY DEF AttestationRefuses

LEMMA TrustHasKeys ==
  ASSUME PlacesInv PROVE KeysAreKeys(trust["origin"]) /\ KeysAreKeys(trust["mirror"])
  BY TravelAssumption DEF PlacesInv, KeysAreKeys

-----------------------------------------------------------------------------
(* What the steps do to the places.                                        *)

LEMMA NameKeeps ==
  ASSUME NEW p, NEW n, NEW c
  PROVE /\ DOMAIN Name(p, n, c).names = DOMAIN p.names \cup {n}
        /\ Name(p, n, c).names[n] = c
        /\ \A k \in DOMAIN p.names \ {n} : Name(p, n, c).names[k] = p.names[k]
        /\ Held(Name(p, n, c)) = Held(p) \cup {c}
        /\ Grows(p, Name(p, n, c))
<1> DEFINE given == [k \in {n} |-> c]
<1>1. DOMAIN given = {n} /\ given[n] = c /\ {given[k] : k \in DOMAIN given} = {c}
  OBVIOUS
<1>2. Name(p, n, c) = NameAll(p, given)
  BY DEF Name
<1> HIDE DEF given
<1> QED BY <1>1, <1>2, NameAllKeeps, NamingGrows

LEMMA NameIsOrderly ==
  ASSUME NEW p, NEW n, NEW c, Orderly(p), NamedFor(n, c),
         \A layer \in c.layers : layer.identity = Repository["origin"]
  PROVE Orderly(Name(p, n, c))
<1> DEFINE given == [k \in {n} |-> c]
<1>1. \A k \in DOMAIN given : k = n /\ given[k] = c
  OBVIOUS
<1>2. Name(p, n, c) = NameAll(p, given)
  BY DEF Name
<1> HIDE DEF given
<1> QED BY <1>1, <1>2, NamingIsOrderly

\* At the registry something is added, and what is being carried is judged
\* again.
RegistryStep(origin) ==
  /\ Grows(at["origin"], origin)
  /\ Orderly(origin)
  /\ Changed(origin)
  /\ UNCHANGED <<job, crossing>>

AtRegistry ==
  \/ \E t \in Tags, m \in Models : Push(t, m)
  \/ \E key \in Keys, t \in Tags : Sign(key, t)
  \/ \E signing \in unattested : Attest(signing)
  \/ \E p \in Attachments : AttachBundle(p[1], p[2])
  \/ \E key \in Keys, m \in Models : AttachSignature(key, m)

LEMMA RegistrySteps ==
  ASSUME PlacesInv, AtRegistry PROVE \E origin : RegistryStep(origin)
<1> DEFINE old == at["origin"]
<1>0. Orderly(old)
  BY DEF PlacesInv
<1> HIDE DEF old
<1>1. ASSUME NEW t \in Tags, NEW m \in Models, Push(t, m)
      PROVE \E origin : RegistryStep(origin)
  <2> DEFINE new == Name(old, TagName(t), ModelContent(m))
  <2>1. NamedFor(TagName(t), ModelContent(m)) /\ ModelContent(m).layers = {}
    BY DEF NamedFor, TagName, ModelContent, Content
  <2>2. Grows(old, new) /\ Orderly(new)
    BY <1>0, <2>1, NameKeeps, NameIsOrderly
  <2>3. Changed(new) /\ UNCHANGED <<job, crossing>>
    BY <1>1 DEF Push, Publish, old
  <2> QED BY <2>2, <2>3 DEF RegistryStep, old
<1>2. ASSUME NEW key \in Keys, NEW t \in Tags, Sign(key, t)
      PROVE \E origin : RegistryStep(origin)
  <2> DEFINE m == ModelAt(old, t)
             content == SigContent(m, {SigLayer(key, m, Repository["origin"])})
             new == Name(old, SigName(m), content)
  <2>1. NamedFor(SigName(m), content)
    BY DEF NamedFor, SigContent, Content
  <2>2. \A layer \in content.layers : layer.identity = Repository["origin"]
    BY DEF SigContent, Content, SigLayer
  <2>3. Changed(new) /\ UNCHANGED <<job, crossing>>
    BY <1>2 DEF Sign, Publish, old
  <2> HIDE DEF m, content
  <2>4. Grows(old, new) /\ Orderly(new)
    BY <1>0, <2>1, <2>2, NameKeeps, NameIsOrderly
  <2> QED BY <2>3, <2>4 DEF RegistryStep, old
<1>3. ASSUME NEW signing \in unattested, Attest(signing)
      PROVE \E origin : RegistryStep(origin)
  <2> DEFINE m == signing.model
             new == Name(old, AttName(m), AttContent(m, signing.key))
  <2>1. NamedFor(AttName(m), AttContent(m, signing.key))
          /\ AttContent(m, signing.key).layers = {}
    BY DEF NamedFor, AttContent, Content
  <2>2. Changed(new) /\ UNCHANGED <<job, crossing>>
    BY <1>3 DEF Attest, old
  <2>3. Grows(old, new) /\ Orderly(new)
    BY <1>0, <2>1, NameKeeps, NameIsOrderly
  <2> QED BY <2>2, <2>3 DEF RegistryStep, old
<1>4. ASSUME NEW p \in Attachments, AttachBundle(p[1], p[2])
      PROVE \E origin : RegistryStep(origin)
  <2> DEFINE new == Attach(old, {BundleContent(p[1], p[2])})
  <2>1. /\ Made(BundleContent(p[1], p[2])) /\ BundleContent(p[1], p[2]).is # "att"
        /\ BundleContent(p[1], p[2]).layers = {}
    BY DEF Made, BundleContent, Content
  <2>2. Changed(new) /\ UNCHANGED <<job, crossing>>
    BY <1>4 DEF AttachBundle, Publish, old
  <2>3. Grows(old, new) /\ Orderly(new)
    BY <1>0, <2>1, AttachingGrows, AttachingIsOrderly
  <2> QED BY <2>2, <2>3 DEF RegistryStep, old
<1>5. ASSUME NEW key \in Keys, NEW m \in Models, AttachSignature(key, m)
      PROVE \E origin : RegistryStep(origin)
  <2> DEFINE content == SigContent(m, {SigLayer(key, m, Repository["origin"])})
             new == Attach(old, {content})
  <2>1. /\ Made(content) /\ content.is # "att"
        /\ \A layer \in content.layers : layer.identity = Repository["origin"]
    BY DEF Made, SigContent, Content, SigLayer
  <2>2. Changed(new) /\ UNCHANGED <<job, crossing>>
    BY <1>5 DEF AttachSignature, Publish, old
  <2>3. Grows(old, new) /\ Orderly(new)
    BY <1>0, <2>1, AttachingGrows, AttachingIsOrderly
  <2> QED BY <2>2, <2>3 DEF RegistryStep, old
<1> QED BY <1>1, <1>2, <1>3, <1>4, <1>5 DEF AtRegistry

LEMMA NamedBundlesKeeps ==
  ASSUME NEW p, NEW bundles, \A c \in bundles : c = BundleContent(c.holds, c.of)
  PROVE LET q == NamedBundles(p, bundles)
        IN /\ DOMAIN q.names = DOMAIN p.names \cup {BundleName(c) : c \in bundles}
           /\ \A c \in bundles : q.names[BundleName(c)] = c
           /\ \A n \in DOMAIN p.names : n[1] # "bundle" => q.names[n] = p.names[n]
           /\ Held(q) = Held(p) \cup bundles
           /\ Grows(p, q)
           /\ p.loose = {} /\ (\A n \in DOMAIN p.names : n[1] # "bundle") => q.loose = {}
<1> DEFINE labels == {BundleName(c) : c \in bundles}
           given == [n \in labels |-> BundleContent(n[2], n[3])]
           q == NameAll(p, given)
<1>1. ASSUME NEW c \in bundles
      PROVE BundleName(c) \in labels /\ given[BundleName(c)] = c
  BY DEF BundleName
<1>2. DOMAIN given = labels /\ \A n \in labels : n[1] = "bundle"
  BY DEF BundleName
<1>4. NamedBundles(p, bundles) = q
  BY DEF NamedBundles
<1> HIDE DEF given, q
<1>3. {given[n] : n \in DOMAIN given} = bundles
  <2>1. ASSUME NEW n \in DOMAIN given PROVE given[n] \in bundles
    <3>1. PICK c \in bundles : n = BundleName(c)
      BY <1>2
    <3> QED BY <1>1, <3>1
  <2>2. ASSUME NEW c \in bundles PROVE \E n \in DOMAIN given : given[n] = c
    BY <1>1, <1>2
  <2> QED BY <2>1, <2>2
<1>5. /\ DOMAIN q.names = DOMAIN p.names \cup labels
      /\ \A c \in bundles : q.names[BundleName(c)] = c
      /\ \A n \in DOMAIN p.names : n[1] # "bundle" => q.names[n] = p.names[n]
  BY <1>1, <1>2, NameAllKeeps DEF q
<1>6. Held(q) = Held(p) \cup bundles /\ Grows(p, q)
  BY <1>3, NameAllKeeps, NamingGrows DEF q
<1>7. p.loose = {} /\ (\A n \in DOMAIN p.names : n[1] # "bundle") => q.loose = {}
  BY <1>2, NameAllKeeps DEF q
<1> QED BY <1>4, <1>5, <1>6, <1>7

\* Two places that have the same by every name but those of bundles.
SameButBundles(p, q) ==
  \A n : n[1] # "bundle" =>
    /\ n \in DOMAIN q.names <=> n \in DOMAIN p.names
    /\ n \in DOMAIN p.names => q.names[n] = p.names[n]

\* The bundles a transfer brings, by whatever name.
LEMMA BundlesBrought ==
  ASSUME NEW p, NEW kind, NEW bundles, NEW origin, NEW m,
         Orderly(p), Tidy(p), Orderly(origin), Within(p, origin),
         bundles \subseteq BundleReferrers(origin, m)
  PROVE LET q == WithBundles(kind, p, bundles)
        IN /\ Grows(p, q) /\ Orderly(q) /\ Tidy(q) /\ Within(q, origin)
           /\ Held(q) = Held(p) \cup bundles
           /\ SameButBundles(p, q)
<1> DEFINE q == WithBundles(kind, p, bundles)
<1>1. ASSUME NEW c \in bundles
      PROVE /\ c.is = "bundle" /\ c = BundleContent(c.holds, c.of) /\ c.layers = {}
            /\ c \in Held(origin)
  <2>1. c.is = "bundle" /\ Made(c) /\ c \in Held(origin)
    BY BundlesAreHeld DEF Orderly
  <2> QED BY <2>1 DEF Made, ModelContent, SigContent, AttContent, BundleContent, Content
<1>2. /\ Held(q) = Held(p) \cup bundles /\ Grows(p, q)
      /\ \A n : n[1] # "bundle" =>
           /\ n \in DOMAIN q.names <=> n \in DOMAIN p.names
           /\ n \in DOMAIN p.names => q.names[n] = p.names[n]
  <2>1. CASE kind = "pull"
    <3>1. q = NamedBundles(p, bundles)
      BY <2>1 DEF WithBundles
    <3>2. \A n \in {BundleName(c) : c \in bundles} : n[1] = "bundle"
      BY DEF BundleName
    <3> HIDE DEF q
    <3> QED BY <1>1, <3>1, <3>2, NamedBundlesKeeps
  <2>2. CASE kind # "pull"
    <3>1. q = Attach(p, bundles)
      BY <2>2 DEF WithBundles
    <3> HIDE DEF q
    <3> QED BY <3>1, AttachKeeps, AttachingGrows
  <2> QED BY <2>1, <2>2
<1>3. Orderly(q)
  <2>1. CASE kind = "pull"
    <3> DEFINE given == [n \in {BundleName(c) : c \in bundles} |-> BundleContent(n[2], n[3])]
    <3>1. q = NameAll(p, given)
      BY <2>1 DEF WithBundles, NamedBundles
    <3>2. ASSUME NEW n \in DOMAIN given
          PROVE NamedFor(n, given[n]) /\ given[n].layers = {}
      <4>1. PICK c \in bundles : n = BundleName(c)
        OBVIOUS
      <4>2. given[n] = BundleContent(c.holds, c.of)
        BY <4>1 DEF BundleName
      <4> HIDE DEF given
      <4> QED BY <1>1, <4>1, <4>2 DEF NamedFor
    <3> HIDE DEF given, q
    <3> QED BY <3>1, <3>2, NamingIsOrderly
  <2>2. CASE kind # "pull"
    <3>1. q = Attach(p, bundles)
      BY <2>2 DEF WithBundles
    <3>2. \A c \in bundles : Made(c) /\ c.is # "att" /\ c.layers = {}
      BY <1>1 DEF Made
    <3> HIDE DEF q
    <3> QED BY <3>1, <3>2, AttachingIsOrderly
  <2> QED BY <2>1, <2>2
<1> HIDE DEF q
<1>4. Tidy(q)
  BY <1>1, <1>2 DEF Tidy, Grows
<1>5. Within(q, origin)
  BY <1>2 DEF Within, SigName, AttName
<1>6. SameButBundles(p, q)
  BY <1>2 DEF SameButBundles
<1> QED BY <1>2, <1>3, <1>4, <1>5, <1>6 DEF q

\* A transfer adds to where it leads what is at the registry.
TransferStep(kind, place) ==
  LET old == at[Target(kind)]
  IN /\ kind \in {"pull", "copy"} /\ job'.kind = kind
     /\ at' = [at EXCEPT ![Target(kind)] = place]
     /\ Grows(old, place) /\ Orderly(place)
     /\ Tidy(place) /\ Within(place, at["origin"])
     /\ job' = [kind |-> job'.kind, step |-> job'.step, tag |-> job'.tag,
                model |-> job'.model, clean |-> job'.clean]
     /\ job'.step \in Steps \ {"idle"}
     /\ UNCHANGED crossing

Transfers ==
  \/ \E kind \in {"pull", "copy"}, t \in Tags : Start(kind, t)
  \/ CarrySignature \/ CarryAttestation \/ CarryBundles
  \/ BundlesUnavailable \/ CarryingFails

\* Content that is carried by its name at the registry.
LEMMA NameBrought ==
  ASSUME NEW p, NEW origin, NEW n \in DOMAIN origin.names,
         Orderly(p), Tidy(p), Orderly(origin), Within(p, origin)
  PROVE LET q == Name(p, n, origin.names[n])
        IN Grows(p, q) /\ Orderly(q) /\ Tidy(q) /\ Within(q, origin)
<1> DEFINE c == origin.names[n]
           q == Name(p, n, c)
<1>1. NamedFor(n, c) /\ c \in Held(origin)
  BY DEF Orderly, Held, Named
<1>2. c.layers # {} => n = SigName(c.of)
  BY <1>1 DEF NamedFor, ModelContent, SigContent, AttContent, BundleContent, Content
<1>3. Orderly(q)
  BY <1>1, NameIsOrderly DEF Orderly
<1> HIDE DEF c
<1>4. Tidy(q)
  BY <1>2, NameKeeps DEF Tidy
<1>5. Within(q, origin)
  BY NameKeeps DEF Within
<1> QED BY <1>3, <1>4, <1>5, NameKeeps DEF c

LEMMA NameCarried ==
  ASSUME PlacesInv, job.step \in {"signature", "attestation"}, NEW name, NEW step,
         step \in {"attestation", "bundles"}, CarryNamed(name, step)
  PROVE \E kind, place : TransferStep(kind, place)
<1> DEFINE h == Target(job.kind)
           origin == at["origin"]
           place == IF Names(origin, name) THEN Name(at[h], name, origin.names[name])
                    ELSE at[h]
<1>1. h \in {"near", "mirror"} /\ job.kind \in {"pull", "copy"}
  BY DEF Target, PlacesInv
<1>2. /\ Orderly(at[h]) /\ Tidy(at[h]) /\ Within(at[h], origin) /\ Orderly(origin)
  BY <1>1 DEF PlacesInv
<1>3. Goto(step, place)
  BY DEF CarryNamed
<1>4. Grows(at[h], place) /\ Orderly(place) /\ Tidy(place) /\ Within(place, origin)
  <2>1. CASE Names(origin, name)
    BY <1>2, <2>1, NameBrought DEF Names
  <2>2. CASE ~Names(origin, name)
    BY <1>2, <2>2 DEF Grows
  <2> QED BY <2>1, <2>2
<1> HIDE DEF place
<1>5. /\ job' = [kind |-> job'.kind, step |-> job'.step, tag |-> job'.tag,
                 model |-> job'.model, clean |-> job'.clean]
      /\ job'.kind = job.kind /\ job'.step = step
      /\ at' = [at EXCEPT ![h] = place] /\ UNCHANGED crossing
  BY <1>3 DEF Goto, PlacesInv
<1> QED BY <1>1, <1>4, <1>5 DEF TransferStep, Steps

\* A report of what was or was not carried, with the bundles it carried.
LEMMA BundlesCarried ==
  ASSUME PlacesInv, job.step \in {"signature", "attestation", "bundles"},
         NEW bundles \in SUBSET BundleReferrers(at["origin"], job.model),
         NEW place,
         place \in {at[Target(job.kind)], WithBundles(job.kind, at[Target(job.kind)], bundles)},
         Goto("done", place) \/ Report(place)
  PROVE \E kind, q : TransferStep(kind, q)
<1> DEFINE h == Target(job.kind)
           origin == at["origin"]
<1>1. h \in {"near", "mirror"} /\ job.kind \in {"pull", "copy"}
  BY DEF Target, PlacesInv
<1>2. Orderly(at[h]) /\ Tidy(at[h]) /\ Within(at[h], origin) /\ Orderly(origin)
  BY <1>1 DEF PlacesInv
<1>3. Grows(at[h], at[h])
  BY DEF Grows
<1>4. Grows(at[h], place) /\ Orderly(place) /\ Tidy(place) /\ Within(place, origin)
  BY <1>2, <1>3, BundlesBrought
<1>5. /\ job' = [kind |-> job'.kind, step |-> job'.step, tag |-> job'.tag,
                 model |-> job'.model, clean |-> job'.clean]
      /\ job'.kind = job.kind /\ job'.step \in Steps \ {"idle"}
      /\ at' = [at EXCEPT ![h] = place] /\ UNCHANGED crossing
  BY DEF Goto, Report, PlacesInv, Steps
<1> QED BY <1>1, <1>4, <1>5 DEF TransferStep

LEMMA TransferSteps ==
  ASSUME PlacesInv, Transfers PROVE \E kind, place : TransferStep(kind, place)
<1>1. ASSUME NEW kind \in {"pull", "copy"}, NEW t \in Tags, Start(kind, t)
      PROVE \E k, place : TransferStep(k, place)
  <2> DEFINE h == Target(kind)
             m == ModelAt(at["origin"], t)
             place == Name(at[h], TagName(t), ModelContent(m))
  <2>1. h \in {"near", "mirror"}
    BY DEF Target
  <2>2. Orderly(at[h]) /\ Tidy(at[h]) /\ Within(at[h], at["origin"])
    BY <2>1 DEF PlacesInv
  <2>3. NamedFor(TagName(t), ModelContent(m)) /\ ModelContent(m).layers = {}
    BY DEF NamedFor, TagName, ModelContent, Content
  <2>4. /\ at' = [at EXCEPT ![h] = place] /\ UNCHANGED crossing
        /\ job' = [kind |-> kind, step |-> "signature", tag |-> t, model |-> m, clean |-> TRUE]
    BY <1>1 DEF Start
  <2> HIDE DEF m
  <2>5. Grows(at[h], place) /\ Orderly(place)
    BY <2>2, <2>3, NameKeeps, NameIsOrderly
  <2>6. Tidy(place)
    BY <2>2, <2>3, NameKeeps DEF Tidy
  <2>7. Within(place, at["origin"])
    <3>1. \A x : SigName(x) # TagName(t) /\ AttName(x) # TagName(t)
      BY DEF TagName, SigName, AttName
    <3>2. DOMAIN place.names = DOMAIN at[h].names \cup {TagName(t)}
      BY NameKeeps
    <3> HIDE DEF h, place
    <3> QED BY <2>2, <3>1, <3>2 DEF Within
  <2> HIDE DEF place
  <2> QED BY <2>4, <2>5, <2>6, <2>7 DEF TransferStep, Steps
<1>2. ASSUME CarrySignature PROVE \E k, place : TransferStep(k, place)
  BY <1>2, NameCarried DEF CarrySignature
<1>3. ASSUME CarryAttestation PROVE \E k, place : TransferStep(k, place)
  BY <1>3, NameCarried DEF CarryAttestation
<1>4. ASSUME CarryBundles PROVE \E k, place : TransferStep(k, place)
  BY <1>4, BundlesCarried DEF CarryBundles
<1>5. ASSUME BundlesUnavailable PROVE \E k, place : TransferStep(k, place)
  BY <1>5, BundlesCarried DEF BundlesUnavailable
<1>6. ASSUME CarryingFails PROVE \E k, place : TransferStep(k, place)
  <2>1. job.step \in {"signature", "attestation", "bundles"}
    BY <1>6 DEF CarryingFails
  <2>2. PICK some \in SUBSET BundleReferrers(at["origin"], job.model) :
          Report(WithBundles(job.kind, at[Target(job.kind)], some))
    BY <1>6 DEF CarryingFails
  <2> QED BY <2>1, <2>2, BundlesCarried
<1> QED BY <1>1, <1>2, <1>3, <1>4, <1>5, <1>6 DEF Transfers

\* What a saved file holds: by their names what the store names, and the
\* bundles of every model in it.
LEMMA SavedHolds ==
  ASSUME NEW store, NEW T, Orderly(store)
  PROVE LET file == Saved(store, T)
            models == {ModelAt(store, t) : t \in T}
            wanted == {TagName(t) : t \in T} \cup {SigName(m) : m \in models}
                        \cup {AttName(m) : m \in models}
        IN /\ \A n \in wanted :
                /\ n \in DOMAIN file.names <=> n \in DOMAIN store.names
                /\ n \in DOMAIN store.names => file.names[n] = store.names[n]
           /\ \A m \in models : BundleReferrers(store, m) \subseteq Held(file)
           /\ \A n \in DOMAIN file.names :
                /\ NamedFor(n, file.names[n])
                /\ file.names[n] \in Held(store)
                /\ n[1] # "bundle" => n \in DOMAIN store.names
           /\ file.loose = {} /\ file.lists = TRUE /\ file.address = store.address
           /\ OnlyNamed(file) = file
<1> DEFINE models == {ModelAt(store, t) : t \in T}
           wanted == {TagName(t) : t \in T} \cup {SigName(m) : m \in models}
                       \cup {AttName(m) : m \in models}
           bundles == UNION {BundleReferrers(store, m) : m \in models}
           plain == Place([n \in wanted \cap DOMAIN store.names |-> store.names[n]], {},
                          TRUE, store.address)
           file == NamedBundles(plain, bundles)
<1>1. Saved(store, T) = file
  BY DEF Saved
<1>11. file.loose = {} => OnlyNamed(file) = file
  BY DEF NamedBundles, NameAll, OnlyNamed, Place
<1>2. \A n \in wanted : n[1] # "bundle"
  BY DEF TagName, SigName, AttName
<1>3. \A c \in bundles : c \in Held(store) /\ c = BundleContent(c.holds, c.of)
  <2> SUFFICES ASSUME NEW c \in bundles
               PROVE c \in Held(store) /\ c = BundleContent(c.holds, c.of)
    OBVIOUS
  <2>1. PICK m \in models : c \in BundleReferrers(store, m)
    OBVIOUS
  <2>2. c.is = "bundle" /\ c \in Held(store) /\ Made(c)
    BY <2>1, BundlesAreHeld DEF Orderly
  <2> QED BY <2>2 DEF Made, ModelContent, SigContent, AttContent, Content
<1>4. \A m \in models : BundleReferrers(store, m) \subseteq bundles
  OBVIOUS
<1> HIDE DEF models, wanted, bundles
<1>5. /\ DOMAIN plain.names = wanted \cap DOMAIN store.names
      /\ \A n \in DOMAIN plain.names : plain.names[n] = store.names[n] /\ n[1] # "bundle"
      /\ plain.loose = {} /\ plain.lists = TRUE /\ plain.address = store.address
  BY <1>2 DEF Place
<1> HIDE DEF plain
<1>6. /\ DOMAIN file.names = DOMAIN plain.names \cup {BundleName(c) : c \in bundles}
      /\ \A c \in bundles : file.names[BundleName(c)] = c
      /\ \A n \in DOMAIN plain.names : file.names[n] = plain.names[n]
      /\ Held(file) = Held(plain) \cup bundles
      /\ file.loose = {} /\ file.lists = TRUE /\ file.address = store.address
  BY <1>3, <1>5, NamedBundlesKeeps DEF Grows
<1> HIDE DEF file
<1>7. \A c \in bundles : BundleName(c)[1] = "bundle"
  BY DEF BundleName
<1>8. ASSUME NEW n \in wanted
      PROVE /\ n \in DOMAIN file.names <=> n \in DOMAIN store.names
            /\ n \in DOMAIN store.names => file.names[n] = store.names[n]
  BY <1>2, <1>5, <1>6, <1>7
<1>9. ASSUME NEW n \in DOMAIN file.names
      PROVE /\ NamedFor(n, file.names[n])
            /\ file.names[n] \in Held(store)
            /\ n[1] # "bundle" => n \in DOMAIN store.names
  <2>1. CASE n \in DOMAIN plain.names
    BY <1>5, <1>6, <2>1 DEF Orderly, Held, Named
  <2>2. CASE n \notin DOMAIN plain.names
    <3>1. PICK c \in bundles : n = BundleName(c) /\ file.names[n] = c
      BY <1>6, <2>2
    <3> QED BY <1>3, <1>7, <3>1 DEF NamedFor
  <2> QED BY <2>1, <2>2
<1>10. \A m \in models : BundleReferrers(store, m) \subseteq Held(file)
  BY <1>4, <1>6
<1> QED BY <1>1, <1>6, <1>8, <1>9, <1>10, <1>11 DEF models, wanted

LEMMA SavedIsSealed ==
  ASSUME NEW store, NEW T, Orderly(store) PROVE Sealed(Saved(store, T))
<1> DEFINE file == Saved(store, T)
<1>1. file.loose = {} /\ \A n \in DOMAIN file.names : NamedFor(n, file.names[n])
  BY SavedHolds
<1> HIDE DEF file
<1>2. Sealed(file)
  BY <1>1, NamedForMeans DEF Sealed
<1> QED BY <1>2 DEF file

\* For each model that is saved, what the file has of it.
LEMMA SavedModel ==
  ASSUME NEW store, NEW T, Orderly(store), NEW t \in T
  PROVE LET file == Saved(store, T)
            m == ModelAt(store, t)
        IN /\ \A n \in {TagName(t), SigName(m), AttName(m)} :
                /\ n \in DOMAIN file.names <=> n \in DOMAIN store.names
                /\ n \in DOMAIN store.names => file.names[n] = store.names[n]
           /\ BundleReferrers(store, m) \subseteq Held(file)
           /\ file.lists = TRUE /\ file.address = store.address
<1> DEFINE models == {ModelAt(store, u) : u \in T}
           wanted == {TagName(u) : u \in T} \cup {SigName(m) : m \in models}
                       \cup {AttName(m) : m \in models}
           file == Saved(store, T)
           m == ModelAt(store, t)
<1>1. /\ \A n \in wanted :
           /\ n \in DOMAIN file.names <=> n \in DOMAIN store.names
           /\ n \in DOMAIN store.names => file.names[n] = store.names[n]
      /\ \A x \in models : BundleReferrers(store, x) \subseteq Held(file)
      /\ file.lists = TRUE /\ file.address = store.address
  BY SavedHolds
<1>2. m \in models /\ {TagName(t), SigName(m), AttName(m)} \subseteq wanted
  OBVIOUS
<1> HIDE DEF models, wanted, file, m
<1>3. /\ \A n \in {TagName(t), SigName(m), AttName(m)} :
           /\ n \in DOMAIN file.names <=> n \in DOMAIN store.names
           /\ n \in DOMAIN store.names => file.names[n] = store.names[n]
      /\ BundleReferrers(store, m) \subseteq Held(file)
      /\ file.lists = TRUE /\ file.address = store.address
  <2>1. ASSUME NEW n \in {TagName(t), SigName(m), AttName(m)}
        PROVE /\ n \in DOMAIN file.names <=> n \in DOMAIN store.names
              /\ n \in DOMAIN store.names => file.names[n] = store.names[n]
    <3>1. n \in wanted BY <1>2
    <3> QED BY <1>1, <3>1
  <2> QED BY <1>1, <1>2, <2>1
<1> QED BY <1>3 DEF file, m

-----------------------------------------------------------------------------
(* The places stay as they are meant to be.                                *)

Others == UNCHANGED <<at, job, sure, crossing>>

LEMMA StepsAre ==
  ASSUME [Next]_vars
  PROVE \/ AtRegistry \/ Transfers
        \/ \E p \in Attachments : AttachInStore(p[1], p[2])
        \/ \E T \in (SUBSET Tags) \ {{}} : Save(T)
        \/ Mishandle \/ Load \/ Others
<1>1. CASE UNCHANGED vars
  BY <1>1 DEF vars, crossing, Others
<1>2. CASE \E signing \in unattested : AttestationFails(signing)
  BY <1>2 DEF AttestationFails, Others
<1> QED BY <1>1, <1>2 DEF Next, AtRegistry, Transfers

LEMMA PlacesInit == Init => PlacesInv
<1> SUFFICES ASSUME Init PROVE PlacesInv
  OBVIOUS
<1>1. PICK lists \in BOOLEAN, t \in Tags :
        at = [p \in Hosts |->
                LET empty == EmptyPlace(IF p = "mirror" THEN "mirror" ELSE "origin",
                                        p = "origin" => lists)
                IN IF p = "origin" THEN Name(empty, TagName(t), ModelContent(Pushed))
                   ELSE empty]
  BY DEF Init
<1> DEFINE nothing == EmptyPlace("origin", lists)
           origin == Name(nothing, TagName(t), ModelContent(Pushed))
<1>2. ASSUME NEW address, NEW l
      PROVE LET e == EmptyPlace(address, l)
            IN /\ Orderly(e) /\ Tidy(e) /\ (\A q : Within(e, q)) /\ Held(e) = {}
               /\ e.address = address /\ e.lists = l
  <2> DEFINE e == EmptyPlace(address, l)
  <2>1. DOMAIN e.names = {} /\ e.loose = {} /\ e.address = address /\ e.lists = l
    BY DEF EmptyPlace, Place
  <2> HIDE DEF e
  <2>2. Held(e) = {}
    BY <2>1 DEF Held, Named
  <2> QED BY <2>1, <2>2 DEF Orderly, Tidy, Within, e
<1>3. at["origin"] = origin
  BY <1>1 DEF Hosts
<1>4. \A h \in Hosts \ {"origin"} :
        at[h] = EmptyPlace(IF h = "mirror" THEN "mirror" ELSE "origin", TRUE)
  BY <1>1
<1>5. NamedFor(TagName(t), ModelContent(Pushed)) /\ ModelContent(Pushed).layers = {}
  BY DEF NamedFor, TagName, ModelContent, Content
<1>6. Orderly(origin) /\ origin.address = "origin"
  BY <1>2, <1>5, NameKeeps, NameIsOrderly DEF Grows
<1>7. /\ job = [kind |-> job.kind, step |-> job.step, tag |-> job.tag,
                model |-> job.model, clean |-> job.clean]
      /\ job.step = "idle"
      /\ trust = [address \in DOMAIN Repository |-> SignersFor(address)]
  BY DEF Init, Nowhere
<1>8. at = [h \in Hosts |-> at[h]]
  BY <1>1
<1> HIDE DEF origin
<1>9. ASSUME NEW h \in Hosts \ {"origin"}
      PROVE /\ at[h].address = IF h = "mirror" THEN "mirror" ELSE "origin"
            /\ at[h].lists = TRUE /\ Orderly(at[h]) /\ Tidy(at[h])
            /\ Within(at[h], at["origin"])
  <2> DEFINE address == IF h = "mirror" THEN "mirror" ELSE "origin"
             e == EmptyPlace(address, TRUE)
  <2>1. at[h] = e
    BY <1>4
  <2>2. /\ Orderly(e) /\ Tidy(e) /\ Within(e, at["origin"])
        /\ e.address = address /\ e.lists = TRUE
    BY <1>2
  <2> HIDE DEF e
  <2> QED BY <2>1, <2>2
<1> QED BY <1>3, <1>6, <1>7, <1>8, <1>9 DEF PlacesInv, Steps, Hosts

\* One place at a time changes, and stays as it is meant to be.
LEMMA PlacesChange ==
  ASSUME PlacesInv, NEW h \in Hosts, NEW place, at' = [at EXCEPT ![h] = place],
         trust' = trust,
         job' = [kind |-> job'.kind, step |-> job'.step, tag |-> job'.tag,
                 model |-> job'.model, clean |-> job'.clean],
         job'.step \in Steps, job'.step # "idle" => job'.kind \in {"pull", "copy"},
         place.address = at[h].address, place.lists = at[h].lists,
         h \in {"origin", "near", "mirror"} => Orderly(place),
         h \in {"near", "mirror"} => Tidy(place) /\ Within(place, at["origin"]),
         h = "origin" => DOMAIN at["origin"].names \subseteq DOMAIN place.names
  PROVE PlacesInv'
<1>1. /\ at' = [g \in Hosts |-> at'[g]] /\ at'[h] = place
      /\ \A g \in Hosts \ {h} : at'[g] = at[g]
  BY OnePlace DEF PlacesInv
<1>2. trust' = [address \in DOMAIN Repository |-> SignersFor(address)]
  BY DEF PlacesInv
<1>3. \A g \in Hosts : at'[g].address = IF g = "mirror" THEN "mirror" ELSE "origin"
  BY <1>1 DEF PlacesInv
<1>4. \A g \in Hosts \ {"origin"} : at'[g].lists = TRUE
  BY <1>1 DEF PlacesInv
<1>5. ASSUME NEW g \in {"origin", "near", "mirror"} PROVE Orderly(at'[g])
  BY <1>1 DEF PlacesInv, Hosts
<1>6. ASSUME NEW g \in {"near", "mirror"} PROVE Tidy(at'[g]) /\ Within(at'[g], at'["origin"])
  <2>1. Tidy(at'[g]) /\ Within(at'[g], at["origin"])
    BY <1>1 DEF PlacesInv, Hosts
  <2>2. DOMAIN at["origin"].names \subseteq DOMAIN at'["origin"].names
    BY <1>1 DEF Hosts
  <2> QED BY <2>1, <2>2 DEF Within
<1> QED BY <1>1, <1>2, <1>3, <1>4, <1>5, <1>6 DEF PlacesInv

LEMMA PlacesStep == PlacesInv /\ [Next]_vars => PlacesInv'
<1> SUFFICES ASSUME PlacesInv, [Next]_vars PROVE PlacesInv'
  OBVIOUS
<1>0. /\ job = [kind |-> job.kind, step |-> job.step, tag |-> job.tag,
                model |-> job.model, clean |-> job.clean]
      /\ job.step \in Steps /\ (job.step # "idle" => job.kind \in {"pull", "copy"})
      /\ Orderly(at["near"])
  BY DEF PlacesInv
<1>1. CASE AtRegistry
  <2>1. PICK origin : RegistryStep(origin)
    BY <1>1, RegistrySteps
  <2>2. at' = [at EXCEPT !["origin"] = origin] /\ job' = job /\ trust' = trust
    BY <2>1 DEF RegistryStep, Changed, crossing
  <2> QED BY <1>0, <2>1, <2>2, PlacesChange DEF RegistryStep, Grows, Hosts
<1>2. CASE Transfers
  <2>1. PICK kind, place : TransferStep(kind, place)
    BY <1>2, TransferSteps
  <2>2. Target(kind) \in {"near", "mirror"} /\ trust' = trust
    BY <2>1 DEF Target, TransferStep, crossing
  <2> QED BY <2>1, <2>2, PlacesChange DEF TransferStep, Grows, Hosts
<1>3. ASSUME NEW p \in Attachments, AttachInStore(p[1], p[2]) PROVE PlacesInv'
  <2> DEFINE c == BundleContent(p[1], p[2])
             place == Attach(at["near"], {c})
  <2>1. at' = [at EXCEPT !["near"] = place] /\ job' = job /\ trust' = trust
    BY <1>3 DEF AttachInStore, crossing
  <2>2. Made(c) /\ c.is # "att" /\ c.layers = {}
    BY DEF Made, BundleContent, Content
  <2> HIDE DEF c
  <2>3. Orderly(place)
    BY <1>0, <2>2, AttachingIsOrderly
  <2>4. Tidy(place) /\ Within(place, at["origin"])
    <3>1. Tidy(at["near"]) /\ Within(at["near"], at["origin"])
      BY DEF PlacesInv
    <3> QED BY <3>1, <2>2, AttachKeeps DEF Tidy, Within
  <2> QED BY <1>0, <2>1, <2>3, <2>4, AttachKeeps, PlacesChange DEF Hosts
<1>4. ASSUME NEW T, Save(T) PROVE PlacesInv'
  <2>1. at' = [at EXCEPT !["carrier"] = Saved(at["near"], T)] /\ job' = job /\ trust' = trust
    BY <1>4 DEF Save
  <2>2. Saved(at["near"], T).lists = TRUE /\ Saved(at["near"], T).address = at["near"].address
    BY <1>0, SavedHolds
  <2>3. /\ at["carrier"].address = at["near"].address /\ at["carrier"].lists = TRUE
    BY DEF PlacesInv, Hosts
  <2> QED BY <1>0, <2>1, <2>2, <2>3, PlacesChange DEF Hosts
<1>5. CASE Mishandle
  <2>1. PICK names, unnamed : at' = [at EXCEPT !["carrier"] =
          Attach(Place(names, at["carrier"].loose, at["carrier"].lists,
                       at["carrier"].address), unnamed)]
    BY <1>5 DEF Mishandle
  <2>2. job' = job /\ trust' = trust
    BY <1>5 DEF Mishandle
  <2> QED BY <1>0, <2>1, <2>2, PlacesChange DEF Hosts, Place, Attach
<1>6. CASE Load
  <2>1. PICK names : at' = [at EXCEPT !["far"] = Imported(at["far"], at["carrier"], names)]
    BY <1>6 DEF Load
  <2>2. job' = job /\ trust' = trust
    BY <1>6 DEF Load
  <2>3. Grows(at["far"], Imported(at["far"], at["carrier"], names))
    BY NamingGrows DEF Imported
  <2> QED BY <1>0, <2>1, <2>2, <2>3, PlacesChange DEF Hosts, Grows
<1>7. CASE Others
  BY <1>7 DEF Others, crossing, PlacesInv
<1> QED BY <1>1, <1>2, <1>3, <1>4, <1>5, <1>6, <1>7, StepsAre

-----------------------------------------------------------------------------
(* What is on its way, and what arrived.                                   *)

LEMMA OnlyNamedIs ==
  ASSUME NEW file
  PROVE LET only == OnlyNamed(file)
        IN /\ only.names = file.names /\ only.loose = {}
           /\ only.lists = file.lists /\ only.address = file.address
           /\ Tagged(only) = Tagged(file)
           /\ \A n : Concerns(only, n) = Concerns(file, n)
           /\ \A far, names : Imported(far, only, names) = Imported(far, file, names)
  BY DEF OnlyNamed, Place, Tagged, Concerns, Imported

LEMMA CrossingInit == Init => CrossingInv
<1> SUFFICES ASSUME Init PROVE CrossingInv
  OBVIOUS
<1>1. ASSUME NEW h \in {"carrier", "far"}
      PROVE DOMAIN at[h].names = {} /\ at[h].loose = {}
  BY DEF Init, Hosts, EmptyPlace, Place
<1>2. Held(at["far"]) = {} /\ Held(OnlyNamed(at["carrier"])) = {}
  BY <1>1, OnlyNamedIs DEF Held, Named
<1> QED BY <1>1, <1>2, OnlyNamedIs DEF CrossingInv, Sealed, ComesFrom

LEMMA CrossingStays ==
  ASSUME CrossingInv, at'["carrier"] = at["carrier"], at'["far"] = at["far"],
         DOMAIN at["near"].names \subseteq DOMAIN at'["near"].names
  PROVE CrossingInv'
  BY DEF CrossingInv, ComesFrom

LEMMA ImportedKeeps ==
  ASSUME NEW far, NEW file, NEW names \in SUBSET DOMAIN file.names
  PROVE LET q == Imported(far, file, names)
        IN /\ DOMAIN q.names = names \cup DOMAIN far.names
           /\ \A n \in names : q.names[n] = file.names[n]
           /\ \A n \in DOMAIN far.names \ names : q.names[n] = far.names[n]
           /\ Held(q) = Held(far) \cup {file.names[n] : n \in names}
           /\ Grows(far, q)
<1> DEFINE given == [n \in names |-> file.names[n]]
<1>1. DOMAIN given = names /\ \A n \in names : given[n] = file.names[n]
  OBVIOUS
<1>2. {given[n] : n \in DOMAIN given} = {file.names[n] : n \in names}
  BY <1>1
<1>3. Imported(far, file, names) = NameAll(far, given)
  BY DEF Imported
<1> HIDE DEF given
<1> QED BY <1>1, <1>2, <1>3, NameAllKeeps, NamingGrows

\* A load, in terms of what it can bring of the file.
LEMMA LoadIs ==
  ASSUME Load
  PROVE LET file == OnlyNamed(at["carrier"])
        IN \E names \in SUBSET DOMAIN file.names :
             /\ at' = [at EXCEPT !["far"] = Imported(at["far"], file, names)]
             /\ Admits(at["carrier"])
             /\ admitted' = admitted \cup {m \in Tagged(file) : Vouches(at["carrier"], m)}
             /\ UNCHANGED <<job, sure, promised, trust, route>>
             /\ \/ /\ names = DOMAIN file.names
                   /\ arrived' = promised
                   /\ lacking' = (lacking \ Tagged(file))
                         \cup {m \in Tagged(file) : ~Vouches(file, m)}
                \/ /\ arrived' = {}
                   /\ lacking' = lacking \cup {Concerns(file, n) : n \in names}
<1> DEFINE whole == at["carrier"]
           file == OnlyNamed(whole)
<1>1. /\ file.names = whole.names /\ Tagged(file) = Tagged(whole)
      /\ \A n : Concerns(file, n) = Concerns(whole, n)
      /\ \A names : Imported(at["far"], file, names) = Imported(at["far"], whole, names)
  BY OnlyNamedIs
<1>2. PICK names \in SUBSET DOMAIN whole.names :
        /\ at' = [at EXCEPT !["far"] = Imported(at["far"], whole, names)]
        /\ Admits(whole)
        /\ admitted' = admitted \cup {m \in Tagged(whole) : Vouches(whole, m)}
        /\ UNCHANGED <<job, sure, promised, trust, route>>
        /\ \/ /\ names = DOMAIN whole.names
              /\ arrived' = promised
              /\ lacking' = (lacking \ Tagged(whole))
                    \cup {m \in Tagged(whole) : ~Vouches(file, m)}
           \/ /\ arrived' = {}
              /\ lacking' = lacking \cup {Concerns(whole, n) : n \in names}
  BY DEF Load
<1> HIDE DEF file, whole
<1>3. {Concerns(whole, n) : n \in names} = {Concerns(file, n) : n \in names}
  BY <1>1
<1>4. /\ names \in SUBSET DOMAIN file.names
      /\ at' = [at EXCEPT !["far"] = Imported(at["far"], file, names)]
      /\ Admits(whole)
      /\ admitted' = admitted \cup {m \in Tagged(file) : Vouches(whole, m)}
      /\ UNCHANGED <<job, sure, promised, trust, route>>
      /\ \/ /\ names = DOMAIN file.names
            /\ arrived' = promised
            /\ lacking' = (lacking \ Tagged(file))
                  \cup {m \in Tagged(file) : ~Vouches(file, m)}
         \/ /\ arrived' = {}
            /\ lacking' = lacking \cup {Concerns(file, n) : n \in names}
  BY <1>1, <1>2, <1>3
<1> QED BY <1>4 DEF file, whole

\* What a load can bring of a mishandled file: of its names' content, nothing
\* that vouches is new.
Mislabelled(file, place) ==
  \A n \in DOMAIN place.names :
    \/ n \in DOMAIN file.names /\ place.names[n] = file.names[n]
    \/ /\ n \in DOMAIN file.names \/ n[1] # "att"
       /\ \E m : place.names[n] \in {SigContent(m, {}), ModelContent(m)}

LEMMA MishandleIs ==
  ASSUME Mishandle
  PROVE /\ promised' = {}
        /\ UNCHANGED <<job, sure, trust, route, arrived, admitted, lacking>>
        /\ \E place : /\ at' = [at EXCEPT !["carrier"] = place]
                      /\ Mislabelled(at["carrier"], place)
<1> DEFINE file == at["carrier"]
           held == DOMAIN file.names
           Handed(names, unnamed) ==
             Attach(Place(names, file.loose, file.lists, file.address), unnamed)
           known == held \cup {TagName(t) : t \in Tags} \cup {SigName(m) : m \in Models}
           other == UNION {{SigContent(m, {}), ModelContent(m)} : m \in Models}
<1>0. ASSUME NEW names, NEW unnamed PROVE Handed(names, unnamed).names = names
  BY DEF Attach, Place
<1>1. ASSUME NEW n \in held, NEW left
      PROVE Mislabelled(file, Handed([k \in held \ {n} |-> file.names[k]], left))
  BY <1>0 DEF Mislabelled
<1>2. ASSUME NEW n \in known, NEW c \in other
      PROVE Mislabelled(file,
              Handed([k \in held \cup {n} |-> IF k = n THEN c ELSE file.names[k]], {}))
  <2> DEFINE place == Handed([k \in held \cup {n} |-> IF k = n THEN c ELSE file.names[k]], {})
  <2>1. /\ DOMAIN place.names = held \cup {n}
        /\ place.names[n] = c
        /\ \A k \in held \ {n} : place.names[k] = file.names[k]
    BY <1>0
  <2>2. n \in held \/ n[1] # "att"
    BY DEF TagName, SigName
  <2>3. \E m : c \in {SigContent(m, {}), ModelContent(m)}
    OBVIOUS
  <2> HIDE DEF place
  <2>4. Mislabelled(file, place)
    BY <2>1, <2>2, <2>3 DEF Mislabelled
  <2> QED BY <2>4 DEF place
<1>3. ASSUME NEW c PROVE Mislabelled(file, Handed(file.names, {c}))
  BY <1>0 DEF Mislabelled
<1>4. promised' = {} /\ UNCHANGED <<job, sure, trust, route, arrived, admitted, lacking>>
  BY DEF Mishandle
<1>5. \/ \E n \in held : \E left \in {{}, {file.names[n]}} :
           at' = [at EXCEPT !["carrier"] = Handed([k \in held \ {n} |-> file.names[k]], left)]
      \/ \E n \in known, c \in other :
           at' = [at EXCEPT !["carrier"] =
                    Handed([k \in held \cup {n} |-> IF k = n THEN c ELSE file.names[k]], {})]
      \/ \E c \in Unnamed : at' = [at EXCEPT !["carrier"] = Handed(file.names, {c})]
  BY DEF Mishandle
<1> HIDE DEF held, Handed, known, other
<1> QED BY <1>1, <1>2, <1>3, <1>4, <1>5

LEMMA CrossingStep == PlacesInv /\ CrossingInv /\ [Next]_vars => CrossingInv'
<1> SUFFICES ASSUME PlacesInv, CrossingInv, [Next]_vars PROVE CrossingInv'
  OBVIOUS
<1> DEFINE file == OnlyNamed(at["carrier"])
           near == at["near"]
           far == at["far"]
<1>0. at = [h \in Hosts |-> at[h]] /\ Orderly(near) /\ Tidy(near)
  BY DEF PlacesInv
<1>1. CASE AtRegistry
  <2>1. PICK origin : at' = [at EXCEPT !["origin"] = origin]
    BY <1>1, RegistrySteps DEF RegistryStep, Changed
  <2> QED BY <1>0, <2>1, OnePlace, CrossingStays DEF Hosts
<1>2. CASE Transfers
  <2>1. PICK kind, place : TransferStep(kind, place)
    BY <1>2, TransferSteps
  <2>2. Target(kind) \in {"near", "mirror"}
    BY <2>1 DEF Target, TransferStep
  <2>3. /\ at' = [at EXCEPT ![Target(kind)] = place]
        /\ DOMAIN at[Target(kind)].names \subseteq DOMAIN place.names
    BY <2>1 DEF TransferStep, Grows
  <2> QED BY <1>0, <2>2, <2>3, OnePlace, CrossingStays DEF Hosts
<1>3. ASSUME NEW p \in Attachments, AttachInStore(p[1], p[2]) PROVE CrossingInv'
  <2>1. PICK contents : at' = [at EXCEPT !["near"] = Attach(near, contents)]
    BY <1>3 DEF AttachInStore
  <2> QED BY <1>0, <2>1, OnePlace, AttachKeeps, CrossingStays DEF Hosts
<1>4. ASSUME NEW T, Save(T) PROVE CrossingInv'
  <2> DEFINE saved == Saved(near, T)
  <2>1. at' = [at EXCEPT !["carrier"] = saved]
    BY <1>4 DEF Save
  <2>2. at'["carrier"] = saved /\ at'["far"] = far /\ at'["near"] = near
    BY <1>0, <2>1, OnePlace DEF Hosts
  <2>3. /\ saved.loose = {} /\ OnlyNamed(saved) = saved
        /\ \A n \in DOMAIN saved.names :
             /\ NamedFor(n, saved.names[n])
             /\ saved.names[n] \in Held(near)
             /\ n[1] # "bundle" => n \in DOMAIN near.names
    BY <1>0, SavedHolds
  <2>4. Sealed(saved)
    BY <1>0, SavedIsSealed
  <2> HIDE DEF saved
  <2>5. ComesFrom(saved, near)
    <3>1. \A c \in Held(saved) : c \in Held(near)
      BY <2>3 DEF Held, Named
    <3>2. \A m : AttName(m)[1] = "att"
      BY DEF AttName
    <3> QED BY <1>0, <2>3, <3>1, <3>2 DEF ComesFrom, Orderly, Tidy
  <2> QED BY <2>2, <2>3, <2>4, <2>5 DEF CrossingInv
<1>5. CASE Mishandle
  <2>0. PICK whole : /\ at' = [at EXCEPT !["carrier"] = whole]
                     /\ Mislabelled(at["carrier"], whole)
    BY <1>5, MishandleIs
  <2> DEFINE place == OnlyNamed(whole)
  <2>1. Mislabelled(file, place) /\ place.loose = {}
    BY <2>0, OnlyNamedIs DEF Mislabelled
  <2>2. at'["carrier"] = whole /\ at'["far"] = far /\ at'["near"] = near
    BY <1>0, <2>0, OnePlace DEF Hosts
  <2>3. \A m, c : c \in {SigContent(m, {}), ModelContent(m)} =>
                   c.layers = {} /\ c.is \notin {"att", "bundle"}
    BY DEF SigContent, ModelContent, Content
  <2>4. Sealed(file) /\ ComesFrom(file, near)
    BY DEF CrossingInv
  <2> HIDE DEF place, file
  <2>5. Sealed(place)
    BY <2>1, <2>3, <2>4 DEF Sealed, Mislabelled
  <2>6. ComesFrom(place, near)
    <3>1. ASSUME NEW c \in Held(place)
          PROVE c \in Held(file) \/ (c.layers = {} /\ c.is # "att")
      <4>1. place.loose = {}
        BY <2>5 DEF Sealed
      <4>2. PICK n \in DOMAIN place.names : c = place.names[n]
        BY <4>1 DEF Held, Named
      <4>3. CASE n \in DOMAIN file.names /\ place.names[n] = file.names[n]
        BY <4>2, <4>3 DEF Held, Named
      <4>4. CASE \E m : place.names[n] \in {SigContent(m, {}), ModelContent(m)}
        BY <2>3, <4>2, <4>4
      <4> QED BY <2>1, <4>3, <4>4 DEF Mislabelled
    <3>2. \A m : AttName(m) \in DOMAIN place.names => AttName(m) \in DOMAIN file.names
      BY <2>1 DEF AttName, Mislabelled
    <3> QED BY <2>4, <3>1, <3>2 DEF ComesFrom
  <2> QED BY <2>2, <2>5, <2>6 DEF CrossingInv, place
<1>6. CASE Load
  <2>1. PICK names \in SUBSET DOMAIN file.names :
          at' = [at EXCEPT !["far"] = Imported(far, file, names)]
    BY <1>6, LoadIs
  <2> DEFINE q == Imported(far, file, names)
  <2>2. at'["carrier"] = at["carrier"] /\ at'["far"] = q /\ at'["near"] = near
    BY <1>0, <2>1, OnePlace DEF Hosts
  <2>3. /\ DOMAIN q.names = names \cup DOMAIN far.names
        /\ \A n \in names : q.names[n] = file.names[n]
        /\ \A n \in DOMAIN far.names \ names : q.names[n] = far.names[n]
        /\ Held(q) = Held(far) \cup {file.names[n] : n \in names}
    BY ImportedKeeps
  <2> HIDE DEF q
  <2>4. Sealed(file) /\ ComesFrom(file, near) /\ ComesFrom(far, near)
    BY DEF CrossingInv
  <2>5. \A n \in DOMAIN q.names : q.names[n].layers # {} => n = SigName(q.names[n].of)
    BY <2>3, <2>4 DEF CrossingInv, Sealed
  <2>6. ComesFrom(q, near)
    <3> HIDE DEF file
    <3>1. Held(q) \subseteq Held(far) \cup Held(file)
      BY <2>3 DEF Held, Named
    <3> QED BY <2>3, <2>4, <3>1 DEF ComesFrom
  <2> QED BY <2>2, <2>4, <2>5, <2>6 DEF CrossingInv
<1>7. CASE Others
  BY <1>7 DEF Others, CrossingInv
<1> QED BY <1>1, <1>2, <1>3, <1>4, <1>5, <1>6, <1>7, StepsAre

-----------------------------------------------------------------------------
(* The gate.                                                               *)

\* A key's signature in a file is under its name.
LEMMA SealedSignature ==
  ASSUME NEW file, Sealed(file), NEW m, NEW signers, Good(file, m, signers) # {}
  PROVE Names(file, SigName(m))
<1> SUFFICES ASSUME ~Names(file, SigName(m)) PROVE Good(file, m, signers) = {}
  OBVIOUS
<1>1. ASSUME NEW c \in Held(file), c.of = m PROVE c.layers = {}
  <2>1. PICK n \in DOMAIN file.names : c = file.names[n]
    BY DEF Sealed, Held, Named
  <2> QED BY <1>1, <2>1 DEF Sealed, Names
<1> QED BY <1>1, NothingGood

\* What verifies in a file verifies where all of it is brought.
LEMMA FileVerdictTravels ==
  ASSUME NEW file, NEW far, NEW m, NEW signers, KeysAreKeys(signers), Sealed(file),
         far.address = file.address, far.lists,
         VerifiedBy(file, m, signers) # None
  PROVE VerifiedBy(Imported(far, file, DOMAIN file.names), m, signers) # None
<1> DEFINE q == Imported(far, file, DOMAIN file.names)
<1>1. /\ DOMAIN file.names \subseteq DOMAIN q.names
      /\ \A n \in DOMAIN file.names : q.names[n] = file.names[n]
      /\ q.address = file.address /\ q.lists
      /\ Held(file) \subseteq Held(q)
  BY ImportedKeeps DEF Grows, Held, Named, Sealed
<1> HIDE DEF q
<1>2. CASE Good(file, m, signers) # {}
  <2>1. Names(file, SigName(m)) /\ Names(q, SigName(m))
    BY <1>1, <1>2, SealedSignature DEF Names
  <2>2. Good(q, m, signers) = Good(file, m, signers)
    BY <1>1, <2>1, SameSignatureSameGood DEF Names
  <2>3. VerifiedBy(q, m, signers) # None
    BY <1>2, <2>2, AcceptedBy
  <2> QED BY <2>3 DEF q
<1>3. CASE Good(file, m, signers) = {}
  <2>1. signers.identities # {} /\ KeylessVerifies(file, m, signers)
    BY <1>3, AcceptedBy
  <2>2. KeylessVerifies(q, m, signers)
    BY <1>1, <2>1, KeylessTravels, BundlesAreHeld
  <2>3. VerifiedBy(q, m, signers) # None
    BY <2>1, <2>2, AcceptedBy, TravelAssumption
  <2> QED BY <2>3 DEF q
<1> QED BY <1>2, <1>3

LEMMA GateInit == Init => GateInv
<1> SUFFICES ASSUME Init PROVE DOMAIN at["far"].names = {}
  BY DEF GateInv
<1> QED BY DEF Init, Hosts, EmptyPlace, Place

LEMMA GateLoad ==
  ASSUME PlacesInv, CrossingInv, GateInv, route = <<"gated">>, Load PROVE GateInv'
<1> DEFINE whole == at["carrier"]
           file == OnlyNamed(whole)
           far == at["far"]
           signers == trust["origin"]
<1>1. PICK names \in SUBSET DOMAIN file.names :
        /\ at' = [at EXCEPT !["far"] = Imported(far, file, names)]
        /\ Admits(whole)
        /\ admitted' = admitted \cup {m \in Tagged(file) : Vouches(whole, m)}
        /\ UNCHANGED <<job, sure, promised, trust, route>>
        /\ \/ /\ names = DOMAIN file.names
              /\ lacking' = (lacking \ Tagged(file))
                    \cup {m \in Tagged(file) : ~Vouches(file, m)}
           \/ lacking' = lacking \cup {Concerns(file, n) : n \in names}
  BY LoadIs
<1> DEFINE q == Imported(far, file, names)
<1>2. at'["far"] = q /\ trust' = trust /\ route' = route
  BY <1>1, OnePlace DEF PlacesInv, Hosts
<1>3. /\ DOMAIN q.names = names \cup DOMAIN far.names
      /\ \A n \in names : q.names[n] = file.names[n]
      /\ \A n \in DOMAIN far.names \ names : q.names[n] = far.names[n]
      /\ Grows(far, q)
  BY ImportedKeeps
<1>4. KeysAreKeys(signers) /\ Sealed(file) /\ far.address = file.address /\ far.lists
      /\ file.names = whole.names /\ Tagged(file) = Tagged(whole)
  BY TrustHasKeys, OnlyNamedIs DEF PlacesInv, CrossingInv, Hosts
<1>5. /\ \A m \in Tagged(file) : VerifiedBy(whole, m, signers) # None
      /\ AttachmentsBelong(whole, Tagged(file))
  BY <1>1, <1>4 DEF Admits, FileVerifies
<1>0. Tagged(file) \subseteq admitted' /\ admitted \subseteq admitted'
  BY <1>1, <1>5 DEF Vouches
<1> HIDE DEF whole, file
<1>6. ASSUME NEW n \in DOMAIN file.names
      PROVE /\ n[1] = "tag" => Digest(file.names[n]) \in Tagged(file)
            /\ n[1] = "bundle" =>
                 /\ file.names[n] = BundleContent(n[2], n[3])
                 /\ n[3] \in Tagged(file)
            /\ n[1] \notin {"tag", "bundle"} =>
                 n[1] \in {"sig", "att"} /\ n[2] \in Tagged(file)
  <2>1. CASE NamesModel(n)
    BY <2>1 DEF NamesModel, Tagged
  <2>2. CASE n[1] \in {"sig", "att"} /\ n[2] \in Tagged(file)
    BY <2>2
  <2>3. ASSUME n[1] = "bundle", NEW m \in Tagged(file), NEW c \in BundleReferrers(whole, m),
               n = BundleName(c), file.names[n] = c
        PROVE /\ file.names[n] = BundleContent(n[2], n[3])
              /\ n[3] \in Tagged(file)
    <3>1. c.is = "bundle" /\ c.of = m
      BY BundlesAreHeld
    <3>2. c = BundleContent(c.holds, c.of)
      BY <1>4, <2>3, <3>1 DEF Sealed
    <3>3. n[2] = c.holds /\ n[3] = c.of
      BY <2>3 DEF BundleName
    <3> QED BY <2>3, <3>1, <3>2, <3>3
  <2> QED BY <1>4, <1>5, <2>1, <2>2, <2>3 DEF AttachmentsBelong, NamesModel
<1>7. ASSUME NEW m, SigName(m) \in DOMAIN file.names PROVE m \in Tagged(file)
  BY <1>6, <1>7 DEF SigName
<1> HIDE DEF q
<1>8. ASSUME NEW m, SigName(m) \notin names, VerifiedBy(far, m, signers) # None
      PROVE VerifiedBy(q, m, signers) # None
  BY <1>3, <1>4, <1>8, VerdictIsKept DEF Names
<1>9. \A n \in DOMAIN q.names : n[1] = "bundle" => q.names[n] = BundleContent(n[2], n[3])
  BY <1>3, <1>6 DEF GateInv
<1>10. ASSUME NEW n \in DOMAIN far.names \ names
       PROVE Concerns(q, n) = Concerns(far, n)
  BY <1>3 DEF Concerns
<1>11. ASSUME NEW n \in names
       PROVE Concerns(q, n) \in Tagged(file) /\ Concerns(q, n) = Concerns(file, n)
  BY <1>3, <1>6 DEF Concerns, NamesModel
<1>12. ASSUME NEW n \in DOMAIN q.names PROVE Concerns(q, n) \in admitted'
  BY <1>0, <1>2, <1>3, <1>10, <1>11 DEF GateInv
<1>13. CASE /\ names = DOMAIN file.names
            /\ lacking' = (lacking \ Tagged(file))
                  \cup {m \in Tagged(file) : ~Vouches(file, m)}
  <2>1. ASSUME NEW m \in Tagged(file)
        PROVE m \in lacking' \/ VerifiedBy(q, m, signers) # None
    <3>1. CASE VerifiedBy(file, m, signers) # None
      BY <1>4, <1>13, <3>1, FileVerdictTravels DEF q
    <3>2. CASE VerifiedBy(file, m, signers) = None
      BY <1>13, <3>2 DEF Vouches
    <3> QED BY <3>1, <3>2
  <2>2. ASSUME NEW n \in DOMAIN far.names \ names
        PROVE Concerns(q, n) \in lacking' \/ VerifiedBy(q, Concerns(q, n), signers) # None
    <3>1. CASE Concerns(q, n) \in Tagged(file) BY <2>1, <3>1
    <3>2. CASE Concerns(q, n) \notin Tagged(file)
      <4>1. SigName(Concerns(q, n)) \notin names BY <1>7, <3>2
      <4> QED BY <1>8, <1>10, <1>13, <3>2, <4>1 DEF GateInv
    <3> QED BY <3>1, <3>2
  <2> QED BY <1>2, <1>3, <1>9, <1>11, <1>12, <2>1, <2>2 DEF GateInv
<1>14. CASE lacking' = lacking \cup {Concerns(file, n) : n \in names}
  <2>1. ASSUME NEW n \in names PROVE Concerns(q, n) \in lacking'
    BY <1>11, <1>14
  <2>2. ASSUME NEW n \in DOMAIN far.names \ names
        PROVE Concerns(q, n) \in lacking' \/ VerifiedBy(q, Concerns(q, n), signers) # None
    <3>1. CASE SigName(Concerns(q, n)) \in names
      <4>1. Concerns(file, SigName(Concerns(q, n))) = Concerns(q, n)
        BY DEF SigName, Concerns, NamesModel
      <4> QED BY <1>14, <3>1, <4>1
    <3>2. CASE SigName(Concerns(q, n)) \notin names
      BY <1>8, <1>10, <1>14, <3>2 DEF GateInv
    <3> QED BY <3>1, <3>2
  <2> QED BY <1>2, <1>3, <1>9, <1>12, <2>1, <2>2 DEF GateInv
<1> QED BY <1>1, <1>13, <1>14

LEMMA CrossingIsLeft ==
  ASSUME PlacesInv,
         \/ AtRegistry \/ Transfers \/ Others
         \/ \E p \in Attachments : AttachInStore(p[1], p[2])
  PROVE at'["far"] = at["far"] /\ at'["carrier"] = at["carrier"] /\ UNCHANGED crossing
<1>0. at = [h \in Hosts |-> at[h]]
  BY DEF PlacesInv
<1>1. CASE AtRegistry
  <2>1. PICK origin : at' = [at EXCEPT !["origin"] = origin] /\ UNCHANGED crossing
    BY <1>1, RegistrySteps DEF RegistryStep, Changed
  <2> QED BY <1>0, <2>1, OnePlace DEF Hosts
<1>2. CASE Transfers
  <2>1. PICK kind, place : TransferStep(kind, place)
    BY <1>2, TransferSteps
  <2>2. Target(kind) \in {"near", "mirror"}
    BY <2>1 DEF Target, TransferStep
  <2>3. at' = [at EXCEPT ![Target(kind)] = place] /\ UNCHANGED crossing
    BY <2>1 DEF TransferStep
  <2> QED BY <1>0, <2>2, <2>3, OnePlace DEF Hosts
<1>3. ASSUME NEW p \in Attachments, AttachInStore(p[1], p[2])
      PROVE at'["far"] = at["far"] /\ at'["carrier"] = at["carrier"] /\ UNCHANGED crossing
  BY <1>0, <1>3, OnePlace DEF AttachInStore, Hosts
<1>4. CASE Others
  BY <1>4 DEF Others
<1> QED BY <1>1, <1>2, <1>3, <1>4

LEMMA FarIsLeft ==
  ASSUME PlacesInv, [Next]_vars, ~Load
  PROVE at'["far"] = at["far"] /\ UNCHANGED <<trust, route, arrived, admitted, lacking>>
<1>0. at = [h \in Hosts |-> at[h]]
  BY DEF PlacesInv
<1>1. ASSUME NEW T, Save(T)
      PROVE at'["far"] = at["far"] /\ UNCHANGED <<trust, route, arrived, admitted, lacking>>
  BY <1>0, <1>1, OnePlace DEF Save, Hosts
<1>2. CASE Mishandle
  BY <1>0, <1>2, MishandleIs, OnePlace DEF Hosts
<1> QED BY <1>1, <1>2, CrossingIsLeft, StepsAre DEF crossing

LEMMA GateStep == PlacesInv /\ CrossingInv /\ GateInv /\ [Next]_vars => GateInv'
<1> SUFFICES ASSUME PlacesInv, CrossingInv, GateInv, [Next]_vars PROVE GateInv'
  OBVIOUS
<1>1. CASE Load
  <2>1. CASE route = <<"gated">> BY <1>1, <2>1, GateLoad
  <2>2. CASE route # <<"gated">> BY <1>1, <2>2, LoadIs DEF GateInv
  <2> QED BY <2>1, <2>2
<1>2. CASE ~Load
  BY <1>2, FarIsLeft DEF GateInv, Concerns
<1> QED BY <1>1, <1>2

\* Behind the gate every name is about a model that verified in its file, and
\* that verifies in the far store itself unless a load left behind what vouches
\* for it, a part of the file or content that has no name there
\* (bundleVerifier, internal/cli/airgap.go; Load, internal/transfer/saveload.go).
THEOREM GateHolds == Spec => []GatedImportVerifies
<1> DEFINE IInv == PlacesInv /\ CrossingInv /\ GateInv
<1>1. Init => IInv
  BY PlacesInit, CrossingInit, GateInit
<1>2. IInv /\ [Next]_vars => IInv'
  BY PlacesStep, CrossingStep, GateStep
<1>3. IInv => GatedImportVerifies
  BY DEF GateInv, GatedImportVerifies
<1> HIDE DEF IInv
<1> QED BY <1>1, <1>2, <1>3, PTL DEF Spec

-----------------------------------------------------------------------------
(* What is promised where the file is saved, and kept where it is loaded.  *)

LEMMA VerifiedIsHeld ==
  ASSUME NEW p, NEW m, NEW signers, KeysAreKeys(signers), VerifiedBy(p, m, signers) # None
  PROVE HoldsSignature(p, m)
<1>1. CASE Good(p, m, signers) # {}
  <2>1. PICK key : SignatureVerifies(p, m, key)
    BY <1>1 DEF Good
  <2> QED BY <2>1 DEF SignatureVerifies, HoldsSignature
<1>2. CASE Good(p, m, signers) = {}
  BY <1>2, AcceptedBy, KeylessNeedsIdentities DEF HoldsSignature
<1> QED BY <1>1, <1>2

\* What has to hold of a store for it to verify a model by itself.
LEMMA OfflineMeans ==
  ASSUME NEW store, NEW t, KeysAreKeys(trust[store.address])
  PROVE LET m == ModelAt(store, t)
            by == VerifiedBy(store, m, trust[store.address])
        IN VerifiesOffline(store, t) =>
             m # None /\ by # None /\ ~AttestationRefuses(store, m, by)
<1> DEFINE m == ModelAt(store, t)
           by == VerifiedBy(store, m, trust[store.address])
<1> SUFFICES ASSUME VerifiesOffline(store, t)
             PROVE m # None /\ by # None /\ ~AttestationRefuses(store, m, by)
  OBVIOUS
<1>1. VerifySources(store, {}, t) = {store}
  BY DEF VerifiesOffline, VerifyAccepts, VerifySources
<1> QED BY <1>1 DEF VerifiesOffline, VerifyAccepts

LEMMA OfflineSuffices ==
  ASSUME NEW store, NEW t, KeysAreKeys(trust[store.address]),
         ModelAt(store, t) # None,
         VerifiedBy(store, ModelAt(store, t), trust[store.address]) # None,
         ~AttestationRefuses(store, ModelAt(store, t),
            VerifiedBy(store, ModelAt(store, t), trust[store.address]))
  PROVE VerifiesOffline(store, t)
<1>1. VerifySources(store, {}, t) = {store}
  BY VerifiedIsHeld DEF VerifySources
<1> QED BY <1>1 DEF VerifiesOffline, VerifyAccepts

LEMMA NoAttestation ==
  ASSUME NEW p, NEW m, ~Names(p, AttName(m)),
         \A c \in Held(p) : c.of = m => c.is # "att"
  PROVE Attestations(p, m) = {}
  BY DEF Attestations, Referrers

LEMMA NamedAttestation ==
  ASSUME NEW p, NEW q, NEW m, Names(p, AttName(m)), Names(q, AttName(m)),
         p.names[AttName(m)] = q.names[AttName(m)]
  PROVE Attestations(p, m) = Attestations(q, m)
  BY DEF Attestations

\* Two places that are alike for a model give the same verdict on it.
Alike(p, q, m) ==
  /\ Names(p, SigName(m)) <=> Names(q, SigName(m))
  /\ Names(p, SigName(m)) => p.names[SigName(m)] = q.names[SigName(m)]
  /\ Names(p, AttName(m)) <=> Names(q, AttName(m))
  /\ Names(p, AttName(m)) => p.names[AttName(m)] = q.names[AttName(m)]
  /\ p.address = q.address

\* Nothing about a model but what has its own name.
Plain(p, m) ==
  /\ ~Names(p, SigName(m)) => \A c \in Held(p) : c.of = m => c.layers = {}
  /\ ~Names(p, AttName(m)) => \A c \in Held(p) : c.of = m => c.is # "att"

LEMMA VerdictTravels ==
  ASSUME NEW p, NEW q, NEW m, NEW signers, KeysAreKeys(signers),
         Alike(p, q, m), Plain(p, m), Plain(q, m),
         BundleReferrers(p, m) \subseteq Held(q), q.lists,
         VerifiedBy(p, m, signers) # None
  PROVE /\ VerifiedBy(q, m, signers) = VerifiedBy(p, m, signers)
        /\ \A by : AttestationRefuses(q, m, by) <=> AttestationRefuses(p, m, by)
<1>1. Good(p, m, signers) = Good(q, m, signers)
  <2>1. CASE Names(p, SigName(m))
    BY <2>1, SameSignatureSameGood DEF Alike
  <2>2. CASE ~Names(p, SigName(m))
    BY <2>2, NothingGood DEF Alike, Plain
  <2> QED BY <2>1, <2>2
<1>2. VerifiedBy(q, m, signers) = VerifiedBy(p, m, signers)
  <2>1. CASE Good(p, m, signers) # {}
    BY <1>1, <2>1, AcceptedBy
  <2>2. CASE Good(p, m, signers) = {}
    BY <1>1, <2>2, AcceptedBy, KeylessTravels
  <2> QED BY <2>1, <2>2
<1>3. Attestations(p, m) = Attestations(q, m)
  <2>1. CASE Names(p, AttName(m))
    BY <2>1, NamedAttestation DEF Alike
  <2>2. CASE ~Names(p, AttName(m))
    BY <2>2, NoAttestation DEF Alike, Plain
  <2> QED BY <2>1, <2>2
<1> QED BY <1>2, <1>3, SameAttestationsSameRefusal

LEMMA SealedIsPlain == ASSUME NEW file, Sealed(file), NEW m PROVE Plain(file, m)
<1>1. ASSUME NEW c \in Held(file)
      PROVE /\ c.layers # {} => SigName(c.of) \in DOMAIN file.names
            /\ c.is = "att" => AttName(c.of) \in DOMAIN file.names
  <2>1. PICK n \in DOMAIN file.names : c = file.names[n]
    BY DEF Sealed, Held, Named
  <2> QED BY <2>1 DEF Sealed
<1> QED BY <1>1 DEF Plain, Names

LEMMA StoreIsPlain == ASSUME NEW p, Orderly(p), Tidy(p), NEW m PROVE Plain(p, m)
  BY DEF Plain, Orderly, Tidy, Names

LEMMA PromiseInit == Init => PromiseInv
  BY DEF Init, PromiseInv

LEMMA PromiseStays ==
  ASSUME PromiseInv, at'["carrier"] = at["carrier"], at'["far"] = at["far"], UNCHANGED crossing
  PROVE PromiseInv'
  BY DEF PromiseInv, Vouched, VerifiesOffline, crossing

LEMMA PromiseSave ==
  ASSUME PlacesInv, CrossingInv, PromiseInv, NEW T, Save(T) PROVE PromiseInv'
<1> DEFINE near == at["near"]
           far == at["far"]
           file == Saved(near, T)
           signers == trust["origin"]
<1>1. /\ \A t \in T : Names(near, TagName(t))
      /\ at' = [at EXCEPT !["carrier"] = file]
      /\ promised' \subseteq {t \in T : VerifiesOffline(near, t)}
      /\ trust' = trust /\ arrived' = arrived
  BY DEF Save
<1>2. at'["carrier"] = file /\ at'["far"] = far
  BY <1>1, OnePlace DEF PlacesInv, Hosts
<1>3. /\ KeysAreKeys(signers) /\ near.address = "origin"
      /\ Orderly(near) /\ Tidy(near) /\ ComesFrom(far, near)
  BY TrustHasKeys DEF PlacesInv, CrossingInv, Hosts
<1>4. Sealed(file) /\ OnlyNamed(file) = file
  BY <1>3, SavedIsSealed, SavedHolds
<1>5. ASSUME NEW t \in T
      PROVE LET m == ModelAt(near, t)
            IN /\ TagName(t) \in DOMAIN near.names => file.names[TagName(t)] = near.names[TagName(t)]
               /\ TagName(t) \in DOMAIN file.names <=> TagName(t) \in DOMAIN near.names
               /\ Alike(near, file, m)
               /\ BundleReferrers(near, m) \subseteq Held(file) /\ file.lists
  BY <1>3, SavedModel DEF Alike, Names
<1> HIDE DEF file
<1>6. ASSUME NEW t \in promised' PROVE Vouched(t)'
  <2> DEFINE m == ModelAt(near, t)
             by == VerifiedBy(near, m, signers)
  <2>1. t \in T /\ TagName(t) \in DOMAIN near.names /\ VerifiesOffline(near, t)
    BY <1>1 DEF Names
  <2>2. m # None /\ by # None /\ ~AttestationRefuses(near, m, by)
    BY <1>3, <2>1, OfflineMeans
  <2>3. TagName(t) \in DOMAIN file.names /\ Digest(file.names[TagName(t)]) = m
    BY <1>5, <2>1 DEF ModelAt, Names
  <2>4. Alike(near, file, m) /\ BundleReferrers(near, m) \subseteq Held(file) /\ file.lists
    BY <1>5, <2>1
  <2> HIDE DEF m
  <2>5. /\ VerifiedBy(file, m, signers) = by
        /\ AttestationRefuses(file, m, by) <=> AttestationRefuses(near, m, by)
    <3>1. Plain(near, m) /\ Plain(file, m)
      BY <1>3, <1>4, SealedIsPlain, StoreIsPlain
    <3> QED BY <1>3, <2>2, <2>4, <3>1, VerdictTravels
  <2>6. \A c \in Held(far) :
          c.of = m => /\ c.layers # {} => SigName(m) \in DOMAIN file.names
                      /\ c.is = "att" => AttName(m) \in DOMAIN file.names
    BY <1>3, <2>4 DEF ComesFrom, Alike, Names
  <2>7. AttName(m) \in DOMAIN far.names => AttName(m) \in DOMAIN file.names
    BY <1>3, <2>4 DEF ComesFrom, Alike, Names
  <2> HIDE DEF by
  <2> QED BY <1>1, <1>2, <1>4, <2>2, <2>3, <2>5, <2>6, <2>7 DEF Vouched
<1>7. ASSUME NEW t \in arrived' PROVE VerifiesOffline(at["far"], t)'
  BY <1>1, <1>2 DEF PromiseInv, VerifiesOffline
<1> QED BY <1>6, <1>7 DEF PromiseInv

LEMMA PromiseLoad ==
  ASSUME PlacesInv, CrossingInv, PromiseInv, Load PROVE PromiseInv'
<1> DEFINE file == OnlyNamed(at["carrier"])
           far == at["far"]
           signers == trust["origin"]
<1>1. PICK names \in SUBSET DOMAIN file.names :
        /\ at' = [at EXCEPT !["far"] = Imported(far, file, names)]
        /\ promised' = promised /\ trust' = trust
        /\ \/ names = DOMAIN file.names /\ arrived' = promised
           \/ arrived' = {}
  BY LoadIs
<1> DEFINE q == Imported(far, file, names)
<1>2. at'["far"] = q /\ at'["carrier"] = at["carrier"]
  BY <1>1, OnePlace DEF PlacesInv, Hosts
<1>3. /\ DOMAIN q.names = names \cup DOMAIN far.names
      /\ \A n \in names : q.names[n] = file.names[n]
      /\ \A n \in DOMAIN far.names \ names : q.names[n] = far.names[n]
      /\ Held(q) = Held(far) \cup {file.names[n] : n \in names}
      /\ Grows(far, q)
  BY ImportedKeeps
<1>4. /\ KeysAreKeys(signers) /\ Sealed(file)
      /\ file.address = "origin" /\ far.address = "origin" /\ far.lists
  BY TrustHasKeys, OnlyNamedIs DEF PlacesInv, CrossingInv, Hosts
<1> HIDE DEF q
<1>5. ASSUME NEW c \in Held(q), NEW m, c.of = m, c \notin Held(far)
      PROVE /\ c.layers # {} => SigName(m) \in DOMAIN file.names
            /\ c.is = "att" => AttName(m) \in DOMAIN file.names
  <2>1. PICK n \in names : c = file.names[n]
    BY <1>3, <1>5
  <2> QED BY <1>4, <1>5, <2>1 DEF Sealed
<1>6. ASSUME NEW t \in promised PROVE Vouched(t)'
  <2> DEFINE m == Digest(file.names[TagName(t)])
  <2>1. Vouched(t)
    BY DEF PromiseInv
  <2>2. \A c \in Held(q) :
          c.of = m => /\ c.layers # {} => SigName(m) \in DOMAIN file.names
                      /\ c.is = "att" => AttName(m) \in DOMAIN file.names
    BY <1>5, <2>1 DEF Vouched
  <2>3. AttName(m) \in DOMAIN q.names => AttName(m) \in DOMAIN file.names
    BY <1>3, <2>1 DEF Vouched
  <2> QED BY <1>1, <1>2, <2>1, <2>2, <2>3 DEF Vouched
<1>7. ASSUME names = DOMAIN file.names, NEW t \in promised PROVE VerifiesOffline(q, t)
  <2> DEFINE m == Digest(file.names[TagName(t)])
             by == VerifiedBy(file, m, signers)
  <2>1. /\ TagName(t) \in DOMAIN file.names
        /\ m # None /\ by # None /\ ~AttestationRefuses(file, m, by)
        /\ \A c \in Held(far) :
             c.of = m => /\ c.layers # {} => SigName(m) \in DOMAIN file.names
                         /\ c.is = "att" => AttName(m) \in DOMAIN file.names
        /\ AttName(m) \in DOMAIN far.names => AttName(m) \in DOMAIN file.names
    BY DEF PromiseInv, Vouched
  <2>2. ModelAt(q, t) = m
    BY <1>3, <1>7, <2>1 DEF ModelAt, Names
  <2> HIDE DEF m
  <2>3. ASSUME NEW c \in Held(q), c.of = m
        PROVE /\ c.layers # {} => SigName(m) \in DOMAIN file.names
              /\ c.is = "att" => AttName(m) \in DOMAIN file.names
    BY <1>5, <2>1, <2>3
  <2>4. KeysAreKeys(signers) /\ q.address = "origin" /\ q.lists
    BY <1>3, <1>4 DEF Grows
  <2>5. CASE SigName(m) \in DOMAIN q.names \ DOMAIN file.names
    \* An empty signature is in the way of none.
    <3>1. q.names[SigName(m)] = far.names[SigName(m)] /\ SigName(m) \in DOMAIN far.names
      BY <1>3, <1>7, <2>5
    <3>2. q.names[SigName(m)].layers = {}
      <4>1. far.names[SigName(m)] \in Held(far)
        BY <3>1 DEF Held, Named
      <4>2. far.names[SigName(m)].layers # {} => far.names[SigName(m)].of = m
        BY <3>1 DEF CrossingInv, SigName
      <4> QED BY <2>1, <2>5, <3>1, <4>1, <4>2
    <3>3. Good(q, m, signers) = {}
      BY <2>5, <3>2, NothingGood DEF Names
    <3>4. Good(file, m, signers) = {}
      BY <1>4, <2>5, SealedSignature DEF Names
    <3>5. signers.identities # {} /\ KeylessVerifies(file, m, signers) /\ by = "keyless"
      BY <1>4, <2>1, <3>4, AcceptedBy
    <3>6. KeylessVerifies(q, m, signers)
      <4>1. BundleReferrers(file, m) \subseteq Held(q)
        BY <1>3, <1>4, <1>7, BundlesAreHeld DEF Sealed, Held, Named
      <4> QED BY <2>4, <3>5, <4>1, KeylessTravels
    <3>7. VerifiedBy(q, m, signers) = "keyless"
      BY <2>4, <3>3, <3>5, <3>6, AcceptedBy
    <3>8. ~AttestationRefuses(q, m, "keyless")
      BY DEF AttestationRefuses
    <3> QED BY <2>1, <2>2, <2>4, <3>7, <3>8, TravelAssumption, OfflineSuffices
  <2>6. CASE SigName(m) \notin DOMAIN q.names \ DOMAIN file.names
    <3>1. Alike(file, q, m)
      BY <1>3, <1>4, <1>7, <2>1, <2>4, <2>6 DEF Alike, Names
    <3>2. Plain(file, m) /\ Plain(q, m)
      BY <1>3, <1>4, <1>7, <2>3, SealedIsPlain DEF Plain, Names
    <3>3. BundleReferrers(file, m) \subseteq Held(q)
      BY <1>3, <1>4, <1>7, BundlesAreHeld DEF Sealed, Held, Named
    <3>4. /\ VerifiedBy(q, m, signers) = by
          /\ AttestationRefuses(q, m, by) <=> AttestationRefuses(file, m, by)
      BY <2>1, <2>4, <3>1, <3>2, <3>3, VerdictTravels
    <3> QED BY <2>1, <2>2, <2>4, <3>4, OfflineSuffices
  <2> QED BY <2>5, <2>6
<1>8. ASSUME NEW t \in arrived' PROVE VerifiesOffline(at["far"], t)'
  <2>1. VerifiesOffline(q, t)
    BY <1>1, <1>7
  <2> QED BY <1>1, <1>2, <2>1 DEF VerifiesOffline
<1> QED BY <1>1, <1>6, <1>8 DEF PromiseInv

LEMMA PromiseStep == PlacesInv /\ CrossingInv /\ PromiseInv /\ [Next]_vars => PromiseInv'
<1> SUFFICES ASSUME PlacesInv, CrossingInv, PromiseInv, [Next]_vars PROVE PromiseInv'
  OBVIOUS
<1>1. CASE \/ AtRegistry \/ Transfers \/ Others
           \/ \E p \in Attachments : AttachInStore(p[1], p[2])
  BY <1>1, CrossingIsLeft, PromiseStays
<1>2. ASSUME NEW T, Save(T) PROVE PromiseInv'
  BY <1>2, PromiseSave
<1>3. CASE Mishandle
  <2>1. at'["far"] = at["far"] /\ promised' = {} /\ UNCHANGED <<arrived, trust>>
    BY <1>3, MishandleIs, OnePlace DEF PlacesInv, Hosts
  <2> QED BY <2>1 DEF PromiseInv, VerifiesOffline
<1>4. CASE Load
  BY <1>4, PromiseLoad
<1> QED BY <1>1, <1>2, <1>3, <1>4, StepsAre

-----------------------------------------------------------------------------
(* What a transfer brings.                                                 *)

\* With no key's signature there is nothing an attestation is held to.
LEMMA NoKeyNoRefusal ==
  ASSUME NEW p, NEW m, NEW signers, KeysAreKeys(signers), Good(p, m, signers) = {}
  PROVE ~AttestationRefuses(p, m, VerifiedBy(p, m, signers))
<1>1. VerifiedBy(p, m, signers) \in {"keyless", None}
  BY AcceptedBy
<1> HIDE DEF VerifiedBy
<1> QED BY <1>1 DEF AttestationRefuses

\* A place that gets nothing new by the model's own names refuses no more.
LEMMA RefusalStays ==
  ASSUME NEW p, NEW q, NEW m, NEW signers, KeysAreKeys(signers),
         Plain(p, m), Plain(q, m), Alike(p, q, m),
         ~AttestationRefuses(p, m, VerifiedBy(p, m, signers))
  PROVE ~AttestationRefuses(q, m, VerifiedBy(q, m, signers))
<1>1. CASE Good(q, m, signers) = {}
  BY <1>1, NoKeyNoRefusal
<1>2. CASE Good(q, m, signers) # {}
  <2>1. Names(q, SigName(m))
    BY <1>2, NothingGood DEF Plain
  <2>2. Good(p, m, signers) = Good(q, m, signers)
    BY <2>1, SameSignatureSameGood DEF Alike
  <2>3. VerifiedBy(p, m, signers) = VerifiedBy(q, m, signers)
    BY <1>2, <2>2, AcceptedBy
  <2>4. Attestations(p, m) = Attestations(q, m)
    <3>1. CASE Names(p, AttName(m))
      BY <3>1, NamedAttestation DEF Alike
    <3>2. CASE ~Names(p, AttName(m))
      BY <3>2, NoAttestation DEF Alike, Plain
    <3> QED BY <3>1, <3>2
  <2> QED BY <2>3, <2>4, SameAttestationsSameRefusal
<1> QED BY <1>1, <1>2

LEMMA JobInit == Init => JobInv
  BY DEF Init, JobInv, Nowhere

\* The near store and the mirror have nothing of a model but by its names.
LEMMA NearIsPlain ==
  ASSUME PlacesInv, NEW m PROVE Plain(at["near"], m) /\ Plain(at["mirror"], m)
  BY StoreIsPlain DEF PlacesInv

LEMMA JobStays ==
  ASSUME JobInv, at'["origin"] = at["origin"], at'["near"] = at["near"],
         at'["mirror"] = at["mirror"], UNCHANGED <<job, sure, trust>>
  PROVE JobInv'
<1>1. job.step # "idle" => Target(job.kind) \in {"near", "mirror"}
  BY DEF Target
<1>2. PullKept' <=> PullKept
  BY DEF PullKept
<1>3. SoundAt(at["origin"], job.model, job.kind)' <=> SoundAt(at["origin"], job.model, job.kind)
  BY DEF SoundAt
<1> QED BY <1>1, <1>2, <1>3 DEF JobInv

LEMMA JobRegistry ==
  ASSUME PlacesInv, JobInv, NEW origin, RegistryStep(origin) PROVE JobInv'
<1> DEFINE old == at["origin"]
           near == at["near"]
           m == job.model
           signers == trust["origin"]
<1>1. /\ at'["origin"] = origin /\ at'["near"] = near /\ at'["mirror"] = at["mirror"]
      /\ UNCHANGED <<job, trust>>
  BY OnePlace DEF RegistryStep, Changed, PlacesInv, Hosts, crossing
<1>2. sure' => /\ sure /\ SoundAt(origin, m, job.kind)
               /\ job.step # "signature" /\ Names(old, SigName(m)) =>
                    origin.names[SigName(m)] = old.names[SigName(m)]
  BY DEF RegistryStep, Changed
<1>3. Grows(old, origin) /\ Within(near, old)
  BY DEF RegistryStep, PlacesInv
<1>4. ASSUME sure', PullKept PROVE PullKept'
  <2>1. ASSUME job.step \in {"attestation", "bundles", "done"}
        PROVE IF Names(near, SigName(m))
              THEN near.names[SigName(m)] = origin.names[SigName(m)]
              ELSE signers.identities # {} /\ KeylessVerifies(origin, m, signers)
    <3>1. CASE Names(near, SigName(m))
      BY <1>2, <1>3, <1>4, <2>1, <3>1 DEF PullKept, Within, Names
    <3>2. CASE ~Names(near, SigName(m))
      <4>1. signers.identities # {} /\ KeylessVerifies(old, m, signers)
        BY <1>4, <2>1, <3>2 DEF PullKept
      <4>2. KeylessVerifies(origin, m, signers)
        BY <1>3, <4>1, KeylessTravels, BundlesAreHeld, KeylessNeedsIdentities DEF Grows
      <4> QED BY <3>2, <4>1, <4>2
    <3> QED BY <3>1, <3>2
  <2> QED BY <1>1, <1>4, <2>1 DEF PullKept
<1>5. SoundAt(at["origin"], job.model, job.kind)' <=> SoundAt(origin, m, job.kind)
  BY <1>1 DEF SoundAt
<1>6. job.step # "idle" => Target(job.kind) \in {"near", "mirror"}
  BY DEF Target
<1> QED BY <1>1, <1>2, <1>4, <1>5, <1>6 DEF JobInv

LEMMA JobStart ==
  ASSUME PlacesInv, NEW kind \in {"pull", "copy"}, NEW t, Start(kind, t) PROVE JobInv'
<1> DEFINE m == ModelAt(at["origin"], t)
           h == Target(kind)
           place == Name(at[h], TagName(t), ModelContent(m))
<1>1. /\ m # None
      /\ at' = [at EXCEPT ![h] = place]
      /\ job' = [kind |-> kind, step |-> "signature", tag |-> t, model |-> m, clean |-> TRUE]
      /\ sure' = SoundAt(at["origin"], m, kind)
      /\ trust' = trust
  BY DEF Start, crossing
<1>2. h \in Hosts /\ h # "origin"
  BY DEF Target, Hosts
<1>3. at'[h] = place /\ at'["origin"] = at["origin"]
  BY <1>1, <1>2, OnePlace DEF PlacesInv, Hosts
<1> HIDE DEF m
<1>4. TagName(t) \in DOMAIN place.names /\ Digest(place.names[TagName(t)]) = m
  BY NameKeeps DEF Digest, ModelContent, Content
<1> HIDE DEF place
<1>5. SoundAt(at["origin"], job.model, job.kind)' <=> SoundAt(at["origin"], m, kind)
  BY <1>1, <1>3 DEF SoundAt
<1> QED BY <1>1, <1>3, <1>4, <1>5 DEF JobInv, PullKept

\* A step of a transfer keeps what the job is for.
LEMMA JobCarries ==
  ASSUME PlacesInv, JobInv, job.step # "idle", NEW place,
         at' = [at EXCEPT ![Target(job.kind)] = place],
         job'.kind = job.kind, job'.tag = job.tag, job'.model = job.model,
         job'.step # "idle", UNCHANGED <<sure, trust>>,
         TagName(job.tag) \in DOMAIN at[Target(job.kind)].names =>
           /\ TagName(job.tag) \in DOMAIN place.names
           /\ place.names[TagName(job.tag)] = at[Target(job.kind)].names[TagName(job.tag)],
         sure /\ job'.clean /\ job.kind = "pull" => PullKept',
         sure /\ job'.clean /\ job.kind = "copy" /\ job'.step = "done" =>
           KeylessVerifies(place, job.model, trust["mirror"])
  PROVE JobInv'
<1> DEFINE h == Target(job.kind)
<1>1. h \in Hosts /\ h # "origin" /\ (job.kind = "copy" => h = "mirror")
  BY DEF Target, Hosts
<1>2. at'[h] = place /\ at'["origin"] = at["origin"]
  BY <1>1, OnePlace DEF PlacesInv, Hosts
<1>3. SoundAt(at["origin"], job.model, job.kind)' <=> SoundAt(at["origin"], job.model, job.kind)
  BY <1>2 DEF SoundAt
<1>4. Target(job.kind)' = h
  BY DEF Target
<1>5. job.model # None /\ TagName(job.tag) \in DOMAIN place.names
        /\ Digest(place.names[TagName(job.tag)]) = job.model
  BY DEF JobInv
<1> HIDE DEF h
<1>6. sure' => job'.step # "idle" /\ SoundAt(at["origin"], job.model, job.kind)'
  BY <1>3 DEF JobInv
<1>7. at'[Target(job.kind)'] = place
  BY <1>2, <1>4
<1>8. job'.kind = "copy" => at'["mirror"] = place
  BY <1>1, <1>2
<1> QED BY <1>5, <1>6, <1>7, <1>8 DEF JobInv

LEMMA NamesDiffer ==
  ASSUME NEW m, NEW t
  PROVE TagName(t) # SigName(m) /\ TagName(t) # AttName(m) /\ SigName(m) # AttName(m)
          /\ TagName(t)[1] # "bundle" /\ SigName(m)[1] # "bundle" /\ AttName(m)[1] # "bundle"
  BY DEF TagName, SigName, AttName

LEMMA JobCarrySignature ==
  ASSUME PlacesInv, JobInv, CarrySignature PROVE JobInv'
<1> DEFINE m == job.model
           name == SigName(m)
           origin == at["origin"]
           old == at[Target(job.kind)]
           place == IF Names(origin, name) THEN Name(old, name, origin.names[name]) ELSE old
<1>1. /\ job.step = "signature" /\ job' = [job EXCEPT !.step = "attestation"]
      /\ at' = [at EXCEPT ![Target(job.kind)] = place]
      /\ UNCHANGED <<sure, trust>>
  BY DEF CarrySignature, CarryNamed, Goto, crossing
<1>2. /\ job'.kind = job.kind /\ job'.tag = job.tag /\ job'.model = m
      /\ job'.step = "attestation" /\ job'.clean = job.clean
  BY <1>1 DEF PlacesInv
<1>3. TagName(job.tag) \in DOMAIN old.names =>
        /\ TagName(job.tag) \in DOMAIN place.names
        /\ place.names[TagName(job.tag)] = old.names[TagName(job.tag)]
  <2>1. CASE Names(origin, name)
    <3>1. TagName(job.tag) # name
      BY NamesDiffer
    <3> HIDE DEF old, name
    <3> QED BY <2>1, <3>1, NameKeeps
  <2>2. CASE ~Names(origin, name) BY <2>2
  <2> QED BY <2>1, <2>2
<1>4. ASSUME sure, job.kind = "pull" PROVE PullKept'
  <2>1. at'["near"] = place /\ at'["origin"] = origin /\ old = at["near"]
    BY <1>1, <1>4, OnePlace DEF Target, PlacesInv, Hosts
  <2>2. IF Names(place, name) THEN place.names[name] = origin.names[name]
        ELSE trust["origin"].identities # {} /\ KeylessVerifies(origin, m, trust["origin"])
    <3>1. CASE Names(origin, name)
      <4>1. place = Name(old, name, origin.names[name])
        BY <3>1
      <4> HIDE DEF place, name, old, origin
      <4> QED BY <4>1, NameKeeps DEF Names
    <3>2. CASE ~Names(origin, name)
      <4>1. place = at["near"] /\ ~Names(place, name)
        BY <2>1, <3>2 DEF PlacesInv, Within, Names
      <4>2. Portable(origin, m, trust["origin"])
        BY <1>4 DEF JobInv, SoundAt
      <4> QED BY <3>2, <4>1, <4>2 DEF Portable
    <3> QED BY <3>1, <3>2
  <2> HIDE DEF place, origin, old
  <2> QED BY <1>1, <1>2, <2>1, <2>2 DEF PullKept
<1> HIDE DEF place, m
<1> QED BY <1>1, <1>2, <1>3, <1>4, JobCarries DEF m

\* The registry's own verdict holds of what was brought of it.
LEMMA AsAtTheRegistry ==
  ASSUME NEW place, NEW origin, NEW m, NEW signers, KeysAreKeys(signers),
         Orderly(place), Tidy(place), Within(place, origin), Orderly(origin),
         place.address = origin.address,
         Names(place, SigName(m)) => place.names[SigName(m)] = origin.names[SigName(m)],
         Names(origin, AttName(m)) =>
           /\ Names(place, AttName(m))
           /\ place.names[AttName(m)] = origin.names[AttName(m)],
         ~AttestationRefuses(origin, m, VerifiedBy(origin, m, signers))
  PROVE ~AttestationRefuses(place, m, VerifiedBy(place, m, signers))
<1>0. Plain(place, m)
  BY StoreIsPlain
<1>1. CASE Good(place, m, signers) = {}
  BY <1>1, NoKeyNoRefusal
<1>2. CASE Good(place, m, signers) # {}
  <2>1. Names(place, SigName(m))
    BY <1>0, <1>2, NothingGood DEF Plain
  <2>2. Names(origin, SigName(m))
    BY <2>1 DEF Within, Names
  <2>3. Good(place, m, signers) = Good(origin, m, signers)
    BY <2>1, <2>2, SameSignatureSameGood
  <2>4. VerifiedBy(place, m, signers) = VerifiedBy(origin, m, signers)
    BY <1>2, <2>3, AcceptedBy
  <2>5. Attestations(place, m) = Attestations(origin, m)
    <3>1. CASE Names(origin, AttName(m))
      BY <3>1, NamedAttestation
    <3>2. CASE ~Names(origin, AttName(m))
      <4>1. ~Names(place, AttName(m))
        BY <3>2 DEF Within, Names
      <4>2. \A c \in Held(origin) : c.of = m => c.is # "att"
        BY <3>2 DEF Orderly, Names
      <4> QED BY <1>0, <3>2, <4>1, <4>2, NoAttestation DEF Plain
    <3> QED BY <3>1, <3>2
  <2> QED BY <2>4, <2>5, SameAttestationsSameRefusal
<1> QED BY <1>1, <1>2

LEMMA JobCarryAttestation ==
  ASSUME PlacesInv, JobInv, PlacesInv', CarryAttestation PROVE JobInv'
<1> DEFINE m == job.model
           name == AttName(m)
           origin == at["origin"]
           old == at[Target(job.kind)]
           place == IF Names(origin, name) THEN Name(old, name, origin.names[name]) ELSE old
<1>1. /\ job.step = "attestation" /\ job' = [job EXCEPT !.step = "bundles"]
      /\ at' = [at EXCEPT ![Target(job.kind)] = place]
      /\ UNCHANGED <<sure, trust>>
  BY DEF CarryAttestation, CarryNamed, Goto, crossing
<1>2. /\ job'.kind = job.kind /\ job'.tag = job.tag /\ job'.model = m
      /\ job'.step = "bundles" /\ job'.clean = job.clean
  BY <1>1 DEF PlacesInv
<1>3. \A n \in DOMAIN old.names \ {name} : n \in DOMAIN place.names /\ place.names[n] = old.names[n]
  <2>1. CASE Names(origin, name)
    <3> HIDE DEF old, name
    <3> QED BY <2>1, NameKeeps
  <2>2. CASE ~Names(origin, name) BY <2>2
  <2> QED BY <2>1, <2>2
<1>4. TagName(job.tag) # name /\ SigName(m) # name
  BY NamesDiffer
<1>5. DOMAIN place.names \subseteq DOMAIN old.names \cup {name}
  <2>1. CASE Names(origin, name)
    <3> HIDE DEF old, name
    <3> QED BY <2>1, NameKeeps
  <2>2. CASE ~Names(origin, name) BY <2>2
  <2> QED BY <2>1, <2>2
<1>6. Names(origin, name) => Names(place, name) /\ place.names[name] = origin.names[name]
  <2> HIDE DEF old, name
  <2> QED BY NameKeeps DEF Names
<1> HIDE DEF place, name
<1>7. ASSUME sure, job.clean, job.kind = "pull" PROVE PullKept'
  <2> DEFINE signers == trust["origin"]
  <2>1. at'["near"] = place /\ at'["origin"] = origin /\ old = at["near"]
    BY <1>1, <1>7, OnePlace DEF Target, PlacesInv, Hosts
  <2>2. IF Names(place, SigName(m)) THEN place.names[SigName(m)] = origin.names[SigName(m)]
        ELSE signers.identities # {} /\ KeylessVerifies(origin, m, signers)
    <3>1. IF Names(old, SigName(m)) THEN old.names[SigName(m)] = origin.names[SigName(m)]
          ELSE signers.identities # {} /\ KeylessVerifies(origin, m, signers)
      BY <1>1, <1>7, <2>1 DEF JobInv, PullKept
    <3>2. Names(old, SigName(m)) <=> Names(place, SigName(m))
      BY <1>3, <1>4, <1>5 DEF Names
    <3> QED BY <1>3, <1>4, <3>1, <3>2 DEF Names
  <2>3. ~AttestationRefuses(origin, m, VerifiedBy(origin, m, signers))
    BY <1>7 DEF JobInv, SoundAt
  <2>4. /\ Orderly(place) /\ Tidy(place) /\ Within(place, origin) /\ Orderly(origin)
        /\ place.address = origin.address
    BY <2>1 DEF PlacesInv, Hosts
  <2> HIDE DEF origin
  <2>5. ~AttestationRefuses(place, m, VerifiedBy(place, m, signers))
    BY <1>6, <2>2, <2>3, <2>4, TrustHasKeys, AsAtTheRegistry DEF name
  <2> HIDE DEF m
  <2> QED BY <1>1, <1>2, <2>1, <2>2, <2>5 DEF PullKept
<1>8. TagName(job.tag) \in DOMAIN old.names =>
        /\ TagName(job.tag) \in DOMAIN place.names
        /\ place.names[TagName(job.tag)] = old.names[TagName(job.tag)]
  BY <1>3, <1>4
<1> HIDE DEF m
<1> QED BY <1>1, <1>2, <1>7, <1>8, JobCarries DEF m

LEMMA JobCarryBundles ==
  ASSUME PlacesInv, JobInv, CarryBundles PROVE JobInv'
<1> DEFINE m == job.model
           origin == at["origin"]
           old == at[Target(job.kind)]
           bundles == BundleReferrers(origin, m)
           place == WithBundles(job.kind, old, bundles)
<1>1. /\ job.step = "bundles" /\ job' = [job EXCEPT !.step = "done"]
      /\ at' = [at EXCEPT ![Target(job.kind)] = place]
      /\ UNCHANGED <<sure, trust>>
  BY DEF CarryBundles, Goto, crossing
<1>2. /\ job'.kind = job.kind /\ job'.tag = job.tag /\ job'.model = m
      /\ job'.step = "done" /\ job'.clean = job.clean
  BY <1>1 DEF PlacesInv
<1>3. /\ Target(job.kind) \in {"near", "mirror"} /\ Target(job.kind) \in Hosts
      /\ old.lists = TRUE
  BY DEF Target, Hosts, PlacesInv
<1>4. Orderly(old) /\ Tidy(old) /\ Within(old, origin) /\ Orderly(origin)
  BY <1>3 DEF PlacesInv
<1> HIDE DEF old
<1>5. /\ Grows(old, place) /\ Orderly(place) /\ Tidy(place) /\ Within(place, origin)
      /\ bundles \subseteq Held(place)
      /\ SameButBundles(old, place)
  <2>1. bundles \subseteq BundleReferrers(origin, m)
    OBVIOUS
  <2> HIDE DEF bundles, origin, m
  <2>2. Held(place) = Held(old) \cup bundles
    BY <1>4, <2>1, BundlesBrought
  <2> QED BY <1>4, <2>1, <2>2, BundlesBrought
<1> HIDE DEF place
<1>6. place.lists = TRUE /\ place.address = old.address
  BY <1>3, <1>5 DEF Grows
<1>7. ASSUME NEW signers, KeylessVerifies(origin, m, signers)
      PROVE KeylessVerifies(place, m, signers)
  BY <1>5, <1>6, <1>7, KeylessTravels
<1>8. ASSUME sure, job.clean, job.kind = "pull" PROVE PullKept'
  <2> DEFINE signers == trust["origin"]
  <2>1. at'["near"] = place /\ at'["origin"] = origin /\ old = at["near"]
    BY <1>1, <1>8, OnePlace DEF Target, PlacesInv, Hosts, old
  <2>2. Alike(old, place, m)
    BY <1>5, <1>6, NamesDiffer DEF SameButBundles, Alike, Names
  <2>3. IF Names(place, SigName(m)) THEN place.names[SigName(m)] = origin.names[SigName(m)]
        ELSE signers.identities # {} /\ KeylessVerifies(origin, m, signers)
    BY <1>1, <1>8, <2>1, <2>2 DEF JobInv, PullKept, Alike
  <2>4. ~AttestationRefuses(place, m, VerifiedBy(place, m, signers))
    <3>1. ~AttestationRefuses(old, m, VerifiedBy(old, m, signers))
      BY <1>1, <1>8, <2>1 DEF JobInv, PullKept
    <3> QED BY <1>4, <1>5, <2>2, <3>1, StoreIsPlain, RefusalStays, TrustHasKeys
  <2>5. VerifiedBy(place, m, signers) # None
    <3>1. CASE Good(place, m, signers) # {}
      BY <3>1, AcceptedBy, TrustHasKeys
    <3>2. CASE Good(place, m, signers) = {}
      <4>1. signers.identities # {} /\ KeylessVerifies(origin, m, signers)
        <5>1. CASE Names(place, SigName(m))
          <6>1. Names(origin, SigName(m)) /\ place.address = origin.address
            BY <1>5, <1>6, <2>1, <5>1 DEF Within, Names, PlacesInv, Hosts
          <6>2. Good(origin, m, signers) = {}
            BY <2>3, <3>2, <5>1, <6>1, SameSignatureSameGood
          <6>3. Portable(origin, m, signers)
            BY <1>8 DEF JobInv, SoundAt
          <6> QED BY <6>2, <6>3, AcceptedBy, TrustHasKeys DEF Portable
        <5>2. CASE ~Names(place, SigName(m)) BY <2>3, <5>2
        <5> QED BY <5>1, <5>2
      <4>2. VerifiedBy(place, m, signers) = "keyless"
        BY <1>7, <3>2, <4>1, AcceptedBy, TrustHasKeys
      <4> QED BY <4>2, TravelAssumption
    <3> QED BY <3>1, <3>2
  <2> HIDE DEF m, origin
  <2> QED BY <1>1, <1>2, <2>1, <2>3, <2>4, <2>5 DEF PullKept
<1>9. ASSUME sure, job.kind = "copy" PROVE KeylessVerifies(place, m, trust["mirror"])
  BY <1>7, <1>9 DEF JobInv, SoundAt
<1>10. TagName(job.tag) \in DOMAIN old.names =>
         /\ TagName(job.tag) \in DOMAIN place.names
         /\ place.names[TagName(job.tag)] = old.names[TagName(job.tag)]
  BY <1>5, NamesDiffer DEF SameButBundles
<1> HIDE DEF m
<1> QED BY <1>1, <1>2, <1>8, <1>9, <1>10, JobCarries DEF m, old

\* A report says that not all went well.
LEMMA JobReported ==
  ASSUME PlacesInv, JobInv, job.step \in {"signature", "attestation", "bundles"},
         NEW place, Report(place), trust' = trust,
         \A n : n[1] # "bundle" /\ n \in DOMAIN at[Target(job.kind)].names =>
           n \in DOMAIN place.names /\ place.names[n] = at[Target(job.kind)].names[n]
  PROVE JobInv'
<1>1. /\ job'.kind = job.kind /\ job'.tag = job.tag /\ job'.model = job.model
      /\ job'.step # "idle" /\ job'.clean = FALSE
  BY DEF Report, PlacesInv
<1>2. at' = [at EXCEPT ![Target(job.kind)] = place] /\ UNCHANGED sure
  BY DEF Report
<1> QED BY <1>1, <1>2, NamesDiffer, JobCarries

LEMMA JobTransfer ==
  ASSUME PlacesInv, JobInv, PlacesInv', Transfers PROVE JobInv'
<1>1. ASSUME NEW kind \in {"pull", "copy"}, NEW t \in Tags, Start(kind, t) PROVE JobInv'
  BY <1>1, JobStart
<1>2. CASE BundlesUnavailable
  BY <1>2, JobReported DEF BundlesUnavailable, crossing, Report
<1>3. CASE CarryingFails
  <2> DEFINE old == at[Target(job.kind)]
  <2>1. job.step \in {"signature", "attestation", "bundles"} /\ trust' = trust
    BY <1>3 DEF CarryingFails, Report, crossing
  <2>2. PICK some \in SUBSET BundleReferrers(at["origin"], job.model) :
          Report(WithBundles(job.kind, old, some))
    BY <1>3 DEF CarryingFails
  <2>3. Target(job.kind) \in {"near", "mirror"}
    BY DEF Target
  <2>4. Orderly(old) /\ Tidy(old) /\ Within(old, at["origin"]) /\ Orderly(at["origin"])
    BY <2>3 DEF PlacesInv
  <2>5. SameButBundles(old, WithBundles(job.kind, old, some))
    BY <2>4, BundlesBrought
  <2> QED BY <2>1, <2>2, <2>5, JobReported DEF SameButBundles
<1> QED BY <1>1, <1>2, <1>3, JobCarrySignature, JobCarryAttestation, JobCarryBundles
        DEF Transfers

LEMMA JobAttach ==
  ASSUME PlacesInv, JobInv, NEW p, AttachInStore(p[1], p[2]) PROVE JobInv'
<1> DEFINE near == at["near"]
           place == Attach(near, {BundleContent(p[1], p[2])})
           m == job.model
           signers == trust["origin"]
<1>1. /\ at'["near"] = place /\ at'["origin"] = at["origin"] /\ at'["mirror"] = at["mirror"]
      /\ UNCHANGED <<job, sure, trust>>
  BY OnePlace DEF AttachInStore, crossing, PlacesInv, Hosts
<1>2. place.names = near.names /\ place.address = near.address /\ Grows(near, place)
  BY AttachKeeps, AttachingGrows
<1>3. Plain(near, m) /\ Plain(place, m)
  <2>1. BundleContent(p[1], p[2]).layers = {} /\ BundleContent(p[1], p[2]).is # "att"
    BY DEF BundleContent, Content
  <2> QED BY <1>2, <2>1, NearIsPlain, AttachKeeps DEF Plain, Names
<1> HIDE DEF place
<1>4. ASSUME PullKept PROVE PullKept'
  <2>1. Alike(near, place, m)
    BY <1>2 DEF Alike, Names
  <2>2. ~AttestationRefuses(near, m, VerifiedBy(near, m, signers)) =>
          ~AttestationRefuses(place, m, VerifiedBy(place, m, signers))
    BY <1>3, <2>1, RefusalStays, TrustHasKeys
  <2>3. VerifiedBy(near, m, signers) # None => VerifiedBy(place, m, signers) # None
    BY <1>2, TrustHasKeys, VerdictIsKept DEF Names
  <2> QED BY <1>1, <1>2, <1>4, <2>2, <2>3 DEF PullKept, Names
<1>5. SoundAt(at["origin"], job.model, job.kind)' <=> SoundAt(at["origin"], job.model, job.kind)
  BY <1>1 DEF SoundAt
<1>6. job.step # "idle" => Target(job.kind) \in {"near", "mirror"} /\ Target(job.kind)' = Target(job.kind)
        /\ at'[Target(job.kind)].names = at[Target(job.kind)].names
  BY <1>1, <1>2 DEF Target
<1> QED BY <1>1, <1>4, <1>5, <1>6 DEF JobInv

LEMMA JobStep == PlacesInv /\ JobInv /\ [Next]_vars => JobInv'
<1> SUFFICES ASSUME PlacesInv, JobInv, [Next]_vars PROVE JobInv'
  OBVIOUS
<1>0. PlacesInv' /\ at = [h \in Hosts |-> at[h]]
  BY PlacesStep DEF PlacesInv
<1>1. CASE AtRegistry
  BY <1>1, RegistrySteps, JobRegistry
<1>2. CASE Transfers
  BY <1>0, <1>2, JobTransfer
<1>3. ASSUME NEW p \in Attachments, AttachInStore(p[1], p[2]) PROVE JobInv'
  BY <1>3, JobAttach
<1>4. ASSUME NEW T, Save(T) PROVE JobInv'
  <2>1. at' = [at EXCEPT !["carrier"] = Saved(at["near"], T)] /\ UNCHANGED <<job, sure, trust>>
    BY <1>4 DEF Save
  <2> QED BY <1>0, <2>1, OnePlace, JobStays DEF Hosts
<1>5. CASE Mishandle
  <2>1. /\ UNCHANGED <<job, sure, trust>>
        /\ \E place : at' = [at EXCEPT !["carrier"] = place]
    BY <1>5 DEF Mishandle
  <2> QED BY <1>0, <2>1, OnePlace, JobStays DEF Hosts
<1>6. CASE Load
  <2>1. /\ UNCHANGED <<job, sure, trust>>
        /\ \E place : at' = [at EXCEPT !["far"] = place]
    BY <1>6 DEF Load
  <2> QED BY <1>0, <2>1, OnePlace, JobStays DEF Hosts
<1>7. CASE Others
  BY <1>7, JobStays DEF Others, crossing
<1> QED BY <1>1, <1>2, <1>3, <1>4, <1>5, <1>6, <1>7, StepsAre

\* A mirror holds no signature that a key made for it.
LEMMA NoKeyAtMirror ==
  ASSUME PlacesInv, NEW m, NEW signers PROVE Good(at["mirror"], m, signers) = {}
<1> DEFINE mirror == at["mirror"]
<1>1. Orderly(mirror) /\ mirror.address = "mirror"
  BY DEF PlacesInv, Hosts
<1>2. ASSUME NEW key, NEW c \in Held(mirror)
      PROVE ~ManifestVerifies(c, m, key, "mirror")
  BY <1>1, TravelAssumption DEF Orderly, ManifestVerifies, SigLayer
<1>3. \A n \in DOMAIN mirror.names : mirror.names[n] \in Held(mirror)
  BY DEF Held, Named
<1>4. \A c \in Referrers(mirror, m, "sig") : c \in Held(mirror)
  BY DEF Referrers
<1> HIDE DEF mirror
<1> QED BY <1>1, <1>2, <1>3, <1>4 DEF Good, SignatureVerifies, Names, mirror

\* A transfer that says all went well brought what verifies the model, from a
\* registry where it verified all along, or with the file that was saved
\* (internal/transfer/pull.go, copy.go, saveload.go).
THEOREM WhatVerifiedTravels == Spec => []VerifiableTravels
<1> DEFINE IInv == PlacesInv /\ CrossingInv /\ PromiseInv /\ JobInv
<1>1. Init => IInv
  BY PlacesInit, CrossingInit, PromiseInit, JobInit
<1>2. IInv /\ [Next]_vars => IInv'
  BY PlacesStep, CrossingStep, PromiseStep, JobStep
<1>3. IInv => VerifiableTravels
  <2> SUFFICES ASSUME PlacesInv, PromiseInv, JobInv PROVE VerifiableTravels
    OBVIOUS
  <2> DEFINE m == job.model
  <2>1. \A t \in arrived : VerifiesOffline(at["far"], t)
    BY DEF PromiseInv
  <2>2. ASSUME job.step = "done", job.clean, sure, job.kind = "copy"
        PROVE VerifyAccepts(EmptyPlace("mirror", TRUE), {at["mirror"]}, job.tag, trust["mirror"])
    <3> DEFINE mirror == at["mirror"]
               here == EmptyPlace("mirror", TRUE)
               signers == trust["mirror"]
    <3>1. ModelAt(mirror, job.tag) = m /\ m # None
      BY <2>2 DEF JobInv, Target, ModelAt, Names
    <3>2. KeylessVerifies(mirror, m, signers)
      BY <2>2 DEF JobInv
    <3>3. VerifiedBy(mirror, m, signers) = "keyless"
      BY <3>2, NoKeyAtMirror, KeylessNeedsIdentities, AcceptedBy, TrustHasKeys
    <3>4. ~AttestationRefuses(mirror, m, "keyless")
      BY DEF AttestationRefuses
    <3>5. ModelAt(here, job.tag) = None
      BY DEF ModelAt, Names, EmptyPlace, Place
    <3>6. VerifySources(here, {mirror}, job.tag) = {mirror}
      BY <3>5 DEF VerifySources
    <3> HIDE DEF mirror, here, m, signers
    <3>7. VerifyAccepts(here, {mirror}, job.tag, signers)
      BY <3>1, <3>3, <3>4, <3>5, <3>6, TravelAssumption DEF VerifyAccepts
    <3> QED BY <3>7 DEF mirror, here, signers
  <2>3. ASSUME job.step = "done", job.clean, sure, job.kind # "copy"
        PROVE VerifiesOffline(at["near"], job.tag)
    <3> DEFINE near == at["near"]
    <3>1. job.kind = "pull" /\ near.address = "origin"
      BY <2>3 DEF PlacesInv, Hosts
    <3>2. ModelAt(near, job.tag) = m /\ m # None
      BY <2>3, <3>1 DEF JobInv, Target, ModelAt, Names
    <3>3. /\ VerifiedBy(near, m, trust["origin"]) # None
          /\ ~AttestationRefuses(near, m, VerifiedBy(near, m, trust["origin"]))
      BY <2>3, <3>1 DEF JobInv, PullKept
    <3> HIDE DEF near, m
    <3> QED BY <3>1, <3>2, <3>3, OfflineSuffices, TrustHasKeys DEF near
  <2> QED BY <2>1, <2>2, <2>3 DEF VerifiableTravels
<1> HIDE DEF IInv
<1> QED BY <1>1, <1>2, <1>3, PTL DEF Spec
=============================================================================
