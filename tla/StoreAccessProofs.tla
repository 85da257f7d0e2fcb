------------------------- MODULE StoreAccessProofs -------------------------
(***************************************************************************)
(* Theorems of StoreAccess: processes that share a store only through its  *)
(* flock and its files keep StorePromise, whatever their number and        *)
(* whatever the references, images and layers are.                         *)
(***************************************************************************)
EXTENDS StoreAccess, TLAPS

Saving == DOMAIN AfterSave

ReadSteps == {"lookup", "reading"}
PullSteps == {"resolve", "fetch", "tagging", "signature", "signed", "signing"}
RmSteps   == {"untag", "untagging", "attached", "unsigning"}
GCSteps   == {"unlink", "unlinking", "sweep", "resaving"}

\* A step belongs to its command, and the command to a kind of lock.
StepOfCommand(p) ==
  /\ pc[p] \in ReadSteps => op[p] = "read"
  /\ pc[p] \in PullSteps => op[p] = "pull"
  /\ pc[p] \in RmSteps => op[p] = "rm"
  /\ pc[p] \in GCSteps => op[p] = "gc"
  /\ pc[p] = "delete" => op[p] \in {"rm", "gc"}

Holding(p) == pc[p] \in Locked \cup {"reload"}

LockHeld(p) ==
  /\ Holding(p) => IF op[p] = "read" THEN p \in readers ELSE writer = p
  /\ ~Holding(p) => writer # p /\ p \notin readers
  /\ pc[p] \in Saving <=> saver = p

\* What a command knows of the disk at each of its steps.
Fresh(p) == pc[p] \in Locked \ Saving => view[p] = index

Known(p) ==
  /\ pc[p] \in PullSteps \ {"resolve"} => img[p] \in Images
  /\ pc[p] \in {"signature", "signed", "signing", "reading"}
       => img[p] \in Tagged(index)
  /\ pc[p] \in {"signed", "signing"} => Sig[img[p]] \in blobs
  /\ pc[p] = "tagging" =>
       /\ Content(img[p]) \subseteq blobs
       /\ view[p] = [index EXCEPT !.tags[ref[p]] = img[p]]
  /\ pc[p] = "signing" => view[p] = [index EXCEPT !.sigs = @ \cup {img[p]}]
  /\ pc[p] = "untagging" => view[p] = [index EXCEPT !.tags[ref[p]] = None]
  /\ pc[p] \in {"untagging", "attached", "unsigning", "unlinking", "delete"}
       => img[p] \in Images
  /\ pc[p] \in {"unsigning", "unlinking"} =>
       /\ img[p] \notin Tagged(index)
       /\ view[p] = [index EXCEPT !.sigs = @ \ {img[p]}]
  /\ pc[p] = "resaving" => view[p] = index
  /\ pc[p] = "delete" => img[p] \notin index.sigs

ProcInv(p) == StepOfCommand(p) /\ LockHeld(p) /\ Fresh(p) /\ Known(p)

\* The inductive invariant.
IInv ==
  /\ TypeOK
  /\ writer # None => readers = {}
  /\ NamedIsWhole
  /\ \A p \in Procs : ProcInv(p)
-----------------------------------------------------------------------------
(* What a change of the index does to what it keeps.                       *)

LEMMA SaveSteps ==
  /\ Saving = {"tagging", "signing", "untagging", "unsigning", "unlinking",
               "resaving"}
  /\ DOMAIN AfterSave = Saving
  /\ AfterSave["tagging"] = "signature" /\ AfterSave["signing"] = "unlock"
  /\ AfterSave["untagging"] = "attached" /\ AfterSave["unsigning"] = "delete"
  /\ AfterSave["unlinking"] = "delete" /\ AfterSave["resaving"] = "unlock"
BY DEF Saving, AfterSave

LEMMA TagChanged ==
  ASSUME NEW ix \in Indexes, NEW r \in Refs, NEW i \in Images \cup {None}
  PROVE  /\ [ix EXCEPT !.tags[r] = i] \in Indexes
         /\ [ix EXCEPT !.tags[r] = i].sigs = ix.sigs
         /\ [ix EXCEPT !.tags[r] = i].tags = [ix.tags EXCEPT ![r] = i]
BY DEF Indexes

LEMMA SigsChanged ==
  ASSUME NEW ix \in Indexes, NEW S \in SUBSET Images
  PROVE  /\ [ix EXCEPT !.sigs = S] \in Indexes
         /\ [ix EXCEPT !.sigs = S].sigs = S
         /\ [ix EXCEPT !.sigs = S].tags = ix.tags
BY DEF Indexes

LEMMA InKeeps ==
  ASSUME NEW ix, NEW b
  PROVE  b \in Keeps(ix) <=>
           \/ \E i \in Tagged(ix) : b \in Content(i)
           \/ \E i \in ix.sigs : b = Sig[i] \/ b \in Content(i)
<1> DEFINE A == UNION {Content(i) : i \in Tagged(ix)}
           B == UNION {{Sig[i]} \cup Content(i) : i \in ix.sigs}
<1>1. b \in A <=> \E i \in Tagged(ix) : b \in Content(i)
  OBVIOUS
<1>2. b \in B <=> \E i \in ix.sigs : b \in {Sig[i]} \cup Content(i)
  OBVIOUS
<1>3. Keeps(ix) = A \cup B
  BY DEF Keeps
<1> HIDE DEF A, B
<1> QED BY <1>1, <1>2, <1>3

LEMMA KeepsTag ==
  ASSUME NEW ix \in Indexes, NEW r \in Refs, NEW i \in Images
  PROVE  /\ Keeps([ix EXCEPT !.tags[r] = i]) \subseteq Keeps(ix) \cup Content(i)
         /\ i \in Tagged([ix EXCEPT !.tags[r] = i])
         /\ [ix EXCEPT !.tags[r] = i] \in Indexes
<1> DEFINE jx == [ix EXCEPT !.tags[r] = i]
<1>1. jx \in Indexes /\ jx.sigs = ix.sigs /\ jx.tags = [ix.tags EXCEPT ![r] = i]
  BY TagChanged
<1> HIDE DEF jx
<1>2. Tagged(jx) \subseteq Tagged(ix) \cup {i} /\ i \in Tagged(jx)
  BY <1>1 DEF Tagged, Indexes
<1>3. Keeps(jx) \subseteq Keeps(ix) \cup Content(i)
  BY <1>1, <1>2, InKeeps
<1> QED BY <1>1, <1>2, <1>3 DEF jx

LEMMA KeepsUntag ==
  ASSUME NEW ix \in Indexes, NEW r \in Refs
  PROVE  /\ Keeps([ix EXCEPT !.tags[r] = None]) \subseteq Keeps(ix)
         /\ [ix EXCEPT !.tags[r] = None] \in Indexes
<1> DEFINE jx == [ix EXCEPT !.tags[r] = None]
<1>1. /\ jx \in Indexes /\ jx.sigs = ix.sigs
      /\ jx.tags = [ix.tags EXCEPT ![r] = None]
  BY TagChanged
<1> HIDE DEF jx
<1>2. Tagged(jx) \subseteq Tagged(ix)
  BY <1>1, LayoutAssumption DEF Tagged, Indexes
<1>3. Keeps(jx) \subseteq Keeps(ix)
  BY <1>1, <1>2, InKeeps
<1> QED BY <1>1, <1>3 DEF jx

LEMMA KeepsSigs ==
  ASSUME NEW ix \in Indexes, NEW S \in SUBSET Images
  PROVE  /\ [ix EXCEPT !.sigs = S] \in Indexes
         /\ [ix EXCEPT !.sigs = S].sigs = S
         /\ Tagged([ix EXCEPT !.sigs = S]) = Tagged(ix)
         /\ \A b \in Keeps([ix EXCEPT !.sigs = S]) :
              \/ b \in Keeps(ix)
              \/ \E i \in S \ ix.sigs : b = Sig[i] \/ b \in Content(i)
<1> DEFINE jx == [ix EXCEPT !.sigs = S]
<1>1. jx \in Indexes /\ jx.sigs = S /\ jx.tags = ix.tags
  BY SigsChanged
<1> HIDE DEF jx
<1>2. Tagged(jx) = Tagged(ix)
  BY <1>1 DEF Tagged
<1>3. \A b \in Keeps(jx) :
        \/ b \in Keeps(ix)
        \/ \E i \in S \ ix.sigs : b = Sig[i] \/ b \in Content(i)
  BY <1>1, <1>2, InKeeps
<1> QED BY <1>1, <1>2, <1>3 DEF jx

LEMMA TaggedKept ==
  ASSUME NEW ix, NEW i \in Tagged(ix)
  PROVE  Content(i) \subseteq Keeps(ix)
BY DEF Keeps

LEMMA UntaggedSignatureIsFree ==
  ASSUME NEW ix \in Indexes, NEW i \in Images, i \notin ix.sigs
  PROVE  Sig[i] \notin Keeps(ix)
BY LayoutAssumption, InKeeps DEF Tagged, Content, Indexes

-----------------------------------------------------------------------------
(* Types.                                                                  *)

LEMMA InitInv == Init => IInv
<1>1. Empty \in Indexes /\ Keeps(Empty) = {}
  BY LayoutAssumption, InKeeps DEF Empty, Indexes, Tagged
<1>2. (CHOOSE r \in Refs : TRUE) \in Refs
  BY LayoutAssumption
<1>3. Init => TypeOK
  BY <1>1, <1>2 DEF Init, TypeOK, Ops, Writing
<1>4. Init => \A p \in Procs : ProcInv(p)
  BY SaveSteps, AccessAssumption DEF Init, ProcInv, StepOfCommand, LockHeld,
    Fresh, Known, Holding, Locked, Saving, ReadSteps, PullSteps, RmSteps, GCSteps
<1> QED BY <1>1, <1>3, <1>4 DEF Init, IInv, NamedIsWhole

LEMMA TypeStep ==
  ASSUME IInv, NEW p \in Procs,
         \/ \E o \in Ops, r \in Refs : Begin(p, o, r)
         \/ Open(p) \/ Acquire(p) \/ GiveUp(p) \/ LockedStep(p) \/ Crash(p)
  PROVE  TypeOK'
<1> USE SaveSteps, AccessAssumption
<1>0. TypeOK /\ ProcInv(p)
  BY DEF IInv
<1>1. Empty \in Indexes /\ ref[p] \in Refs /\ view[p] \in Indexes
  BY <1>0 DEF Empty, Indexes, TypeOK
<1>2. ASSUME NEW o \in Ops, NEW r \in Refs, Begin(p, o, r) PROVE TypeOK'
  BY <1>0, <1>2 DEF TypeOK, Begin, Goto, diskVars, lockVars
<1>3. ASSUME Open(p) PROVE TypeOK'
  BY <1>0, <1>1, <1>3 DEF TypeOK, Open, Goto, EndCommand, diskVars, lockVars,
    cmdVars
<1>4. ASSUME Acquire(p) PROVE TypeOK'
  BY <1>0, <1>4 DEF TypeOK, Acquire, Goto, diskVars, cmdVars
<1>5. ASSUME GiveUp(p) \/ Crash(p) \/ Unlock(p) PROVE TypeOK'
  BY <1>0, <1>1, <1>5 DEF TypeOK, GiveUp, Crash, Unlock, EndCommand, FreeLock,
    Goto, diskVars, lockVars, cmdVars
<1>6. ASSUME Reload(p) PROVE TypeOK'
  <2>1. FirstStep[op[p]] \in {"resolve", "untag", "unlink", "lookup"}
    BY <1>0 DEF TypeOK, FirstStep, Ops, Writing
  <2> QED BY <1>0, <1>1, <1>6, <2>1 DEF TypeOK, Reload, EndCommand, FreeLock,
        Goto, Locked, diskVars, lockVars, cmdVars
<1>7. ASSUME Saved(p) PROVE TypeOK'
  <2>1. AfterSave[pc[p]] \in Locked
    BY <1>7 DEF Saved, Locked, Saving
  <2> QED BY <1>0, <1>1, <1>7, <2>1 DEF TypeOK, Saved, Goto, lockVars, cmdVars
<1>8. ASSUME Resolve(p) PROVE TypeOK'
  <2>1. Offers[ref[p]] \subseteq Images
    BY <1>1
  <2> QED BY <1>0, <1>8, <2>1 DEF TypeOK, Resolve, Goto, Locked, diskVars,
        lockVars, cmdVars
<1>9. ASSUME Fetch(p) \/ FetchSignature(p) PROVE TypeOK'
  <2>1. blobs' \subseteq Blobs
    <3>1. CASE Fetch(p)
      <4>1. pc[p] = "fetch" /\ img[p] \in Images
        BY <1>0, <3>1 DEF Fetch, ProcInv, Known, PullSteps
      <4>2. Content(img[p]) \subseteq Blobs
        BY <4>1 DEF Blobs
      <4> QED BY <1>0, <3>1, <4>2 DEF Fetch, TypeOK
    <3>2. CASE FetchSignature(p)
      <4>1. pc[p] = "signature" /\ img[p] \in Images
        BY <1>0, <3>2 DEF FetchSignature, ProcInv, Known, PullSteps
      <4>2. Sig[img[p]] \in Blobs
        BY <4>1 DEF Blobs
      <4> QED BY <1>0, <3>2, <4>2 DEF FetchSignature, TypeOK
    <3> QED BY <1>9, <3>1, <3>2
  <2> QED BY <1>0, <1>9, <2>1 DEF TypeOK, Fetch, FetchSignature, Goto, Locked,
        lockVars, cmdVars
<1>10. ASSUME DeleteSignature(p) \/ Sweep(p) \/ PullEnds(p) \/ ReadDone(p)
       PROVE  TypeOK'
  BY <1>0, <1>10 DEF TypeOK, DeleteSignature, Sweep, PullEnds, ReadDone, Goto,
    Locked, diskVars, lockVars, cmdVars
<1>11. ASSUME Lookup(p) PROVE TypeOK'
  <2>1. view[p].tags[ref[p]] \in Images \cup {None}
    BY <1>1 DEF Indexes
  <2> QED BY <1>0, <1>11, <2>1 DEF TypeOK, Lookup, Goto, Locked, diskVars,
        lockVars, cmdVars
<1>12. ASSUME NEW ix \in Indexes, NEW s \in Saving, BeginSave(p, ix, s)
       PROVE  /\ view' \in [Procs -> Indexes]
              /\ saver' \in Procs \cup {None, Cut}
              /\ pc' \in [Procs -> Locked \cup {"idle", "open", "lock", "reload"}]
  BY <1>0, <1>12 DEF TypeOK, BeginSave, Goto, Locked, Saving
<1>13. ASSUME TagModel(p) PROVE TypeOK'
  <2>1. img[p] \in Images
    BY <1>0, <1>13 DEF TagModel, ProcInv, Known, PullSteps
  <2>2. [view[p] EXCEPT !.tags[ref[p]] = img[p]] \in Indexes
    BY <1>1, <2>1, TagChanged
  <2> QED BY <1>0, <1>12, <1>13, <2>2 DEF TypeOK, TagModel, lockVars, cmdVars
<1>14. ASSUME TagSignature(p) PROVE TypeOK'
  <2>1. img[p] \in Images
    BY <1>0, <1>14 DEF TagSignature, ProcInv, Known, PullSteps
  <2>2. [view[p] EXCEPT !.sigs = @ \cup {img[p]}] \in Indexes
    BY <1>1, <2>1, SigsChanged DEF Indexes
  <2> QED BY <1>0, <1>12, <1>14, <2>2 DEF TypeOK, TagSignature, lockVars, cmdVars
<1>15. ASSUME Untag(p) PROVE TypeOK'
  <2>1. view[p].tags[ref[p]] \in Images \cup {None}
    BY <1>1 DEF Indexes
  <2>2. [view[p] EXCEPT !.tags[ref[p]] = None] \in Indexes
    BY <1>1, TagChanged
  <2> QED BY <1>0, <1>12, <1>15, <2>1, <2>2 DEF TypeOK, Untag, Goto, Locked,
        lockVars, cmdVars
<1>16. ASSUME Unsign(p) PROVE TypeOK'
  <2>1. [view[p] EXCEPT !.sigs = @ \ {img[p]}] \in Indexes
    BY <1>1, SigsChanged DEF Indexes
  <2> QED BY <1>0, <1>12, <1>16, <2>1 DEF TypeOK, Unsign, Goto, Locked,
        lockVars, cmdVars
<1>17. ASSUME UnlinkOrphan(p) PROVE TypeOK'
  <2>1. \A i : [view[p] EXCEPT !.sigs = @ \ {i}] \in Indexes
    BY <1>1, SigsChanged DEF Indexes
  <2>2. Orphans(view[p]) \subseteq Images
    BY <1>1 DEF Orphans, Indexes
  <2> QED BY <1>0, <1>12, <1>17, <2>1, <2>2 DEF TypeOK, UnlinkOrphan, Goto,
        Locked, lockVars, cmdVars
<1>18. ASSUME Resave(p) PROVE TypeOK'
  BY <1>0, <1>1, <1>12, <1>18 DEF TypeOK, Resave, lockVars, cmdVars
<1> QED BY <1>2, <1>3, <1>4, <1>5, <1>6, <1>7, <1>8, <1>9, <1>10, <1>11,
          <1>13, <1>14, <1>15, <1>16, <1>17, <1>18
       DEF LockedStep, PullStep, RmStep, GCStep

-----------------------------------------------------------------------------
(* What a step leaves alone.                                               *)

LEMMA WriterAlone ==
  ASSUME IInv, NEW p \in Procs, NEW q \in Procs, q # p, writer = p
  PROVE  ~Holding(q) /\ saver # q
<1>1. ProcInv(q) /\ readers = {} /\ p # None
  BY AccessAssumption DEF IInv
<1>2. ~Holding(q)
  BY <1>1 DEF ProcInv, LockHeld
<1>3. saver # q
  BY <1>1, <1>2 DEF ProcInv, LockHeld, Holding, Locked, Saving
<1> QED BY <1>2, <1>3

WriterSteps == PullSteps \cup RmSteps \cup GCSteps \cup {"delete"}

LEMMA WriterHolds ==
  ASSUME IInv, NEW p \in Procs, pc[p] \in WriterSteps
  PROVE  writer = p
<1>1. ProcInv(p)
  BY DEF IInv
<1>2. op[p] # "read"
  BY <1>1 DEF ProcInv, StepOfCommand, WriterSteps
<1>3. Holding(p)
  BY SaveSteps DEF WriterSteps, PullSteps, RmSteps, GCSteps, Holding, Locked, Saving
<1> QED BY <1>1, <1>2, <1>3 DEF ProcInv, LockHeld

Frame(p, q) ==
  /\ pc'[q] = pc[q] /\ op'[q] = op[q] /\ ref'[q] = ref[q]
  /\ view'[q] = view[q] /\ img'[q] = img[q]
  /\ writer' = q <=> writer = q
  /\ q \in readers' <=> q \in readers
  /\ saver' = q <=> saver = q
  /\ (index' = index /\ blobs' = blobs) \/ writer = p

LEMMA OthersFramed ==
  ASSUME IInv, NEW p \in Procs, NEW q \in Procs, q # p,
         \/ \E o \in Ops, r \in Refs : Begin(p, o, r)
         \/ Open(p) \/ Acquire(p) \/ GiveUp(p) \/ LockedStep(p) \/ Crash(p)
  PROVE  Frame(p, q)
<1> USE AccessAssumption
<1>0. TypeOK
  BY DEF IInv
<1>1. ASSUME \E o \in Ops, r \in Refs : Begin(p, o, r) PROVE Frame(p, q)
  BY <1>0, <1>1 DEF TypeOK, Frame, Begin, Goto, diskVars, lockVars
<1>2. ASSUME Open(p) \/ Acquire(p) \/ GiveUp(p) PROVE Frame(p, q)
  BY <1>0, <1>2 DEF TypeOK, Frame, Open, Acquire, GiveUp, EndCommand, Goto,
    diskVars, lockVars, cmdVars
<1>3. ASSUME Reload(p) \/ Unlock(p) PROVE Frame(p, q)
  BY <1>0, <1>3 DEF TypeOK, Frame, Reload, Unlock, EndCommand, FreeLock, Goto,
    diskVars, lockVars, cmdVars
<1>4. ASSUME Crash(p) PROVE Frame(p, q)
  BY <1>0, <1>4 DEF TypeOK, Frame, Crash, EndCommand, FreeLock, Goto, cmdVars
<1>5. ASSUME Lookup(p) \/ ReadDone(p) \/ Resolve(p) \/ PullEnds(p)
      PROVE  Frame(p, q)
  BY <1>0, <1>5 DEF TypeOK, Frame, Lookup, ReadDone, Resolve, PullEnds, Goto,
    diskVars, lockVars, cmdVars
<1>6. ASSUME writer = p, Saved(p) \/ Fetch(p) \/ FetchSignature(p)
                           \/ DeleteSignature(p) \/ Sweep(p)
      PROVE  Frame(p, q)
  <2>1. saver # q
    BY <1>6, WriterAlone
  <2> QED BY <1>0, <1>6, <2>1 DEF TypeOK, Frame, Saved, Fetch, FetchSignature,
        DeleteSignature, Sweep, Goto, lockVars, cmdVars
<1>7. ASSUME writer = p, TagModel(p) \/ TagSignature(p) \/ Untag(p)
                           \/ Unsign(p) \/ UnlinkOrphan(p) \/ Resave(p)
      PROVE  Frame(p, q)
  <2>1. saver # q
    BY <1>7, WriterAlone
  <2> QED BY <1>0, <1>7, <2>1 DEF TypeOK, Frame, TagModel, TagSignature, Untag,
        Unsign, UnlinkOrphan, Resave, BeginSave, Goto, lockVars, cmdVars
<1>8. ASSUME \/ Saved(p) \/ Fetch(p) \/ FetchSignature(p) \/ DeleteSignature(p)
             \/ Sweep(p) \/ TagModel(p) \/ TagSignature(p) \/ Untag(p)
             \/ Unsign(p) \/ UnlinkOrphan(p) \/ Resave(p)
      PROVE  writer = p
  <2>1. pc[p] \in WriterSteps
    BY <1>8, SaveSteps DEF Saved, Fetch, FetchSignature, DeleteSignature, Sweep,
      TagModel, TagSignature, Untag, Unsign, UnlinkOrphan, Resave, WriterSteps,
      PullSteps, RmSteps, GCSteps, Saving
  <2> QED BY <2>1, WriterHolds
<1> QED BY <1>1, <1>2, <1>3, <1>4, <1>5, <1>6, <1>7, <1>8
       DEF LockedStep, PullStep, RmStep, GCStep

LEMMA OthersKept ==
  ASSUME IInv, NEW p \in Procs, NEW q \in Procs, q # p, Frame(p, q)
  PROVE  ProcInv(q)'
<1>1. ProcInv(q)
  BY DEF IInv
<1>2. StepOfCommand(q)' /\ LockHeld(q)'
  BY <1>1 DEF ProcInv, StepOfCommand, LockHeld, Holding, Frame
<1>3. CASE index' = index /\ blobs' = blobs
  BY <1>1, <1>2, <1>3 DEF ProcInv, Fresh, Known, Frame, Tagged
<1>4. CASE writer = p
  <2>1. ~Holding(q)
    BY <1>4, WriterAlone
  <2>2. pc'[q] \notin Locked
    BY <2>1 DEF Frame, Holding
  <2> QED BY <1>2, <2>2, SaveSteps DEF ProcInv, Fresh, Known, Locked, PullSteps,
        Saving
<1> QED BY <1>3, <1>4 DEF Frame

-----------------------------------------------------------------------------
(* What a step does to its own process.                                    *)

\* A step that neither saves nor touches the lock.
LEMMA OwnQuietKept ==
  ASSUME IInv, NEW p \in Procs,
         \/ \E o \in Ops, r \in Refs : Begin(p, o, r)
         \/ Open(p) \/ GiveUp(p) \/ Resolve(p) \/ PullEnds(p)
         \/ Lookup(p) \/ ReadDone(p)
  PROVE  ProcInv(p)'
<1> USE SaveSteps, AccessAssumption
    DEF StepOfCommand, LockHeld, Fresh, Known, Holding, Locked, ReadSteps,
        PullSteps, RmSteps, GCSteps, ProcInv, Goto
<1>0. TypeOK /\ ProcInv(p) /\ view[p] \in Indexes /\ ref[p] \in Refs
  BY DEF IInv, TypeOK
<1>1. ASSUME \E o \in Ops, r \in Refs : Begin(p, o, r) PROVE ProcInv(p)'
  BY <1>0, <1>1 DEF TypeOK, Begin, diskVars, lockVars
<1>2. ASSUME Open(p) \/ GiveUp(p) PROVE ProcInv(p)'
  BY <1>0, <1>2 DEF TypeOK, Open, GiveUp, EndCommand, diskVars, lockVars, cmdVars
<1>3. ASSUME Resolve(p) PROVE ProcInv(p)'
  <2>1. Offers[ref[p]] \subseteq Images
    BY <1>0
  <2> QED BY <1>0, <1>3, <2>1 DEF TypeOK, Resolve, diskVars, lockVars, cmdVars
<1>4. ASSUME PullEnds(p) \/ ReadDone(p) PROVE ProcInv(p)'
  BY <1>0, <1>4 DEF TypeOK, PullEnds, ReadDone, diskVars, lockVars, cmdVars
<1>5. ASSUME Lookup(p) PROVE ProcInv(p)'
  <2>1. view[p].tags[ref[p]] # None => view[p].tags[ref[p]] \in Tagged(view[p])
    BY <1>0 DEF Tagged, Indexes
  <2> QED BY <1>0, <1>5, <2>1 DEF TypeOK, Lookup, Tagged, diskVars, lockVars,
        cmdVars
<1> QED BY <1>1, <1>2, <1>3, <1>4, <1>5

LEMMA OwnLockKept ==
  ASSUME IInv, NEW p \in Procs,
         Acquire(p) \/ Reload(p) \/ Unlock(p) \/ Crash(p)
  PROVE  ProcInv(p)' /\ (writer' # None => readers' = {})
<1> USE SaveSteps, AccessAssumption
    DEF StepOfCommand, LockHeld, Fresh, Known, Holding, Locked, ReadSteps,
        PullSteps, RmSteps, GCSteps, ProcInv, Goto
<1>0. /\ TypeOK /\ ProcInv(p) /\ view[p] \in Indexes /\ ref[p] \in Refs
      /\ writer # None => readers = {}
  BY DEF IInv, TypeOK
<1>1. ASSUME Acquire(p) PROVE ProcInv(p)' /\ (writer' # None => readers' = {})
  BY <1>0, <1>1 DEF TypeOK, Acquire, Writing, diskVars, cmdVars
<1>2. ASSUME Reload(p) PROVE ProcInv(p)' /\ (writer' # None => readers' = {})
  <2>1. op[p] \in {"pull", "rm", "gc", "read"}
    BY <1>0 DEF TypeOK, Ops, Writing
  <2>2. CASE Whole /\ view' = [view EXCEPT ![p] = index]
             /\ Goto(p, FirstStep[op[p]]) /\ UNCHANGED <<lockVars, img>>
    <3>1. pc'[p] = FirstStep[op[p]] /\ view'[p] = index
      BY <1>0, <2>2 DEF TypeOK
    <3> QED BY <1>0, <1>2, <2>1, <2>2, <3>1 DEF TypeOK, Reload, FirstStep,
          diskVars, lockVars, cmdVars
  <2>3. CASE ~Whole /\ EndCommand(p) /\ FreeLock(p)
    BY <1>0, <1>2, <2>3 DEF TypeOK, Reload, EndCommand, FreeLock, diskVars, cmdVars
  <2> QED BY <1>2, <2>2, <2>3 DEF Reload
<1>3. ASSUME Unlock(p) PROVE ProcInv(p)' /\ (writer' # None => readers' = {})
  BY <1>0, <1>3 DEF TypeOK, Unlock, EndCommand, FreeLock, diskVars, cmdVars
<1>4. ASSUME Crash(p) PROVE ProcInv(p)' /\ (writer' # None => readers' = {})
  BY <1>0, <1>4 DEF TypeOK, Crash, EndCommand, FreeLock, cmdVars
<1> QED BY <1>1, <1>2, <1>3, <1>4

LEMMA OwnSavedKept ==
  ASSUME IInv, NEW p \in Procs, Saved(p)
  PROVE  ProcInv(p)' /\ NamedIsWhole'
<1> USE SaveSteps
<1>0. /\ TypeOK /\ ProcInv(p) /\ view[p] \in Indexes /\ ref[p] \in Refs
      /\ index \in Indexes /\ NamedIsWhole
  BY DEF IInv, TypeOK
<1>1. /\ pc'[p] = AfterSave[pc[p]] /\ index' = view[p] /\ saver' = None
      /\ blobs' = blobs /\ view' = view /\ img' = img
      /\ UNCHANGED <<writer, readers, op, ref>> /\ pc[p] \in Saving
  BY <1>0 DEF Saved, TypeOK, Goto, lockVars, cmdVars, Saving
<1>2. ASSUME pc[p] = "tagging"
      PROVE  img[p] \in Tagged(view[p]) /\ Keeps(view[p]) \subseteq blobs
  BY <1>0, <1>2, KeepsTag DEF ProcInv, Known, PullSteps, NamedIsWhole
<1>3. ASSUME pc[p] = "signing" PROVE Keeps(view[p]) \subseteq blobs
  <2>1. /\ img[p] \in Images /\ img[p] \in Tagged(index)
        /\ Sig[img[p]] \in blobs
        /\ view[p] = [index EXCEPT !.sigs = index.sigs \cup {img[p]}]
        /\ index.sigs \cup {img[p]} \in SUBSET Images
    BY <1>0, <1>3 DEF ProcInv, Known, PullSteps, Indexes
  <2>2. Content(img[p]) \subseteq blobs
    BY <1>0, <2>1, TaggedKept DEF NamedIsWhole
  <2> DEFINE S == index.sigs \cup {img[p]}
  <2>3. S \ index.sigs \subseteq {img[p]}
    OBVIOUS
  <2> HIDE DEF S
  <2>4. \A b \in Keeps([index EXCEPT !.sigs = S]) :
          \/ b \in Keeps(index)
          \/ \E i \in S \ index.sigs : b = Sig[i] \/ b \in Content(i)
    BY <1>0, <2>1, KeepsSigs DEF S
  <2>5. Keeps([index EXCEPT !.sigs = S]) \subseteq blobs
    BY <1>0, <2>1, <2>2, <2>3, <2>4 DEF NamedIsWhole
  <2> QED BY <2>1, <2>5 DEF S
<1>4. ASSUME pc[p] = "untagging" PROVE Keeps(view[p]) \subseteq blobs
  BY <1>0, <1>4, KeepsUntag DEF ProcInv, Known, NamedIsWhole
<1>5. ASSUME pc[p] \in {"unsigning", "unlinking"}
      PROVE  Keeps(view[p]) \subseteq blobs /\ img[p] \notin view[p].sigs
  <2> DEFINE S == index.sigs \ {img[p]}
  <2>1. view[p] = [index EXCEPT !.sigs = S] /\ S \in SUBSET Images
    BY <1>0, <1>5 DEF ProcInv, Known, Indexes
  <2>2. S \ index.sigs = {} /\ img[p] \notin S
    OBVIOUS
  <2> HIDE DEF S
  <2>3. /\ [index EXCEPT !.sigs = S].sigs = S
        /\ \A b \in Keeps([index EXCEPT !.sigs = S]) :
             \/ b \in Keeps(index)
             \/ \E i \in S \ index.sigs : b = Sig[i] \/ b \in Content(i)
    BY <1>0, <2>1, KeepsSigs
  <2> QED BY <1>0, <2>1, <2>2, <2>3 DEF NamedIsWhole
<1>6. ASSUME pc[p] = "resaving" PROVE Keeps(view[p]) \subseteq blobs
  BY <1>0, <1>6 DEF ProcInv, Known, NamedIsWhole
<1>7. NamedIsWhole'
  BY <1>1, <1>2, <1>3, <1>4, <1>5, <1>6 DEF NamedIsWhole, Keeps, Tagged
<1>8. ProcInv(p)'
  BY <1>0, <1>1, <1>2, <1>5, AccessAssumption
  DEF ProcInv, StepOfCommand, LockHeld, Fresh, Known, Holding, Locked, ReadSteps,
      PullSteps, RmSteps, GCSteps, Tagged
<1> QED BY <1>7, <1>8

\* A step of the writer on the blobs.
LEMMA OwnBlobsKept ==
  ASSUME IInv, NEW p \in Procs,
         Fetch(p) \/ FetchSignature(p) \/ DeleteSignature(p) \/ Sweep(p)
  PROVE  ProcInv(p)' /\ NamedIsWhole'
<1> USE SaveSteps
    DEF StepOfCommand, LockHeld, Fresh, Known, Holding, Locked, ReadSteps,
        PullSteps, RmSteps, GCSteps, ProcInv, Goto
<1>0. /\ TypeOK /\ ProcInv(p) /\ view[p] \in Indexes /\ index \in Indexes
      /\ NamedIsWhole
  BY DEF IInv, TypeOK
<1>1. ASSUME Fetch(p) PROVE ProcInv(p)' /\ NamedIsWhole'
  BY <1>0, <1>1 DEF TypeOK, Fetch, NamedIsWhole, Tagged, Keeps, lockVars, cmdVars
<1>2. ASSUME FetchSignature(p) PROVE ProcInv(p)' /\ NamedIsWhole'
  BY <1>0, <1>2 DEF TypeOK, FetchSignature, NamedIsWhole, Tagged, Keeps,
    lockVars, cmdVars
<1>3. ASSUME DeleteSignature(p) PROVE ProcInv(p)' /\ NamedIsWhole'
  <2>1. Sig[img[p]] \notin Keeps(index)
    BY <1>0, <1>3, UntaggedSignatureIsFree DEF DeleteSignature
  <2> QED BY <1>0, <1>3, <2>1 DEF TypeOK, DeleteSignature, NamedIsWhole, Tagged,
        Keeps, lockVars, cmdVars
<1>4. ASSUME Sweep(p) PROVE ProcInv(p)' /\ NamedIsWhole'
  BY <1>0, <1>4 DEF TypeOK, Sweep, NamedIsWhole, Tagged, Keeps, lockVars, cmdVars
<1> QED BY <1>1, <1>2, <1>3, <1>4

\* A step of the writer that changes its view.
LEMMA OwnViewKept ==
  ASSUME IInv, NEW p \in Procs,
         \/ TagModel(p) \/ TagSignature(p) \/ Untag(p) \/ Unsign(p)
         \/ UnlinkOrphan(p) \/ Resave(p)
  PROVE  ProcInv(p)'
<1> USE SaveSteps
    DEF StepOfCommand, LockHeld, Fresh, Known, Holding, Locked, ReadSteps,
        PullSteps, RmSteps, GCSteps, ProcInv, Goto, BeginSave
<1>0. TypeOK /\ ProcInv(p) /\ view[p] \in Indexes /\ ref[p] \in Refs
  BY DEF IInv, TypeOK
<1>1. ASSUME TagModel(p) PROVE ProcInv(p)'
  BY <1>0, <1>1 DEF TypeOK, TagModel, Tagged, lockVars, cmdVars
<1>2. ASSUME TagSignature(p) PROVE ProcInv(p)'
  BY <1>0, <1>2 DEF TypeOK, TagSignature, Tagged, lockVars, cmdVars
<1>3. ASSUME Untag(p) PROVE ProcInv(p)'
  <2>1. view[p].tags[ref[p]] \in Images \cup {None}
    BY <1>0 DEF Indexes
  <2> QED BY <1>0, <1>3, <2>1 DEF TypeOK, Untag, Tagged, lockVars, cmdVars
<1>4. ASSUME Unsign(p) PROVE ProcInv(p)'
  <2>1. pc[p] = "attached" /\ view[p] = index /\ img[p] \in Images
    BY <1>0, <1>4 DEF Unsign
  <2>2. ASSUME ~Held(view[p], img[p]),
               BeginSave(p, [view[p] EXCEPT !.sigs = @ \ {img[p]}], "unsigning")
        PROVE  ProcInv(p)'
    <3>1. /\ pc'[p] = "unsigning" /\ saver' = p
          /\ view'[p] = [index EXCEPT !.sigs = @ \ {img[p]}]
      BY <1>0, <2>1, <2>2 DEF TypeOK
    <3>2. img[p] \notin Tagged(index)
      BY <2>1, <2>2 DEF Held
    <3> QED BY <1>0, <1>4, <2>1, <3>1, <3>2 DEF Unsign, Tagged, lockVars, cmdVars
  <2>3. ASSUME Goto(p, "unlock"), UNCHANGED <<saver, view>> PROVE ProcInv(p)'
    BY <1>0, <1>4, <2>3 DEF TypeOK, Unsign, Tagged, lockVars, cmdVars
  <2> QED BY <1>4, <2>2, <2>3 DEF Unsign
<1>5. ASSUME UnlinkOrphan(p) PROVE ProcInv(p)'
  <2>1. \A i \in Orphans(view[p]) : i \in Images /\ i \notin Tagged(view[p])
    BY <1>0 DEF Orphans, Indexes
  <2>2. pc[p] = "unlink" /\ view[p] = index
    BY <1>0, <1>5 DEF UnlinkOrphan
  <2>3. ASSUME NEW i \in Orphans(view[p]), img' = [img EXCEPT ![p] = i],
               BeginSave(p, [view[p] EXCEPT !.sigs = @ \ {i}], "unlinking")
        PROVE  ProcInv(p)'
    <3>1. /\ pc'[p] = "unlinking" /\ saver' = p /\ img'[p] = i
          /\ view'[p] = [index EXCEPT !.sigs = @ \ {i}]
      BY <1>0, <2>2, <2>3 DEF TypeOK
    <3> QED BY <1>0, <1>5, <2>1, <2>2, <3>1
            DEF UnlinkOrphan, Tagged, lockVars, cmdVars
  <2>4. ASSUME Goto(p, "sweep"), UNCHANGED <<saver, view, img>> PROVE ProcInv(p)'
    BY <1>0, <1>5, <2>4 DEF TypeOK, UnlinkOrphan, Tagged, lockVars, cmdVars
  <2> QED BY <1>5, <2>3, <2>4 DEF UnlinkOrphan
<1>6. ASSUME Resave(p) PROVE ProcInv(p)'
  BY <1>0, <1>6 DEF TypeOK, Resave, Tagged, lockVars, cmdVars
<1> QED BY <1>1, <1>2, <1>3, <1>4, <1>5, <1>6

-----------------------------------------------------------------------------
(* The inductive invariant, and what follows from it.                      *)

LEMMA InvStep ==
  ASSUME IInv, NEW p \in Procs,
         \/ \E o \in Ops, r \in Refs : Begin(p, o, r)
         \/ Open(p) \/ Acquire(p) \/ GiveUp(p) \/ LockedStep(p) \/ Crash(p)
  PROVE  IInv'
<1>1. TypeOK'
  BY TypeStep
<1>2. \A q \in Procs : q # p => ProcInv(q)'
  BY OthersFramed, OthersKept
<1>3. CASE \/ \E o \in Ops, r \in Refs : Begin(p, o, r)
           \/ Open(p) \/ GiveUp(p) \/ Resolve(p) \/ PullEnds(p)
           \/ Lookup(p) \/ ReadDone(p)
  <2>1. UNCHANGED <<writer, readers, index, blobs>>
    BY <1>3 DEF Begin, Open, GiveUp, Resolve, PullEnds, Lookup, ReadDone,
      diskVars, lockVars
  <2>2. ProcInv(p)'
    BY <1>3, OwnQuietKept
  <2> QED BY <1>1, <1>2, <2>1, <2>2 DEF IInv, NamedIsWhole, Keeps, Tagged
<1>4. CASE Acquire(p) \/ Reload(p) \/ Unlock(p) \/ Crash(p)
  <2>1. UNCHANGED <<index, blobs>>
    BY <1>4 DEF Acquire, Reload, Unlock, Crash, diskVars
  <2>2. ProcInv(p)' /\ (writer' # None => readers' = {})
    BY <1>4, OwnLockKept
  <2> QED BY <1>1, <1>2, <2>1, <2>2 DEF IInv, NamedIsWhole, Keeps, Tagged
<1>5. CASE \/ Saved(p) \/ Fetch(p) \/ FetchSignature(p) \/ DeleteSignature(p)
           \/ Sweep(p)
  <2>1. UNCHANGED <<writer, readers>>
    BY <1>5 DEF Saved, Fetch, FetchSignature, DeleteSignature, Sweep, lockVars
  <2>2. ProcInv(p)' /\ NamedIsWhole'
    BY <1>5, OwnSavedKept, OwnBlobsKept
  <2> QED BY <1>1, <1>2, <2>1, <2>2 DEF IInv
<1>6. CASE \/ TagModel(p) \/ TagSignature(p) \/ Untag(p) \/ Unsign(p)
           \/ UnlinkOrphan(p) \/ Resave(p)
  <2>1. UNCHANGED <<writer, readers, index, blobs>>
    BY <1>6 DEF TagModel, TagSignature, Untag, Unsign, UnlinkOrphan, Resave,
      lockVars
  <2>2. ProcInv(p)'
    BY <1>6, OwnViewKept
  <2> QED BY <1>1, <1>2, <2>1, <2>2 DEF IInv, NamedIsWhole, Keeps, Tagged
<1> QED BY <1>3, <1>4, <1>5, <1>6 DEF LockedStep, PullStep, RmStep, GCStep

LEMMA Inductive == Spec => []IInv
<1>1. IInv /\ [Next]_vars => IInv'
  <2> SUFFICES ASSUME IInv, [Next]_vars PROVE IInv'
    OBVIOUS
  <2>1. CASE Next
    BY <2>1, InvStep DEF Next
  <2>2. CASE UNCHANGED vars
    BY <2>2 DEF vars, diskVars, lockVars, cmdVars, IInv, TypeOK, NamedIsWhole,
      Keeps, Tagged, ProcInv, StepOfCommand, LockHeld, Fresh, Known, Holding
  <2> QED BY <2>1, <2>2
<1> QED BY InitInv, <1>1, PTL DEF Spec

\* The type invariant holds of every store and any number of processes.
THEOREM StoreTypeCorrect == Spec => []TypeOK
<1>1. IInv => TypeOK
  BY DEF IInv
<1> QED BY <1>1, Inductive, PTL

\* Store.reload's promise: no command holds the lock with a stale view.
THEOREM NoStaleViewUnderLock == Spec => []FreshUnderLock
<1>1. IInv => FreshUnderLock
  BY DEF IInv, ProcInv, Fresh, LockHeld, FreshUnderLock
<1> QED BY <1>1, Inductive, PTL

\* Nothing named is missing from disk, at any step of any command and after
\* any crash.
THEOREM NamedStaysWhole == Spec => []NamedIsWhole
<1>1. IInv => NamedIsWhole
  BY DEF IInv
<1> QED BY <1>1, Inductive, PTL

\* A command reading under the shared lock finds all of its model.
THEOREM ReadersReadWhole == Spec => []ReadsWholeModel
<1>1. IInv => ReadsWholeModel
  BY TaggedKept DEF IInv, ProcInv, Known, NamedIsWhole, ReadsWholeModel
<1> QED BY <1>1, Inductive, PTL

\* No reader sees a model between its tag and its signature.
THEOREM HalfPullsUnread == Spec => []NoHalfPullRead
<1>1. IInv => NoHalfPullRead
  <2> SUFFICES ASSUME IInv, NEW p \in Procs, NEW q \in Procs,
                      pc[p] = "reading",
                      pc[q] \in {"signature", "signed", "signing"}
               PROVE  FALSE
    BY DEF NoHalfPullRead
  <2>1. writer = q /\ q # p
    BY WriterHolds DEF WriterSteps, PullSteps
  <2>2. ~Holding(p)
    BY <2>1, WriterAlone
  <2> QED BY <2>2 DEF Holding, Locked
<1> QED BY <1>1, Inductive, PTL

-----------------------------------------------------------------------------
(* The processes keep the store's promise.                                 *)

LEMMA SavedIsPromised ==
  ASSUME IInv, NEW p \in Procs, Saved(p)
  PROVE  [Promise!Next]_(Promise!vars)
<1> USE SaveSteps DEF Promise!Next, Promise!vars
<1>1. /\ pc[p] \in Saving /\ index' = view[p] /\ blobs' = blobs
      /\ ref[p] \in Refs /\ ProcInv(p)
  BY DEF IInv, TypeOK, Saved, Saving
<1>2. CASE pc[p] = "tagging"
  <2>1. img[p] \in Images /\ Promise!Publish(ref[p], img[p])
    BY <1>1, <1>2 DEF ProcInv, Known, PullSteps, Promise!Publish, Content,
      Promise!Content
  <2> QED BY <1>1, <2>1
<1>3. CASE pc[p] = "signing"
  <2>1. img[p] \in Images /\ Promise!Attach(img[p])
    BY <1>1, <1>3 DEF ProcInv, Known, PullSteps, Promise!Attach, Tagged,
      Promise!Tagged
  <2> QED BY <2>1
<1>4. CASE pc[p] = "untagging"
  <2>1. Promise!Unlink(ref[p])
    BY <1>1, <1>4 DEF ProcInv, Known, Promise!Unlink
  <2> QED BY <1>1, <2>1
<1>5. CASE pc[p] \in {"unsigning", "unlinking"}
  <2>1. img[p] \in Images /\ Promise!Detach(img[p])
    BY <1>1, <1>5 DEF ProcInv, Known, Promise!Detach, Tagged, Promise!Tagged
  <2> QED BY <2>1
<1>6. CASE pc[p] = "resaving"
  BY <1>1, <1>6 DEF ProcInv, Known
<1> QED BY <1>1, <1>2, <1>3, <1>4, <1>5, <1>6

LEMMA BlobsArePromised ==
  ASSUME IInv, NEW p \in Procs,
         Fetch(p) \/ FetchSignature(p) \/ DeleteSignature(p) \/ Sweep(p)
  PROVE  [Promise!Next]_(Promise!vars)
<1> USE SaveSteps DEF Promise!Next, Promise!vars
<1>0. Blobs = Promise!Blobs /\ Keeps(index) = Promise!Keeps(index)
  BY DEF Blobs, Promise!Blobs, Content, Promise!Content, Keeps, Promise!Keeps,
    Tagged, Promise!Tagged
<1>1. TypeOK /\ TypeOK' /\ ProcInv(p) /\ index \in Indexes
  BY TypeStep DEF IInv, TypeOK, LockedStep, PullStep, RmStep, GCStep
<1>2. ASSUME NEW b \in Blobs, blobs' = blobs \cup {b}, index' = index
      PROVE  Promise!Next
  BY <1>0, <1>2 DEF Promise!Arrive
<1>3. ASSUME NEW b \in Blobs, blobs' = blobs \ {b}, index' = index,
             b \notin Keeps(index)
      PROVE  Promise!Next
  BY <1>0, <1>3 DEF Promise!Reclaim
<1>4. CASE Fetch(p) \/ FetchSignature(p)
  <2>1. PICK b : blobs' = blobs \cup {b} /\ index' = index
    BY <1>4 DEF Fetch, FetchSignature
  <2>2. b \in Blobs
    BY <1>1, <2>1 DEF TypeOK
  <2> QED BY <1>2, <2>1, <2>2
<1>5. CASE DeleteSignature(p)
  <2>1. /\ img[p] \in Images /\ Sig[img[p]] \in Blobs
        /\ Sig[img[p]] \notin Keeps(index)
    BY <1>1, <1>5, UntaggedSignatureIsFree
    DEF DeleteSignature, ProcInv, Known, Blobs
  <2> QED BY <1>3, <1>5, <2>1 DEF DeleteSignature
<1>6. CASE Sweep(p)
  <2>1. view[p] = index
    BY <1>1, <1>6 DEF Sweep, ProcInv, Fresh, Locked
  <2> QED BY <1>1, <1>3, <1>6, <2>1 DEF Sweep, TypeOK
<1> QED BY <1>4, <1>5, <1>6

\* The detailed store implements the abstract one: no update is lost, a
\* reference is only ever published over what has arrived, a signature goes
\* after its model, and only what nothing names is reclaimed.
THEOREM StoreKeepsPromise == Spec => KeepsPromise
<1>1. Init => Promise!Init
  BY DEF Init, Empty, Promise!Init
<1>2. IInv /\ [Next]_vars => [Promise!Next]_(Promise!vars)
  <2> SUFFICES ASSUME IInv, [Next]_vars PROVE [Promise!Next]_(Promise!vars)
    OBVIOUS
  <2>1. ASSUME NEW p \in Procs,
               \/ \E o \in Ops, r \in Refs : Begin(p, o, r)
               \/ Open(p) \/ Acquire(p) \/ GiveUp(p) \/ LockedStep(p)
               \/ Crash(p)
        PROVE  [Promise!Next]_(Promise!vars)
    <3>1. CASE \/ Saved(p) \/ Fetch(p) \/ FetchSignature(p)
               \/ DeleteSignature(p) \/ Sweep(p)
      BY <3>1, SavedIsPromised, BlobsArePromised
    <3>2. CASE ~(\/ Saved(p) \/ Fetch(p) \/ FetchSignature(p)
                 \/ DeleteSignature(p) \/ Sweep(p))
      <4>1. UNCHANGED <<index, blobs>>
        BY <2>1, <3>2 DEF LockedStep, PullStep, RmStep, GCStep, Begin, Open,
          Acquire, GiveUp, Crash, Reload, Unlock, Resolve, TagModel,
          TagSignature, PullEnds, Untag, Unsign, UnlinkOrphan, Resave, Lookup,
          ReadDone, diskVars
      <4> QED BY <4>1 DEF Promise!vars
    <3> QED BY <3>1, <3>2
  <2>2. CASE UNCHANGED vars
    BY <2>2 DEF vars, diskVars, Promise!vars
  <2> QED BY <2>1, <2>2 DEF Next
<1> QED BY <1>1, <1>2, Inductive, PTL DEF Spec, KeepsPromise, Promise!Spec
=============================================================================
