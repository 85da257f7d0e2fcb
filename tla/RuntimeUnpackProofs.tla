------------------------ MODULE RuntimeUnpackProofs ------------------------
(***************************************************************************)
(* Two theorems of RuntimeUnpack, for any builds, blobs and number of      *)
(* processes: what a gated command executes verified, and the tree it      *)
(* executes is what the manifest says.                                     *)
(***************************************************************************)
EXTENDS RuntimeUnpack, TLAPS

Places ==
  {"idle", "gate", "accept", "wait", "match", "stage", "rename", "ready", "refused"}

Commands ==
  [at : Places, gated : BOOLEAN, build : Builds \cup {None}, alone : BOOLEAN]

\* As much of the variables' kinds as the proofs need: what is staged and
\* what is in a tree may be anything.
Kinds ==
  /\ proc \in [Procs -> Commands]
  /\ origin \in Builds
  /\ tag \in Builds \cup {None}
  /\ staging = [p \in Procs |-> staging[p]]
  /\ tree = [b \in Builds |-> tree[b]]
  /\ \A p \in Procs :
       proc[p].at \notin {"idle", "refused"} => proc[p].build \in Builds

\* Past the gate, a gated command is about a build that verified.
PastTheGate ==
  \A p \in Procs :
    proc[p].at \notin {"idle", "gate", "refused"} /\ proc[p].gated =>
      proc[p].build \in Signed

\* Only the holder of the unpack lock looks at a tree and replaces it, and
\* what is about to be renamed is whole.
Unpacking(p) == proc[p].at \in {"match", "stage", "rename"}

OneUnpacks ==
  \A p \in Procs :
    /\ Unpacking(p) => unpacker = p
    /\ proc[p].at = "rename" => staging[p] = Manifest(proc[p].build)

\* Whoever replaces a tree has seen that it is nobody's: an engine that was
\* given it whole has had it changed since.
NobodysTree ==
  \A p, q \in Procs :
    /\ proc[q].at \in {"stage", "rename"}
    /\ proc[p].at = "ready" /\ p \notin meddled
    => proc[p].build # proc[q].build

IInv ==
  /\ Kinds
  /\ PastTheGate
  /\ OneUnpacks
  /\ NobodysTree
  /\ EngineHasItsTree

-----------------------------------------------------------------------------
\* Every command begins idle, with no tree in anyone's hands.
LEMMA InitInv == ASSUME Init PROVE IInv
<1>1. proc \in [Procs -> Commands] /\ \A p \in Procs : proc[p].at = "idle"
  BY DEF Init, Idle, Commands, Places
<1>2. Kinds
  BY <1>1 DEF Init, Kinds
<1> QED
  BY <1>1, <1>2 DEF IInv, PastTheGate, OneUnpacks, Unpacking, NobodysTree,
    EngineHasItsTree

\* What a command may do while it holds no tree: it goes from one place to
\* another, or takes up a build; no tree and nothing staged changes, and the
\* lock is where it was or in its hands.
LEMMA Elsewhere ==
  ASSUME IInv, NEW p \in Procs, NEW command \in Commands,
         proc' = [proc EXCEPT ![p] = command],
         proc[p].at # "ready",
         command.at \in {"idle", "gate", "accept", "wait", "match", "refused"},
         command.at \notin {"idle", "refused"} => command.build \in Builds,
         command.at \notin {"idle", "gate", "refused"} /\ command.gated
           => command.build \in Signed,
         UNCHANGED <<origin, tree, meddled>>,
         tag' \in Builds \cup {None},
         staging' = [q \in Procs |-> staging'[q]],
         \A q \in Procs \ {p} : staging'[q] = staging[q],
         command.at = "match" => unpacker' = p,
         \A q \in Procs \ {p} : Unpacking(q) => unpacker' = q
  PROVE  IInv'
<1> USE DEF IInv
<1>1. \A q \in Procs : proc'[q] = IF q = p THEN command ELSE proc[q]
  BY DEF Kinds
<1>2. Kinds'
  BY <1>1 DEF Kinds
<1>3. PastTheGate'
  BY <1>1 DEF PastTheGate
<1>4. OneUnpacks'
  BY <1>1 DEF OneUnpacks, Unpacking
<1>5. NobodysTree'
  BY <1>1 DEF NobodysTree
<1>6. EngineHasItsTree'
  BY <1>1 DEF EngineHasItsTree
<1> QED BY <1>2, <1>3, <1>4, <1>5, <1>6

\* What happens around the commands leaves them where they are, and counts
\* whoever's tree is changed among the meddled with.
LEMMA Around ==
  ASSUME IInv,
         UNCHANGED <<staging, unpacker, proc>>,
         origin' \in Builds, tag' \in Builds \cup {None},
         tree' = [b \in Builds |-> tree'[b]],
         meddled \subseteq meddled',
         \A p \in Procs \ meddled' :
           proc[p].at = "ready" => tree'[proc[p].build] = tree[proc[p].build]
  PROVE  IInv'
<1> USE DEF IInv
<1>1. Kinds' /\ PastTheGate' /\ OneUnpacks'
  BY DEF Kinds, PastTheGate, OneUnpacks, Unpacking
<1>2. NobodysTree'
  BY DEF NobodysTree
<1>3. EngineHasItsTree'
  BY DEF EngineHasItsTree
<1> QED BY <1>1, <1>2, <1>3

-----------------------------------------------------------------------------
(* The steps of a command that has the tree in hand.                       *)

\* A tree that matches is handed back; any other is nobody's.
LEMMA MatchInv ==
  ASSUME IInv, NEW p \in Procs, Match(p) PROVE IInv'
<1> USE DEF IInv
<1>1. proc[p].at = "match" /\ UNCHANGED <<origin, tag, tree, meddled>>
  BY DEF Match, storeVars
<1>2. \A q \in Procs \ {p} : ~Unpacking(q)
  BY <1>1 DEF OneUnpacks, Unpacking
<1>3. CASE tree[proc[p].build] = Manifest(proc[p].build)
  <2>1. /\ proc' = [proc EXCEPT ![p].at = "ready"]
        /\ staging' = [staging EXCEPT ![p] = None]
    BY <1>3 DEF Match, Leaves, Goto
  <2>2. \A q \in Procs :
          proc'[q] = IF q = p THEN [proc[p] EXCEPT !.at = "ready"] ELSE proc[q]
    BY <2>1 DEF Kinds
  <2>3. Kinds'
    BY <1>1, <2>1, <2>2 DEF Kinds, Commands, Places
  <2>4. PastTheGate' /\ OneUnpacks' /\ NobodysTree'
    BY <1>1, <1>2, <2>2 DEF Kinds, Commands, PastTheGate, OneUnpacks, Unpacking, NobodysTree
  <2>5. EngineHasItsTree'
    BY <1>1, <1>3, <2>2 DEF EngineHasItsTree, Kinds, Commands
  <2> QED BY <2>3, <2>4, <2>5
<1>4. CASE tree[proc[p].build] # Manifest(proc[p].build)
  <2>1. /\ proc' = [proc EXCEPT ![p].at = "stage"]
        /\ staging' = [staging EXCEPT ![p] = {}]
        /\ unpacker' = unpacker
    BY <1>4 DEF Match, Goto
  <2>2. \A q \in Procs :
          proc'[q] = IF q = p THEN [proc[p] EXCEPT !.at = "stage"] ELSE proc[q]
    BY <2>1 DEF Kinds
  <2>3. Kinds'
    BY <1>1, <2>1, <2>2 DEF Kinds, Commands, Places
  <2>4. PastTheGate' /\ OneUnpacks'
    BY <1>1, <1>2, <2>1, <2>2 DEF Kinds, Commands, PastTheGate, OneUnpacks, Unpacking
  <2>5. EngineHasItsTree'
    BY <1>1, <2>2 DEF EngineHasItsTree, Kinds, Commands
  <2>6. \A q \in Procs : proc[q].at = "ready" /\ q \notin meddled =>
          proc[q].build # proc[p].build
    BY <1>4 DEF EngineHasItsTree
  <2>7. NobodysTree'
    BY <1>1, <1>2, <2>2, <2>6 DEF NobodysTree, Kinds, Commands, Unpacking
  <2> QED BY <2>3, <2>4, <2>5, <2>7
<1> QED BY <1>3, <1>4

\* One more file, or the end of this unpack.
LEMMA StageFileInv ==
  ASSUME IInv, NEW p \in Procs, StageFile(p) PROVE IInv'
<1>1. /\ proc[p].at = "stage"
      /\ UNCHANGED <<origin, tag, tree, meddled>>
  BY DEF StageFile, storeVars
<1>2. CASE \E file \in Manifest(proc[p].build) \ staging[p] :
             /\ staging' = [staging EXCEPT ![p] = @ \cup {file}]
             /\ UNCHANGED <<unpacker, proc>>
  <2>1. \A q \in Procs \ {p} : staging'[q] = staging[q]
    BY <1>2
  <2>2. staging' = [q \in Procs |-> staging'[q]]
    BY <1>2 DEF IInv, Kinds
  <2>3. Kinds' /\ PastTheGate'
    BY <1>1, <1>2, <2>2 DEF IInv, Kinds, PastTheGate
  <2>4. OneUnpacks' /\ NobodysTree' /\ EngineHasItsTree'
    BY <1>1, <1>2, <2>1 DEF IInv, OneUnpacks, Unpacking, NobodysTree,
      EngineHasItsTree
  <2> QED BY <2>3, <2>4 DEF IInv
<1>3. CASE Leaves(p, "refused")
  <2> DEFINE command == [proc[p] EXCEPT !.at = "refused"]
  <2>1. proc[p] \in Commands /\ command \in Commands /\ command.at = "refused"
    BY DEF IInv, Kinds, Commands, Places
  <2>2. proc' = [proc EXCEPT ![p] = command]
    BY <1>3 DEF Leaves, Goto
  <2>3. staging' = [q \in Procs |-> staging'[q]]
        /\ \A q \in Procs \ {p} : staging'[q] = staging[q]
    BY <1>3 DEF Leaves, IInv, Kinds
  <2>4. \A q \in Procs \ {p} : ~Unpacking(q)
    BY <1>1 DEF IInv, OneUnpacks, Unpacking
  <2>5. tag' \in Builds \cup {None}
    BY <1>1 DEF IInv, Kinds
  <2> HIDE DEF command
  <2> QED BY <1>1, <2>1, <2>2, <2>3, <2>4, <2>5, Elsewhere
<1> QED BY <1>2, <1>3 DEF StageFile, Leaves

\* The tree that goes is nobody's.
LEMMA RemoveTreeInv ==
  ASSUME IInv, NEW p \in Procs, RemoveTree(p) PROVE IInv'
<1> USE DEF IInv
<1>1. /\ proc[p].at = "stage" /\ staging[p] = Manifest(proc[p].build)
      /\ tree' = [tree EXCEPT ![proc[p].build] = None]
      /\ proc' = [proc EXCEPT ![p].at = "rename"]
      /\ UNCHANGED <<origin, tag, meddled, staging, unpacker>>
  BY DEF RemoveTree, Goto, storeVars
<1>2. \A q \in Procs :
        proc'[q] = IF q = p THEN [proc[p] EXCEPT !.at = "rename"] ELSE proc[q]
  BY <1>1 DEF Kinds
<1>3. Kinds'
  BY <1>1, <1>2 DEF Kinds, Commands, Places
<1>4. PastTheGate' /\ OneUnpacks' /\ NobodysTree'
  BY <1>1, <1>2 DEF Kinds, Commands, PastTheGate, OneUnpacks, Unpacking,
    NobodysTree
<1>5. EngineHasItsTree'
  BY <1>1, <1>2 DEF EngineHasItsTree, NobodysTree, Kinds, Commands
<1> QED BY <1>3, <1>4, <1>5

\* The one that comes is whole, and given to whoever brought it.
LEMMA RenameInv ==
  ASSUME IInv, NEW p \in Procs, Rename(p) PROVE IInv'
<1> USE DEF IInv
<1>1. /\ proc[p].at = "rename" /\ staging[p] = Manifest(proc[p].build)
      /\ UNCHANGED <<origin, tag>>
  BY DEF Rename, storeVars, OneUnpacks
<1>2. \A q \in Procs \ {p} : ~Unpacking(q)
  BY <1>1 DEF OneUnpacks, Unpacking
<1>3. CASE tree[proc[p].build] = None
  <2>1. /\ tree' = [tree EXCEPT ![proc[p].build] = staging[p]]
        /\ proc' = [proc EXCEPT ![p].at = "ready"]
        /\ staging' = [staging EXCEPT ![p] = None]
        /\ meddled' = meddled
    BY <1>3 DEF Rename, Leaves, Goto
  <2>2. \A q \in Procs :
          proc'[q] = IF q = p THEN [proc[p] EXCEPT !.at = "ready"] ELSE proc[q]
    BY <2>1 DEF Kinds
  <2>3. Kinds'
    BY <1>1, <2>1, <2>2 DEF Kinds, Commands, Places
  <2>4. PastTheGate' /\ OneUnpacks' /\ NobodysTree'
    BY <1>1, <1>2, <2>2 DEF Kinds, Commands, PastTheGate, OneUnpacks, Unpacking, NobodysTree
  <2>5. EngineHasItsTree'
    BY <1>1, <2>1, <2>2 DEF EngineHasItsTree, NobodysTree, Kinds, Commands
  <2> QED BY <2>3, <2>4, <2>5
<1>4. CASE tree[proc[p].build] # None
  <2> DEFINE command == [proc[p] EXCEPT !.at = "refused"]
  <2>1. proc[p] \in Commands /\ command \in Commands /\ command.at = "refused"
    BY DEF Kinds, Commands, Places
  <2>2. proc' = [proc EXCEPT ![p] = command] /\ UNCHANGED <<tree, meddled>>
    BY <1>4 DEF Rename, Leaves, Goto
  <2>3. staging' = [q \in Procs |-> staging'[q]]
        /\ \A q \in Procs \ {p} : staging'[q] = staging[q]
    BY <1>4 DEF Rename, Leaves, Kinds
  <2>4. tag' \in Builds \cup {None}
    BY <1>1 DEF Kinds
  <2> HIDE DEF command, IInv
  <2> QED BY <1>1, <1>2, <2>1, <2>2, <2>3, <2>4, Elsewhere
<1> QED BY <1>3, <1>4

-----------------------------------------------------------------------------
\* What a command may do before it has a tree, and its death.
LEMMA BeforeInv ==
  ASSUME IInv, NEW p \in Procs,
         \/ CheckRuntime(p) \/ PullRuntime(p) \/ GateRuntime(p)
         \/ Accept(p) \/ TakeUnpackLock(p) \/ Crash(p)
  PROVE  IInv'
<1> USE DEF IInv
<1> DEFINE command == proc'[p]
<1>1. proc[p] \in Commands
  BY DEF Kinds
<1>2. proc[p].at # "ready"
  BY DEF CheckRuntime, PullRuntime, GateRuntime, Accept, TakeUnpackLock, Crash, Busy
<1>3. UNCHANGED <<origin, tree, meddled>> /\ tag' \in Builds \cup {None}
  BY DEF CheckRuntime, PullRuntime, GateRuntime, Accept, TakeUnpackLock, Crash,
    storeVars, treeVars, Kinds
<1>4. /\ command \in Commands /\ proc' = [proc EXCEPT ![p] = command]
      /\ command.at \in {"idle", "gate", "accept", "wait", "match", "refused"}
      /\ command.at \notin {"idle", "refused"} => command.build \in Builds
      /\ command.at \notin {"idle", "gate", "refused"} /\ command.gated
           => command.build \in Signed
      /\ staging' = [q \in Procs |-> staging'[q]]
      /\ \A q \in Procs \ {p} : staging'[q] = staging[q]
      /\ command.at = "match" => unpacker' = p
      /\ \A q \in Procs \ {p} : Unpacking(q) => unpacker' = q
  <2>1. CASE CheckRuntime(p)
    <3>1. PICK gated \in BOOLEAN : proc' = [proc EXCEPT ![p] =
            [at |-> IF tag = None THEN "refused" ELSE IF gated THEN "gate" ELSE "accept",
             gated |-> gated, build |-> tag, alone |-> FALSE]]
      BY <2>1 DEF CheckRuntime
    <3>2. UNCHANGED <<staging, unpacker>>
      BY <2>1 DEF CheckRuntime, treeVars
    <3> QED BY <3>1, <3>2 DEF Kinds, Commands, Places, OneUnpacks
  <2>2. CASE PullRuntime(p)
    <3>1. UNCHANGED <<staging, unpacker>> /\ proc[p].at = "idle"
      BY <2>2 DEF PullRuntime, treeVars
    <3>2. PICK gated \in BOOLEAN :
            IF gated /\ origin \notin Signed
            THEN proc' = [proc EXCEPT ![p].at = "refused"]
            ELSE proc' = [proc EXCEPT ![p] = [at |-> "accept", gated |-> gated,
                                              build |-> origin, alone |-> TRUE]]
      BY <2>2 DEF PullRuntime, Goto
    <3>3. CASE gated /\ origin \notin Signed
      BY <3>1, <3>2, <3>3, <1>1 DEF Kinds, Commands, Places, OneUnpacks
    <3>4. CASE ~(gated /\ origin \notin Signed)
      <4>1. command = [at |-> "accept", gated |-> gated, build |-> origin, alone |-> TRUE]
            /\ proc' = [proc EXCEPT ![p] = command]
        BY <3>2, <3>4 DEF Kinds
      <4>2. command \in Commands
        BY <4>1 DEF Kinds, Commands, Places
      <4> QED BY <3>1, <3>4, <4>1, <4>2 DEF Kinds, OneUnpacks
    <3> QED BY <3>3, <3>4
  <2>3. CASE GateRuntime(p)
    <3>1. UNCHANGED <<staging, unpacker>> /\ proc[p].at = "gate"
      BY <2>3 DEF GateRuntime, treeVars
    <3>2. PICK subject \in {tag, origin} :
            proc' = [proc EXCEPT ![p].at =
              IF subject \in Signed /\ subject = proc[p].build THEN "accept" ELSE "refused"]
      BY <2>3 DEF GateRuntime, Goto
    <3> QED BY <3>1, <3>2, <1>1 DEF Kinds, Commands, Places, OneUnpacks
  <2>4. CASE Accept(p)
    <3>1. /\ UNCHANGED <<staging, unpacker>> /\ proc[p].at = "accept"
          /\ \/ proc' = [proc EXCEPT ![p].at = "wait"]
             \/ proc' = [proc EXCEPT ![p].at = "refused"]
      BY <2>4 DEF Accept, treeVars, Goto
    <3> QED BY <3>1, <1>1 DEF Kinds, Commands, Places, OneUnpacks, PastTheGate
  <2>5. CASE TakeUnpackLock(p)
    <3>1. /\ staging' = staging /\ proc[p].at = "wait" /\ unpacker = None
          /\ \/ proc' = [proc EXCEPT ![p].at = "match"] /\ unpacker' = p
             \/ proc' = [proc EXCEPT ![p].at = "refused"]
      BY <2>5 DEF TakeUnpackLock, Goto
    <3>2. \A q \in Procs : ~Unpacking(q)
      BY <3>1, UnpackAssumption DEF OneUnpacks
    <3> QED BY <3>1, <3>2, <1>1 DEF Kinds, Commands, Places, PastTheGate
  <2>6. CASE Crash(p)
    <3>1. /\ proc' = [proc EXCEPT ![p] = Idle]
          /\ unpacker' = IF unpacker = p THEN None ELSE unpacker
          /\ staging' = [staging EXCEPT ![p] = None]
      BY <2>6 DEF Crash
    <3>2. Idle \in Commands
      BY DEF Idle, Commands, Places
    <3> QED BY <3>1, <3>2, <1>1 DEF Kinds, Idle, OneUnpacks
  <2> QED BY <2>1, <2>2, <2>3, <2>4, <2>5, <2>6
<1> HIDE DEF command, IInv
<1> QED BY <1>2, <1>3, <1>4, Elsewhere

\* What others do to the store, to a tree or above it.
LEMMA AroundInv ==
  ASSUME IInv,
         \/ \E b \in Builds : Pack(b) \/ Meddle(b)
         \/ LinkAbove \/ AlterBlob \/ MoveTag
         \/ UNCHANGED vars
  PROVE  IInv'
<1>1. /\ UNCHANGED <<staging, unpacker, proc>>
      /\ origin' \in Builds /\ tag' \in Builds \cup {None}
      /\ meddled \subseteq meddled'
  BY DEF Pack, Meddle, LinkAbove, AlterBlob, MoveTag, vars, storeVars, treeVars, IInv, Kinds
<1>2. /\ tree' = [b \in Builds |-> tree'[b]]
      /\ \A p \in Procs \ meddled' :
           proc[p].at = "ready" => tree'[proc[p].build] = tree[proc[p].build]
  <2>1. CASE tree' = tree
    BY <2>1 DEF IInv, Kinds
  <2>2. ASSUME NEW build \in Builds, Meddle(build)
        PROVE  /\ tree' = [b \in Builds |-> tree'[b]]
               /\ \A p \in Procs \ meddled' :
                    proc[p].at = "ready" => tree'[proc[p].build] = tree[proc[p].build]
    <3>1. PICK t : tree' = [tree EXCEPT ![build] = t]
      BY <2>2 DEF Meddle
    <3>2. \A p \in Procs : proc[p].at = "ready" /\ proc[p].build = build => p \in meddled'
      BY <2>2 DEF Meddle
    <3> QED BY <3>1, <3>2 DEF IInv, Kinds
  <2> QED BY <2>1, <2>2 DEF Pack, LinkAbove, AlterBlob, MoveTag, vars, treeVars
<1> QED BY <1>1, <1>2, Around

LEMMA NextInv == ASSUME IInv, [Next]_vars PROVE IInv'
BY BeforeInv, MatchInv, StageFileInv, RemoveTreeInv, RenameInv, AroundInv
   DEF Next, Working

\* The invariant the two theorems rest on.
THEOREM Inductive == Spec => []IInv
BY InitInv, NextInv, PTL DEF Spec

\* Whatever the registry says in between, a gated command executes a build
\* whose signature verified (checkRuntime and Ensure).
THEOREM AdmittedIsExecuted == Spec => []EngineIsAdmitted
<1>1. IInv => EngineIsAdmitted
  BY DEF IInv, PastTheGate, EngineIsAdmitted
<1> QED BY <1>1, Inductive, PTL

\* An engine is started from exactly the files of its manifest, and no unpack
\* of any other process takes them away (Ensure and its unpack lock).
THEOREM TreeIsWhole == Spec => []EngineHasItsTree
<1>1. IInv => EngineHasItsTree
  BY DEF IInv
<1> QED BY <1>1, Inductive, PTL
=============================================================================
