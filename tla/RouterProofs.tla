---------------------------- MODULE RouterProofs ----------------------------
(***************************************************************************)
(* What holds of the router for any requests, models, pins, footprints and *)
(* budget: its type invariant, then the inductive invariant behind the     *)
(* single flight, the reaper and the owners of every child process.        *)
(***************************************************************************)
EXTENDS Router, FiniteSetTheorems, TLAPS

USE DEF reqVars, childVars, useVars, stopVars, InstOrNone

\* A request past its first lookup named a model.
ModelKnown == \A r \in Requests : pc[r] # "new" => model[r] \in Models

LEMMA TypeInductive == Spec => [](TypeOK /\ ModelKnown)
<1>1. Init => TypeOK /\ ModelKnown
  BY DEF Init, TypeOK, Steps, ModelKnown
<1>2. TypeOK /\ ModelKnown /\ [Next]_vars => TypeOK' /\ ModelKnown'
  <2> SUFFICES ASSUME TypeOK, ModelKnown, [Next]_vars
               PROVE  TypeOK' /\ ModelKnown'
    OBVIOUS
  <2> USE DEF TypeOK, Steps, Goto, Touch, UsedNow, Unload, ModelKnown
  <2>1. ASSUME NEW r \in Requests, NEW m \in Models, Lookup(r, m)
        PROVE  TypeOK' /\ ModelKnown'
    <3>1. CASE loaded[m] # None
      BY <2>1, <3>1 DEF Lookup, LoadedInsts
    <3>2. CASE loaded[m] = None
      BY <2>1, <3>2 DEF Lookup
    <3> QED
      BY <3>1, <3>2
  <2>2. ASSUME NEW r \in Requests, Join(r)
        PROVE  TypeOK' /\ ModelKnown'
    BY <2>2 DEF Join
  <2>3. ASSUME NEW r \in Requests, Recheck(r)
        PROVE  TypeOK' /\ ModelKnown'
    BY <2>3 DEF Recheck
  <2>4. ASSUME NEW r \in Requests, BackendSpec(r)
        PROVE  TypeOK' /\ ModelKnown'
    BY <2>4 DEF BackendSpec
  <2>5. ASSUME NEW r \in Requests, MakeRoom(r)
        PROVE  TypeOK' /\ ModelKnown'
    <3>1. LRU \subseteq Requests
      BY DEF LRU, Evictable, LoadedInsts
    <3>2. CASE RoomFits(r)
      BY <2>5, <3>2 DEF MakeRoom, RoomFits
    <3>3. CASE RoomRefused(r)
      BY <2>5, <3>3 DEF MakeRoom, RoomRefused
    <3>4. CASE RoomEvict(r)
      BY <2>5, <3>1, <3>4 DEF MakeRoom, RoomEvict
    <3> QED
      BY <2>5, <3>2, <3>3, <3>4 DEF MakeRoom
  <2>6. ASSUME NEW r \in Requests, Evicted(r)
        PROVE  TypeOK' /\ ModelKnown'
    BY <2>6 DEF Evicted
  <2>7. ASSUME NEW r \in Requests, Start(r)
        PROVE  TypeOK' /\ ModelKnown'
    BY <2>7 DEF Start
  <2>8. ASSUME NEW r \in Requests, WaitReady(r)
        PROVE  TypeOK' /\ ModelKnown'
    BY <2>8 DEF WaitReady
  <2>9. ASSUME NEW r \in Requests, Aborted(r)
        PROVE  TypeOK' /\ ModelKnown'
    BY <2>9 DEF Aborted
  <2>10. ASSUME NEW r \in Requests, Publish(r)
         PROVE  TypeOK' /\ ModelKnown'
    BY <2>10 DEF Publish, LoadedInsts
  <2>11. ASSUME NEW r \in Requests, FlightEnd(r)
         PROVE  TypeOK' /\ ModelKnown'
    <3>1. /\ pc' \in [Requests -> Steps]
          /\ inst' \in [Requests -> InstOrNone]
          /\ older' \in [Requests -> SUBSET Requests]
      BY <2>11 DEF FlightEnd, Land, LoadedInsts
    <3>2. ModelKnown'
      BY <2>11 DEF FlightEnd, Land, WaitingFor
    <3> QED
      BY <2>11, <3>1, <3>2 DEF FlightEnd
  <2>12. ASSUME NEW r \in Requests, Begin(r)
         PROVE  TypeOK' /\ ModelKnown'
    BY <2>12 DEF Begin, LoadedInsts
  <2>13. ASSUME NEW r \in Requests, End(r)
         PROVE  TypeOK' /\ ModelKnown'
    BY <2>13 DEF End, LoadedInsts
  <2>14. ASSUME NEW i \in Requests, Exit(i)
         PROVE  TypeOK' /\ ModelKnown'
    BY <2>14 DEF Exit
  <2>15. ASSUME NEW i \in Requests, Reap(i)
         PROVE  TypeOK' /\ ModelKnown'
    BY <2>15 DEF Reap
  <2>16. CASE Tick
    BY <2>16 DEF Tick, Evictable, LoadedInsts
  <2>17. CASE SweepStep
    <3>1. CASE SweepStop
      <4> PICK v \in sweep.victims :
            sweep' = [sweep EXCEPT !.victims = @ \ {v}, !.cur = v]
        BY <3>1 DEF SweepStop
      <4>1. v \in Requests
        OBVIOUS
      <4>2. sweep' = [state |-> sweep.state, victims |-> sweep.victims \ {v},
                      cur |-> v]
        OBVIOUS
      <4> QED
        BY <3>1, <4>1, <4>2 DEF SweepStop
    <3>2. CASE SweepStopped
      BY <3>2 DEF SweepStopped
    <3>3. CASE SweepExit
      BY <3>3 DEF SweepExit
    <3> QED
      BY <2>17, <3>1, <3>2, <3>3 DEF SweepStep
  <2>18. CASE Shutdown
    BY <2>18 DEF Shutdown, LoadedInsts
  <2>19. CASE ProcessExit
    BY <2>19 DEF ProcessExit
  <2>20. CASE UNCHANGED vars
    BY <2>20 DEF vars
  <2> QED
    BY <2>1, <2>2, <2>3, <2>4, <2>5, <2>6, <2>7, <2>8, <2>9, <2>10, <2>11,
       <2>12, <2>13, <2>14, <2>15, <2>16, <2>17, <2>18, <2>19, <2>20
       DEF Next, RequestStep, LoadStep, Exited
<1> QED
  BY <1>1, <1>2, PTL DEF Spec

\* The router's variables keep their types: every step writes values of the
\* kind the code declares, and no bookkeeping holds an instance that is none.
THEOREM TypeCorrect == Spec => []TypeOK
<1>1. TypeOK /\ ModelKnown => TypeOK
  OBVIOUS
<1> QED
  BY <1>1, TypeInductive, PTL

-----------------------------------------------------------------------------
(* The inductive invariant: who leads a flight, what rt.loaded points to,  *)
(* and which instances a request may hold.                                 *)

Leading == {"recheck", "spec", "room", "evict", "start", "ready", "abort",
            "publish", "finish"}
Loading == Leading \ {"recheck", "finish"}
Placed  == {"finish", "got", "proxy", "done", "failed"}
Holding == {"finish", "got", "proxy"}
Unborn  == {"new", "join", "wait", "recheck", "spec", "room", "evict", "start"}

FlightLed ==
  \A m \in Models :
    flight[m] # None => model[flight[m]] = m /\ pc[flight[m]] \in Leading

LeaderFlies == \A r \in Requests : pc[r] \in Leading => flight[model[r]] = r

LoadedPlaced ==
  \A m \in Models :
    loaded[m] # None => model[loaded[m]] = m /\ pc[loaded[m]] \in Placed

NotYetLoaded ==
  \A r \in Requests : pc[r] \in Loading => loaded[model[r]] = None

InstPlaced ==
  \A r \in Requests :
    inst[r] # None => /\ pc[r] \in Holding
                      /\ model[inst[r]] = model[r]
                      /\ pc[inst[r]] \in Placed

UnbornHasNoChild == \A r \in Requests : pc[r] \in Unborn => proc[r] = "none"

ClosingOnlyLater == phase = "serving" => closing = {}

IInv ==
  /\ TypeOK
  /\ ModelKnown
  /\ FlightLed
  /\ LeaderFlies
  /\ LoadedPlaced
  /\ NotYetLoaded
  /\ InstPlaced
  /\ UnbornHasNoChild
  /\ ClosingOnlyLater
  /\ EveryChildAccountedFor

Structure ==
  /\ FlightLed
  /\ LeaderFlies
  /\ LoadedPlaced
  /\ NotYetLoaded
  /\ InstPlaced
  /\ UnbornHasNoChild
  /\ ClosingOnlyLater

LEMMA StructureStep ==
  TypeOK /\ ModelKnown /\ Structure /\ [Next]_vars => Structure'
<1> SUFFICES ASSUME TypeOK, ModelKnown, Structure, [Next]_vars
             PROVE  Structure'
  OBVIOUS
<1> USE RouterAssumption
<1> USE DEF TypeOK, Steps, ModelKnown, Goto, Unload, Structure, FlightLed,
            LeaderFlies, LoadedPlaced, NotYetLoaded, InstPlaced,
            UnbornHasNoChild, ClosingOnlyLater, Leading, Loading, Placed,
            Holding, Unborn
<1>1. ASSUME NEW r \in Requests, NEW m \in Models, Lookup(r, m)
      PROVE  Structure'
  <2>1. CASE loaded[m] # None
    BY <1>1, <2>1 DEF Lookup
  <2>2. CASE loaded[m] = None
    BY <1>1, <2>2 DEF Lookup
  <2> QED
    BY <2>1, <2>2
<1>2. ASSUME NEW r \in Requests, Join(r)
      PROVE  Structure'
  BY <1>2 DEF Join
<1>3. ASSUME NEW r \in Requests, Recheck(r)
      PROVE  Structure'
  BY <1>3 DEF Recheck
<1>4. ASSUME NEW r \in Requests, BackendSpec(r)
      PROVE  Structure'
  BY <1>4 DEF BackendSpec
<1>5. ASSUME NEW r \in Requests, MakeRoom(r)
      PROVE  Structure'
  <2>1. LRU \subseteq Requests
    BY DEF LRU, Evictable, LoadedInsts
  <2>2. CASE RoomFits(r)
    BY <1>5, <2>2 DEF MakeRoom, RoomFits
  <2>3. CASE RoomRefused(r)
    BY <1>5, <2>3 DEF MakeRoom, RoomRefused
  <2>4. CASE RoomEvict(r)
    BY <1>5, <2>1, <2>4 DEF MakeRoom, RoomEvict
  <2> QED
    BY <1>5, <2>2, <2>3, <2>4 DEF MakeRoom
<1>6. ASSUME NEW r \in Requests, Evicted(r)
      PROVE  Structure'
  BY <1>6 DEF Evicted
<1>7. ASSUME NEW r \in Requests, Start(r)
      PROVE  Structure'
  BY <1>7 DEF Start
<1>8. ASSUME NEW r \in Requests, WaitReady(r)
      PROVE  Structure'
  BY <1>8 DEF WaitReady
<1>9. ASSUME NEW r \in Requests, Aborted(r)
      PROVE  Structure'
  BY <1>9 DEF Aborted
<1>10. ASSUME NEW r \in Requests, Publish(r)
      PROVE  Structure'
  BY <1>10 DEF Publish
<1>11. ASSUME NEW r \in Requests, FlightEnd(r)
      PROVE  Structure'
  BY <1>11 DEF FlightEnd, Land, WaitingFor
<1>12. ASSUME NEW r \in Requests, Begin(r)
      PROVE  Structure'
  BY <1>12 DEF Begin
<1>13. ASSUME NEW r \in Requests, End(r)
      PROVE  Structure'
  BY <1>13 DEF End
<1>14. ASSUME NEW i \in Requests, Exit(i)
      PROVE  Structure'
  BY <1>14 DEF Exit
<1>15. ASSUME NEW i \in Requests, Reap(i)
      PROVE  Structure'
  BY <1>15 DEF Reap
<1>16. CASE Tick
  BY <1>16 DEF Tick
<1>17. CASE SweepStep
  <2>1. UNCHANGED <<pc, reqVars, flight, loaded, childVars, stopVars>>
    BY <1>17 DEF SweepStep, SweepStop, SweepStopped, SweepExit
  <2> QED
    BY <2>1
<1>18. CASE Shutdown
  BY <1>18 DEF Shutdown
<1>19. CASE ProcessExit
  BY <1>19 DEF ProcessExit
<1>20. CASE UNCHANGED vars
  BY <1>20 DEF vars
<1> QED
  BY <1>1, <1>2, <1>3, <1>4, <1>5, <1>6, <1>7, <1>8, <1>9, <1>10, <1>11,
     <1>12, <1>13, <1>14, <1>15, <1>16, <1>17, <1>18, <1>19, <1>20
     DEF Next, RequestStep, LoadStep, Exited

LEMMA AccountedStep ==
  IInv /\ [Next]_vars => EveryChildAccountedFor'
<1> SUFFICES ASSUME IInv, [Next]_vars
             PROVE  EveryChildAccountedFor'
  OBVIOUS
<1> USE RouterAssumption
<1> USE DEF IInv, TypeOK, Steps, ModelKnown, Goto, Unload, EveryChildAccountedFor,
            Running, InUse, LoadedInsts, Doomed, StopCalled
<1>1. ASSUME NEW r \in Requests, NEW m \in Models, Lookup(r, m)
      PROVE  EveryChildAccountedFor'
  BY <1>1 DEF Lookup
<1>2. ASSUME NEW r \in Requests, Join(r)
      PROVE  EveryChildAccountedFor'
  BY <1>2 DEF Join
<1>3. ASSUME NEW r \in Requests, Recheck(r)
      PROVE  EveryChildAccountedFor'
  BY <1>3 DEF Recheck
<1>4. ASSUME NEW r \in Requests, BackendSpec(r)
      PROVE  EveryChildAccountedFor'
  BY <1>4 DEF BackendSpec
<1>5. ASSUME NEW r \in Requests, MakeRoom(r)
      PROVE  EveryChildAccountedFor'
  <2>1. CASE RoomFits(r)
    BY <1>5, <2>1 DEF MakeRoom, RoomFits
  <2>2. CASE RoomRefused(r)
    BY <1>5, <2>2 DEF MakeRoom, RoomRefused
  <2>3. CASE RoomEvict(r)
    BY <1>5, <2>3 DEF MakeRoom, RoomEvict, LRU, Evictable
  <2> QED
    BY <1>5, <2>1, <2>2, <2>3 DEF MakeRoom
<1>6. ASSUME NEW r \in Requests, Evicted(r)
      PROVE  EveryChildAccountedFor'
  BY <1>6 DEF Evicted
<1>7. ASSUME NEW r \in Requests, Start(r)
      PROVE  EveryChildAccountedFor'
  BY <1>7 DEF Start, UnbornHasNoChild, Unborn
<1>8. ASSUME NEW r \in Requests, WaitReady(r)
      PROVE  EveryChildAccountedFor'
  BY <1>8 DEF WaitReady
<1>9. ASSUME NEW r \in Requests, Aborted(r)
      PROVE  EveryChildAccountedFor'
  BY <1>9 DEF Aborted
<1>10. ASSUME NEW r \in Requests, Publish(r)
      PROVE  EveryChildAccountedFor'
  <2>1. loaded[model[r]] = None
    BY <1>10 DEF Publish, NotYetLoaded, Loading, Leading
  <2> QED
    BY <1>10, <2>1 DEF Publish
<1>11. ASSUME NEW r \in Requests, FlightEnd(r)
      PROVE  EveryChildAccountedFor'
  BY <1>11 DEF FlightEnd, Land, WaitingFor
<1>12. ASSUME NEW r \in Requests, Begin(r)
      PROVE  EveryChildAccountedFor'
  BY <1>12 DEF Begin
<1>13. ASSUME NEW r \in Requests, End(r)
      PROVE  EveryChildAccountedFor'
  BY <1>13 DEF End
<1>14. ASSUME NEW i \in Requests, Exit(i)
      PROVE  EveryChildAccountedFor'
  BY <1>14 DEF Exit
<1>15. ASSUME NEW i \in Requests, Reap(i)
      PROVE  EveryChildAccountedFor'
  BY <1>15 DEF Reap
<1>16. CASE Tick
  BY <1>16 DEF Tick, Evictable
<1>17. CASE SweepStop
  BY <1>17 DEF SweepStop
<1>18. CASE SweepStopped
  BY <1>18 DEF SweepStopped
<1>19. CASE SweepExit
  BY <1>19 DEF SweepExit
<1>20. CASE Shutdown
  BY <1>20 DEF Shutdown, ClosingOnlyLater
<1>21. CASE ProcessExit
  BY <1>21 DEF ProcessExit
<1>22. CASE UNCHANGED vars
  BY <1>22 DEF vars
<1> QED
  BY <1>1, <1>2, <1>3, <1>4, <1>5, <1>6, <1>7, <1>8, <1>9, <1>10, <1>11,
     <1>12, <1>13, <1>14, <1>15, <1>16, <1>17, <1>18, <1>19, <1>20, <1>21, <1>22
     DEF Next, RequestStep, LoadStep, SweepStep, Exited

-----------------------------------------------------------------------------
(* The safety properties of the router, for every value of its constants.  *)

LEMMA Inductive == Spec => []IInv
<1>1. Init => IInv
  BY DEF Init, IInv, TypeOK, Steps, ModelKnown, FlightLed, LeaderFlies,
         LoadedPlaced, NotYetLoaded, InstPlaced, UnbornHasNoChild, Unborn,
         ClosingOnlyLater, EveryChildAccountedFor, Leading, Loading
<1>2. IInv /\ TypeOK' /\ ModelKnown' /\ [Next]_vars => IInv'
  BY StructureStep, AccountedStep DEF IInv, Structure
<1> QED
  BY <1>1, <1>2, TypeInductive, PTL DEF Spec

\* No crash, eviction, sweep, failed start or shutdown leaves a live child
\* that nobody will stop, however many requests and models there are.
THEOREM ChildrenAccountedFor == Spec => []EveryChildAccountedFor
<1>1. IInv => EveryChildAccountedFor
  BY DEF IInv
<1> QED
  BY <1>1, Inductive, PTL

\* The flight and the second look under it keep one instance per model.
THEOREM SingleInstance == Spec => []OneInstancePerModel
<1>1. IInv => OneInstancePerModel
  <2> SUFFICES ASSUME IInv,
                      NEW i \in Requests, NEW j \in Requests,
                      InUse(i), InUse(j), model[i] = model[j]
               PROVE  i = j
    BY DEF OneInstancePerModel
  <2> USE DEF IInv, InUse, LoadedInsts
  <2>1. \A k \in LoadedInsts : loaded[model[k]] = k
    BY RouterAssumption DEF LoadedPlaced
  <2>2. \A k \in Requests : pc[k] \in {"ready", "publish"} =>
          loaded[model[k]] = None /\ flight[model[k]] = k
    BY DEF NotYetLoaded, LeaderFlies, Loading, Leading
  <2> QED
    BY <2>1, <2>2, RouterAssumption
<1> QED
  BY <1>1, Inductive, PTL

\* A request never reaches an instance of a model it did not name.
THEOREM OwnModel == Spec => []AnsweredByOwnModel
<1>1. IInv => AnsweredByOwnModel
  BY DEF IInv, InstPlaced, AnsweredByOwnModel
<1> QED
  BY <1>1, Inductive, PTL

\* A pinned or busy instance leaves rt.loaded only by exiting, or when the
\* router shuts down.
THEOREM PinnedOrBusyKept == Spec => PinnedOrBusyStays
<1> DEFINE Kept(m) ==
      loaded[m] # None /\ loaded'[m] # loaded[m]
        /\ (m \in Keep \/ Busy(loaded[m]))
          => proc[loaded[m]] = "gone" \/ phase # phase'
<1>1. ASSUME IInv, Next, NEW m \in Models
      PROVE  Kept(m)
  <2> USE DEF IInv, TypeOK, Unload
  <2>1. CASE loaded' = loaded
    BY <2>1
  <2>2. \A i \in Evictable : i = loaded[m] => m \notin Keep /\ ~Busy(i)
    <3>1. \A i \in Evictable : i = loaded[m] => model[i] = m
      BY <1>1, RouterAssumption DEF Evictable, LoadedInsts, LoadedPlaced
    <3> QED
      BY <3>1 DEF Evictable
  <2>3. ASSUME NEW r \in Requests, RoomEvict(r)
        PROVE  Kept(m)
    BY <2>2, <2>3 DEF RoomEvict, LRU
  <2>4. ASSUME NEW r \in Requests, Publish(r)
        PROVE  Kept(m)
    <3>1. loaded[model[r]] = None
      BY <1>1, <2>4 DEF Publish, NotYetLoaded, Loading, Leading
    <3>2. loaded' = [loaded EXCEPT ![model[r]] = r]
      BY <2>4 DEF Publish
    <3> QED
      BY <3>1, <3>2
  <2>5. ASSUME NEW i \in Requests, Reap(i)
        PROVE  Kept(m)
    BY <2>5 DEF Reap
  <2>6. CASE Tick
    BY <2>2, <2>6 DEF Tick
  <2>7. CASE Shutdown
    BY <2>7 DEF Shutdown
  <2>8. \/ loaded' = loaded
        \/ \E r \in Requests : RoomEvict(r) \/ Publish(r) \/ Reap(r)
        \/ Tick \/ Shutdown
    BY <1>1 DEF Next, Lookup, RequestStep, LoadStep, Join, Recheck,
                BackendSpec, MakeRoom, RoomFits, RoomRefused, Evicted, Start,
                WaitReady, Aborted, FlightEnd, Begin, End, Exit, SweepStep,
                SweepStop, SweepStopped, SweepExit, ProcessExit, Exited, vars
  <2> QED
    BY <2>1, <2>3, <2>4, <2>5, <2>6, <2>7, <2>8
<1>2. IInv /\ [Next]_vars =>
        [\A m \in Models :
           LET i == loaded[m]
           IN  i # None /\ loaded'[m] # i /\ (m \in Keep \/ Busy(i))
                 => proc[i] = "gone" \/ phase # phase']_vars
  BY <1>1
<1> QED
  BY <1>2, Inductive, PTL DEF Spec, PinnedOrBusyStays

-----------------------------------------------------------------------------
(* The memory budget, as long as loads do not overlap.                     *)

Units(S) == UNION {{i} \X (1 .. MemOf(i)) : i \in S}

LEMMA UnitsOfOne ==
  ASSUME NEW i, MemOf(i) \in Nat
  PROVE /\ IsFiniteSet({i} \X (1 .. MemOf(i)))
        /\ Cardinality({i} \X (1 .. MemOf(i))) = MemOf(i)
<1>1. IsFiniteSet(1 .. MemOf(i)) /\ Cardinality(1 .. MemOf(i)) = MemOf(i)
  BY FS_Interval
<1>2. IsFiniteSet({i}) /\ Cardinality({i}) = 1
  BY FS_Singleton
<1> QED
  BY <1>1, <1>2, FS_Product

LEMMA UnitsAreFinite ==
  ASSUME NEW S, IsFiniteSet(S), \A i \in S : MemOf(i) \in Nat
  PROVE IsFiniteSet(Units(S))
<1> DEFINE each == {{i} \X (1 .. MemOf(i)) : i \in S}
           f == [i \in S |-> {i} \X (1 .. MemOf(i))]
<1>1. f \in Surjection(S, each)
  BY DEF Surjection
<1>2. IsFiniteSet(each)
  BY <1>1, FS_Surjection
<1>3. \A T \in each : IsFiniteSet(T)
  BY UnitsOfOne
<1> HIDE DEF each
<1>4. IsFiniteSet(UNION each)
  BY <1>2, <1>3, FS_UNION
<1> QED
  BY <1>4 DEF Units, each

\* Fewer instances take no more.
LEMMA FootprintShrinks ==
  ASSUME NEW S, IsFiniteSet(S), NEW T \in SUBSET S, \A i \in S : MemOf(i) \in Nat
  PROVE Footprint(T) \in Nat /\ Footprint(S) \in Nat /\ Footprint(T) <= Footprint(S)
<1>1. IsFiniteSet(Units(S))
  BY UnitsAreFinite
<1>2. Units(T) \subseteq Units(S)
  BY DEF Units
<1>3. Footprint(T) = Cardinality(Units(T)) /\ Footprint(S) = Cardinality(Units(S))
  BY DEF Footprint, Units
<1> QED
  BY <1>1, <1>2, <1>3, FS_Subset, FS_CardinalityType

\* One more takes no more than its own.
LEMMA FootprintOfOneMore ==
  ASSUME NEW S, IsFiniteSet(S), NEW r, \A i \in S \cup {r} : MemOf(i) \in Nat
  PROVE Footprint(S \cup {r}) <= Footprint(S) + MemOf(r)
<1> DEFINE own == {r} \X (1 .. MemOf(r))
<1>1. IsFiniteSet(Units(S)) /\ IsFiniteSet(own) /\ Cardinality(own) = MemOf(r)
  BY UnitsAreFinite, UnitsOfOne
<1>2. Units(S \cup {r}) = Units(S) \cup own
  BY DEF Units
<1> HIDE DEF own
<1>3. Cardinality(Units(S) \cup own) =
        Cardinality(Units(S)) + Cardinality(own) - Cardinality(Units(S) \cap own)
  BY <1>1, FS_Union
<1>4. Cardinality(Units(S)) \in Nat /\ Cardinality(Units(S) \cap own) \in Nat
  BY <1>1, FS_Subset, FS_CardinalityType
<1>5. Footprint(S \cup {r}) = Cardinality(Units(S \cup {r})) /\ Footprint(S) = Cardinality(Units(S))
  BY DEF Footprint, Units
<1>6. \A total, mine, own2, shared :
        mine \in Nat /\ own2 \in Nat /\ shared \in Nat /\ total = mine + own2 - shared
          => total <= mine + own2
  OBVIOUS
<1>7. MemOf(r) \in Nat
  OBVIOUS
<1>8. Cardinality(Units(S \cup {r})) <= Cardinality(Units(S)) + MemOf(r)
  BY <1>1, <1>2, <1>3, <1>4, <1>6, <1>7
<1> QED
  BY <1>5, <1>8

\* While loads are apart at most one of them is admitted.
BudgetInv ==
  loads = "apart" =>
    /\ \A q, r \in Admitted : q = r
    /\ Footprint(LoadedInsts \cup Admitted) <= Budget

LEMMA InUseHasMemory ==
  ASSUME IInv, NEW i \in LoadedInsts \cup Admitted
  PROVE i \in Requests /\ model[i] \in Models /\ MemOf(i) \in Nat
<1>1. i \in Requests /\ pc[i] # "new"
  BY RouterAssumption DEF IInv, LoadedInsts, Admitted, LoadedPlaced, Placed
<1> QED
  BY <1>1, RouterAssumption DEF IInv, ModelKnown, MemOf

\* Where no load is admitted the instances in use become no more.
LEMMA BudgetShrinks ==
  ASSUME IInv, BudgetInv, LoadedInsts' \cup Admitted' \subseteq LoadedInsts \cup Admitted,
         Admitted' \subseteq Admitted, loads' = loads,
         \A i \in LoadedInsts \cup Admitted : model'[i] = model[i]
  PROVE BudgetInv'
<1> DEFINE S == LoadedInsts \cup Admitted
           T == LoadedInsts' \cup Admitted'
<1>1. IsFiniteSet(S) /\ \A i \in S : MemOf(i) \in Nat
  <2>1. S \in SUBSET Requests /\ IsFiniteSet(Requests)
    BY RouterAssumption DEF LoadedInsts, Admitted
  <2> QED
    BY <2>1, FS_Subset, InUseHasMemory
<1>2. Footprint(T) \in Nat /\ Footprint(S) \in Nat /\ Footprint(T) <= Footprint(S)
  <2> HIDE DEF S, T
  <2> QED
    BY <1>1, FootprintShrinks DEF S, T
<1>3. Footprint(LoadedInsts \cup Admitted)' = Footprint(T)
  BY DEF Footprint, MemOf
<1> QED
  BY <1>2, <1>3, RouterAssumption DEF BudgetInv

\* A step that admits no load and loads no instance.
NoneAdmitted ==
  /\ UNCHANGED <<model, loads>>
  /\ \A m \in Models : loaded'[m] \in {loaded[m], None}
  /\ \A r \in Requests :
       pc'[r] \in {"start", "ready", "publish"} => pc[r] \in {"start", "ready", "publish"}

LEMMA BudgetStep == IInv /\ BudgetInv /\ [Next]_vars => BudgetInv'
<1> SUFFICES ASSUME IInv, BudgetInv, [Next]_vars
             PROVE  BudgetInv'
  OBVIOUS
<1>1. ASSUME NEW r \in Requests, MakeRoom(r), RoomFits(r)
      PROVE  BudgetInv'
  <2> SUFFICES ASSUME loads' = "apart"
               PROVE  BudgetInv'
    BY DEF BudgetInv
  <2>1. /\ Admitted = {} /\ pc[r] = "room" /\ pc' = [pc EXCEPT ![r] = "start"]
        /\ UNCHANGED <<model, loaded>> /\ Fits(model[r])
    BY <1>1 DEF MakeRoom, RoomFits, Goto
  <2>2. LoadedInsts' = LoadedInsts /\ Admitted' = {r}
    BY <2>1 DEF IInv, TypeOK, LoadedInsts, Admitted
  <2>3. MemOf(r) = Mem[model[r]] /\ MemOf(r) \in Nat
    BY <2>1, RouterAssumption DEF MemOf, IInv, ModelKnown
  <2>4. IsFiniteSet(LoadedInsts) /\ \A i \in LoadedInsts : MemOf(i) \in Nat
    <3>1. LoadedInsts \in SUBSET Requests /\ IsFiniteSet(Requests)
      BY RouterAssumption DEF LoadedInsts
    <3> QED
      BY <3>1, FS_Subset, InUseHasMemory
  <2>5. Footprint(LoadedInsts \cup {r}) <= Footprint(LoadedInsts) + MemOf(r)
    <3> HIDE DEF LoadedInsts
    <3> QED
      BY <2>3, <2>4, FootprintOfOneMore
  <2>6. Footprint(LoadedInsts \cup Admitted)' = Footprint(LoadedInsts \cup {r})
    BY <2>1, <2>2 DEF Footprint, MemOf
  <2>7. Footprint(LoadedInsts) + MemOf(r) <= Budget
    BY <2>1, <2>3 DEF Fits
  <2>8. Footprint(LoadedInsts) \in Nat /\ Footprint(LoadedInsts \cup {r}) \in Nat
    <3>1. IsFiniteSet(LoadedInsts \cup {r})
      BY <2>4, FS_Singleton, FS_Union
    <3> HIDE DEF LoadedInsts
    <3> QED
      BY <2>3, <2>4, <3>1, FootprintShrinks
  <2> QED
    BY <2>2, <2>3, <2>5, <2>6, <2>7, <2>8, RouterAssumption DEF BudgetInv
<1>2. ASSUME NEW r \in Requests, Publish(r)
      PROVE  BudgetInv'
  <2>1. /\ pc[r] = "publish" /\ pc' = [pc EXCEPT ![r] = "finish"]
        /\ loaded' = [loaded EXCEPT ![model[r]] = r] /\ UNCHANGED <<model, loads>>
    BY <1>2 DEF Publish, Goto
  <2>2. pc \in [Requests -> Steps] /\ loaded \in [Models -> InstOrNone]
    BY DEF IInv, TypeOK
  <2>3. Admitted' \subseteq Admitted /\ r \in Admitted
    BY <2>1, <2>2 DEF Admitted
  <2>4. LoadedInsts' \subseteq LoadedInsts \cup {r}
    BY <2>1, <2>2 DEF LoadedInsts
  <2> QED
    BY <2>1, <2>3, <2>4, BudgetShrinks
<1>3. ASSUME NEW r \in Requests, NEW m \in Models, Lookup(r, m)
      PROVE  BudgetInv'
  <2>1. /\ pc[r] = "new" /\ (Goto(r, "got") \/ Goto(r, "join"))
        /\ model' = [model EXCEPT ![r] = m] /\ UNCHANGED <<loaded, loads>>
    BY <1>3 DEF Lookup
  <2>2. pc \in [Requests -> Steps] /\ model \in [Requests -> Models \cup {None}]
    BY DEF IInv, TypeOK
  <2>3. Admitted' = Admitted /\ LoadedInsts' = LoadedInsts
    BY <2>1, <2>2 DEF Admitted, LoadedInsts, Goto
  <2>4. r \notin LoadedInsts \cup Admitted
    BY <2>1, RouterAssumption DEF Admitted, LoadedInsts, IInv, LoadedPlaced, Placed
  <2>5. \A i \in LoadedInsts \cup Admitted : model'[i] = model[i]
    BY <2>1, <2>2, <2>4 DEF LoadedInsts, Admitted
  <2> QED
    BY <2>1, <2>3, <2>5, BudgetShrinks
<1>4. CASE NoneAdmitted
  <2>1. Admitted' \subseteq Admitted
    BY <1>4 DEF NoneAdmitted, Admitted
  <2>2. LoadedInsts' \subseteq LoadedInsts
    BY <1>4, RouterAssumption DEF NoneAdmitted, LoadedInsts
  <2> QED
    BY <1>4, <2>1, <2>2, BudgetShrinks DEF NoneAdmitted
<1>5. \/ NoneAdmitted
      \/ \E r \in Requests : \/ MakeRoom(r) /\ RoomFits(r)
                             \/ Publish(r)
                             \/ \E m \in Models : Lookup(r, m)
  <2>0. pc \in [Requests -> Steps] /\ loaded \in [Models -> InstOrNone]
    BY DEF IInv, TypeOK
  <2>1. ASSUME NEW r \in Requests, LoadStep(r), ~Publish(r), ~(MakeRoom(r) /\ RoomFits(r))
        PROVE NoneAdmitted
    BY <2>0, <2>1 DEF NoneAdmitted, LoadStep, Join, Recheck, BackendSpec, MakeRoom, RoomRefused, RoomEvict,
         Unload, Evicted, Start, WaitReady, Aborted, FlightEnd, Land, Goto
  <2>2. ASSUME NEW r \in Requests, Begin(r) \/ End(r) \/ Exit(r) \/ Reap(r)
        PROVE NoneAdmitted
    BY <2>0, <2>2 DEF NoneAdmitted, Begin, End, Exit, Reap, Unload, Goto
  <2>3. ASSUME Tick \/ SweepStep \/ Shutdown \/ ProcessExit \/ Exited \/ UNCHANGED vars
        PROVE NoneAdmitted
    BY <2>0, <2>3 DEF NoneAdmitted, Tick, SweepStep, SweepStop, SweepStopped, SweepExit, Shutdown, ProcessExit,
         Exited, Unload, vars
  <2> QED
    BY <2>1, <2>2, <2>3 DEF Next, RequestStep, LoadStep
<1> QED
  BY <1>1, <1>2, <1>3, <1>4, <1>5

\* makeRoom keeps the instances in use within the budget, however many there
\* are and whatever crashes or is swept, as long as no load is admitted while
\* another is between makeRoom and rt.loaded.
THEOREM BudgetKept == Spec => []BudgetKeptWithoutOverlap
<1>1. Init => BudgetInv
  <2> SUFFICES ASSUME Init
               PROVE  BudgetInv
    OBVIOUS
  <2>1. LoadedInsts = {} /\ Admitted = {}
    BY RouterAssumption DEF Init, LoadedInsts, Admitted
  <2>2. UNION {{i} \X (1 .. MemOf(i)) : i \in {}} = {}
    OBVIOUS
  <2>3. Footprint({}) = 0
    BY <2>2, FS_EmptySet DEF Footprint
  <2> QED
    BY <2>1, <2>3, RouterAssumption DEF BudgetInv
<1>2. IInv /\ BudgetInv /\ [Next]_vars => BudgetInv'
  BY BudgetStep
<1>3. BudgetInv => BudgetKeptWithoutOverlap
  BY DEF BudgetInv, BudgetKeptWithoutOverlap
<1> QED
  BY <1>1, <1>2, <1>3, Inductive, PTL DEF Spec
=============================================================================
