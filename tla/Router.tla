------------------------------- MODULE Router -------------------------------
(***************************************************************************)
(* The serving router of `palan serve`: internal/router/router.go over the *)
(* child processes of internal/runtime/supervisor.go, shut down the way    *)
(* internal/cli/serve.go does.                                             *)
(*                                                                         *)
(* A request is a goroutine inside ServeHTTP.  It names one model and      *)
(* leads at most one load, so the instance (and child process) a load      *)
(* creates is named after the request that led it.  A step is one critical *)
(* section of rt.mu, or one call whose effect other goroutines see:        *)
(* flight.Do, Backend.Spec, runtime.Start, Stop, begin, end.  Wall time is *)
(* abstracted: lastUsed is kept as an order, a timeout may fire whenever   *)
(* what it guards has not happened, and the error statuses are one answer. *)
(***************************************************************************)
EXTENDS Integers, FiniteSets

CONSTANTS
  Requests,   \* the requests ever made, and so the instances ever started
  Models,     \* the references a request may name
  Keep,       \* --keep-loaded: never unloaded or evicted
  Mem,        \* estimated footprint of each model
  Budget,     \* --memory-budget; the CLI always sets one
  None        \* no instance, no leader, no model

ASSUME RouterAssumption ==
  /\ IsFiniteSet(Requests)
  /\ Keep \subseteq Models
  /\ Mem \in [Models -> Nat]
  /\ Budget \in Nat \ {0}
  /\ None \notin Requests \cup Models

VARIABLES
  pc,          \* where each request's goroutine is
  model,       \* the model each request names
  inst,        \* the instance ensure gave each request, or its flight made
  victim,      \* the instance each makeRoom is stopping
  flight,      \* rt.flight: the request leading the load of each model
  loaded,      \* rt.loaded: the instance of each model
  proc,        \* the child process of each instance
  reapers,     \* instances whose reaping goroutine waits on srv.Done
  serving,     \* instance.active, as the set of requests begun and not ended
  older,       \* instance.lastUsed: the loaded instances used before each one
  sweep,       \* the idle sweeper
  phase,       \* where `palan serve` is
  closing,     \* instances Shutdown is stopping
  loads        \* history: have two admitted loads been under way at once?

reqVars   == <<model, inst, victim>>
childVars == <<proc, reapers>>
useVars   == <<serving, older>>
stopVars  == <<phase, closing>>
vars == <<pc, reqVars, flight, loaded, childVars, useVars, sweep, stopVars,
          loads>>

Steps == {"new", "join", "wait", "recheck", "spec", "room", "evict", "start",
          "ready", "abort", "publish", "finish", "got", "proxy",
          "done", "failed"}
InstOrNone == Requests \cup {None}

\* Type invariant: every variable of the router holds a value of its kind.
TypeOK ==
  /\ pc \in [Requests -> Steps]
  /\ model \in [Requests -> Models \cup {None}]
  /\ inst \in [Requests -> InstOrNone]
  /\ victim \in [Requests -> InstOrNone]
  /\ flight \in [Models -> InstOrNone]
  /\ loaded \in [Models -> InstOrNone]
  /\ proc \in [Requests -> {"none", "live", "gone"}]
  /\ reapers \in SUBSET Requests
  /\ serving \in [Requests -> SUBSET Requests]
  /\ older \in [Requests -> SUBSET Requests]
  /\ sweep \in [state : {"on", "off"}, victims : SUBSET Requests,
                cur : InstOrNone]
  /\ phase \in {"serving", "stopping", "exited"}
  /\ closing \in SUBSET Requests
  /\ loads \in {"apart", "overlapped"}

Init ==
  /\ pc = [r \in Requests |-> "new"]
  /\ model = [r \in Requests |-> None]
  /\ inst = [r \in Requests |-> None]
  /\ victim = [r \in Requests |-> None]
  /\ flight = [m \in Models |-> None]
  /\ loaded = [m \in Models |-> None]
  /\ proc = [r \in Requests |-> "none"]
  /\ reapers = {}
  /\ serving = [r \in Requests |-> {}]
  /\ older = [r \in Requests |-> {}]
  /\ sweep = [state |-> "on", victims |-> {}, cur |-> None]
  /\ phase = "serving"
  /\ closing = {}
  /\ loads = "apart"

-----------------------------------------------------------------------------
(* What the critical sections read and write.                              *)

Running == phase # "exited"

LoadedInsts == {i \in Requests : \E m \in Models : loaded[m] = i}

MemOf(i) == Mem[model[i]]

\* The sum over S, counted unit by unit.
Footprint(S) == Cardinality(UNION {{i} \X (1 .. MemOf(i)) : i \in S})

\* Mutant of Fits: makeRoom forgets what is loaded already.
FitsAlone(m) == Mem[m] <= Budget

Fits(m) == Footprint(LoadedInsts) + Mem[m] <= Budget

Busy(i) == serving[i] # {}

\* Mutant of Evictable: the busy check is lost.
EvictableEvenBusy == {i \in LoadedInsts : model[i] \notin Keep}

Evictable == {i \in LoadedInsts : model[i] \notin Keep /\ ~Busy(i)}

\* The least recently used instance makeRoom may evict.
LRU == {v \in Evictable : older[v] \cap Evictable = {}}

\* lastUsed = time.Now(): of the instances in L, i is now the latest used.
\* Nothing reads the lastUsed of an instance outside rt.loaded.
UsedNow(i, L) ==
  older' = [j \in Requests |->
              IF j = i /\ i \in L THEN L \ {i} ELSE older[j] \ {i}]

Touch(i) == UsedNow(i, LoadedInsts)

\* delete(rt.loaded, ref) for the instances S.
Unload(S) ==
  /\ loaded' = [m \in Models |-> IF loaded[m] \in S THEN None ELSE loaded[m]]
  /\ older' = [j \in Requests |-> IF j \in S THEN {} ELSE older[j] \ S]

\* Loads that passed makeRoom and have not reached rt.loaded yet.
Admitted == {r \in Requests : pc[r] \in {"start", "ready", "publish"}}

\* Someone has called Stop on i and waits for it to exit; a child that
\* ignores SIGTERM is killed after the grace period.
StopCalled(i) ==
  \/ pc[i] = "abort"
  \/ \E r \in Requests : pc[r] = "evict" /\ victim[r] = i
  \/ sweep.cur = i
  \/ i \in closing

Goto(r, step) == pc' = [pc EXCEPT ![r] = step]

-----------------------------------------------------------------------------
(* handleProxy and ensure, one request.                                    *)

\* The request named model m; ensure's first critical section looks it up,
\* and a hit is touched and returned.
Lookup(r, m) ==
  /\ Running /\ pc[r] = "new"
  /\ model' = [model EXCEPT ![r] = m]
  /\ \/ /\ loaded[m] # None
        /\ inst' = [inst EXCEPT ![r] = loaded[m]]
        /\ Touch(loaded[m])
        /\ Goto(r, "got")
     \/ /\ loaded[m] = None
        /\ Goto(r, "join")
        /\ UNCHANGED <<inst, older>>
  /\ UNCHANGED <<victim, flight, loaded, childVars, serving, sweep, stopVars,
                 loads>>

\* flight.Do: the first caller for a model leads, the others wait for it.
Join(r) ==
  /\ Running /\ pc[r] = "join"
  /\ \/ /\ flight[model[r]] = None
        /\ flight' = [flight EXCEPT ![model[r]] = r]
        /\ Goto(r, "recheck")
     \/ /\ flight[model[r]] # None
        /\ Goto(r, "wait")
        /\ UNCHANGED flight
  /\ UNCHANGED <<reqVars, loaded, childVars, useVars, sweep, stopVars,
                 loads>>

\* Mutant of Recheck: the flight does not look again.
RecheckSkipped(r) ==
  /\ Running /\ pc[r] = "recheck"
  /\ Goto(r, "spec")
  /\ UNCHANGED <<reqVars, flight, loaded, childVars, useVars, sweep, stopVars,
                 loads>>

\* The flight looks again: another request may have loaded the model.
Recheck(r) ==
  /\ Running /\ pc[r] = "recheck"
  /\ \/ /\ loaded[model[r]] # None
        /\ inst' = [inst EXCEPT ![r] = loaded[model[r]]]
        /\ Goto(r, "finish")
     \/ /\ loaded[model[r]] = None
        /\ Goto(r, "spec")
        /\ UNCHANGED inst
  /\ UNCHANGED <<model, victim, flight, loaded, childVars, useVars, sweep,
                 stopVars, loads>>

\* Backend.Spec: the gate, the store lock or the parse may refuse.
BackendSpec(r) ==
  /\ Running /\ pc[r] = "spec"
  /\ Goto(r, "room") \/ Goto(r, "finish")
  /\ UNCHANGED <<reqVars, flight, loaded, childVars, useVars, sweep, stopVars,
                 loads>>

\* One turn of makeRoom's loop, under rt.mu.
RoomFits(r) ==
  /\ Fits(model[r])
  /\ Goto(r, "start")
  /\ loads' = IF Admitted = {} THEN loads ELSE "overlapped"
  /\ UNCHANGED <<victim, loaded, older>>

RoomRefused(r) ==
  /\ Mem[model[r]] > Budget \/ (~Fits(model[r]) /\ LRU = {})
  /\ Goto(r, "finish")
  /\ UNCHANGED <<victim, loaded, older, loads>>

\* Mutant of RoomEvict: the instance is forgotten but not stopped.
RoomForget(r) ==
  /\ Mem[model[r]] <= Budget /\ ~Fits(model[r])
  /\ \E v \in LRU : Unload({v})
  /\ UNCHANGED <<pc, victim, loads>>

RoomEvict(r) ==
  /\ Mem[model[r]] <= Budget /\ ~Fits(model[r])
  /\ \E v \in LRU :
       /\ victim' = [victim EXCEPT ![r] = v]
       /\ Unload({v})
  /\ Goto(r, "evict")
  /\ UNCHANGED loads

MakeRoom(r) ==
  /\ Running /\ pc[r] = "room"
  /\ RoomFits(r) \/ RoomRefused(r) \/ RoomEvict(r)
  /\ UNCHANGED <<model, inst, flight, childVars, serving, sweep, stopVars>>

\* lru.srv.Stop returned, which it does only once the child has exited.
Evicted(r) ==
  /\ Running /\ pc[r] = "evict"
  /\ proc[victim[r]] = "gone"
  /\ Goto(r, "room")
  /\ victim' = [victim EXCEPT ![r] = None]
  /\ UNCHANGED <<model, inst, flight, loaded, childVars, useVars, sweep,
                 stopVars, loads>>

\* runtime.Start spawns the child, or cannot.
Start(r) ==
  /\ Running /\ pc[r] = "start"
  /\ \/ /\ proc' = [proc EXCEPT ![r] = "live"]
        /\ Goto(r, "ready")
     \/ /\ Goto(r, "finish")
        /\ UNCHANGED proc
  /\ UNCHANGED <<reqVars, flight, loaded, reapers, useVars, sweep, stopVars,
                 loads>>

\* waitReady: the child answers its health check, or the wait fails because
\* the child exited, the start timed out or the leader's client went away.
WaitReady(r) ==
  /\ Running /\ pc[r] = "ready"
  /\ \/ proc[r] = "live" /\ Goto(r, "publish")
     \/ Goto(r, "abort")
  /\ UNCHANGED <<reqVars, flight, loaded, childVars, useVars, sweep, stopVars,
                 loads>>

\* The failed start's Stop returned.
Aborted(r) ==
  /\ Running /\ pc[r] = "abort"
  /\ proc[r] = "gone"
  /\ Goto(r, "finish")
  /\ UNCHANGED <<reqVars, flight, loaded, childVars, useVars, sweep, stopVars,
                 loads>>

\* Mutant of Publish: nobody waits for the child to crash.
PublishUnwatched(r) ==
  /\ Running /\ pc[r] = "publish"
  /\ loaded' = [loaded EXCEPT ![model[r]] = r]
  /\ UsedNow(r, LoadedInsts \cup {r})
  /\ inst' = [inst EXCEPT ![r] = r]
  /\ Goto(r, "finish")
  /\ UNCHANGED <<model, victim, flight, childVars, serving, sweep, stopVars,
                 loads>>

\* The instance enters rt.loaded, and a goroutine waits to reap it.
Publish(r) ==
  /\ Running /\ pc[r] = "publish"
  /\ loaded' = [loaded EXCEPT ![model[r]] = r]
  /\ UsedNow(r, LoadedInsts \cup {r})
  /\ inst' = [inst EXCEPT ![r] = r]
  /\ reapers' = reapers \cup {r}
  /\ Goto(r, "finish")
  /\ UNCHANGED <<model, victim, flight, proc, serving, sweep, stopVars,
                 loads>>

Land(r, landed) ==
  LET outcome == IF inst[r] = None THEN "failed" ELSE "got"
  IN  /\ pc' = [q \in Requests |-> IF q \in landed THEN outcome ELSE pc[q]]
      /\ inst' = [q \in Requests |-> IF q \in landed THEN inst[r] ELSE inst[q]]
      /\ Touch(inst[r])

\* Mutants of WaitingFor: the flight is not keyed by the model, and the
\* followers of a flight are not woken.
WaitingForAny(m) == {q \in Requests : pc[q] = "wait"}
WaitingForNobody(m) == {}

WaitingFor(m) == {q \in Requests : pc[q] = "wait" /\ model[q] = m}

\* The flight ends: its leader and everyone waiting on it share its outcome,
\* and touch the instance they were given.
FlightEnd(r) ==
  /\ Running /\ pc[r] = "finish"
  /\ flight' = [flight EXCEPT ![model[r]] = None]
  /\ Land(r, {r} \cup WaitingFor(model[r]))
  /\ UNCHANGED <<model, victim, loaded, childVars, serving, sweep, stopVars,
                 loads>>

\* instance.begin, under the instance's mutex and not under rt.mu.
Begin(r) ==
  /\ Running /\ pc[r] = "got"
  /\ serving' = [serving EXCEPT ![inst[r]] = @ \cup {r}]
  /\ Touch(inst[r])
  /\ Goto(r, "proxy")
  /\ UNCHANGED <<reqVars, flight, loaded, childVars, sweep, stopVars,
                 loads>>

\* The proxied exchange is over and instance.end runs.  A child being
\* stopped may still answer; one that has gone cannot.
End(r) ==
  /\ Running /\ pc[r] = "proxy"
  /\ \/ proc[inst[r]] = "live" /\ Goto(r, "done")
     \/ (proc[inst[r]] = "gone" \/ StopCalled(inst[r])) /\ Goto(r, "failed")
  /\ serving' = [serving EXCEPT ![inst[r]] = @ \ {r}]
  /\ inst' = [inst EXCEPT ![r] = None]
  /\ Touch(inst[r])
  /\ UNCHANGED <<model, victim, flight, loaded, childVars, sweep, stopVars,
                 loads>>

-----------------------------------------------------------------------------
(* The child processes and the goroutines that reap them.                  *)

\* A child exits: by itself at any time, or because Stop was called on it.
Exit(i) ==
  /\ proc[i] = "live"
  /\ proc' = [proc EXCEPT ![i] = "gone"]
  /\ UNCHANGED <<pc, reqVars, flight, loaded, reapers, useVars, sweep,
                 stopVars, loads>>

\* Mutant of Reap: whatever instance the model has now is unloaded.
ReapCurrent(i) ==
  /\ Running /\ i \in reapers
  /\ proc[i] = "gone"
  /\ reapers' = reapers \ {i}
  /\ Unload({loaded[model[i]]})
  /\ UNCHANGED <<pc, reqVars, flight, proc, serving, sweep, stopVars,
                 loads>>

\* srv.Done: a crashed child leaves rt.loaded, unless its place was taken.
Reap(i) ==
  /\ Running /\ i \in reapers
  /\ proc[i] = "gone"
  /\ reapers' = reapers \ {i}
  /\ IF loaded[model[i]] = i THEN Unload({i}) ELSE UNCHANGED <<loaded, older>>
  /\ UNCHANGED <<pc, reqVars, flight, proc, serving, sweep, stopVars,
                 loads>>

-----------------------------------------------------------------------------
(* The idle sweeper.                                                       *)

\* A tick: every unpinned, idle instance last used before the cutoff leaves
\* rt.loaded in one critical section.  The cutoff falls somewhere in the
\* order of last use.
Tick ==
  /\ Running /\ sweep.state = "on"
  /\ sweep.victims = {} /\ sweep.cur = None
  /\ \E stale \in SUBSET LoadedInsts :
       /\ \A i \in stale : older[i] \subseteq stale
       /\ stale \cap Evictable # {}
       /\ sweep' = [sweep EXCEPT !.victims = stale \cap Evictable]
       /\ Unload(stale \cap Evictable)
  /\ UNCHANGED <<pc, reqVars, flight, childVars, serving, stopVars,
                 loads>>

\* Victims are stopped one after the other, each waited for.
SweepStop ==
  /\ Running /\ sweep.cur = None
  /\ \E v \in sweep.victims :
       sweep' = [sweep EXCEPT !.victims = @ \ {v}, !.cur = v]
  /\ UNCHANGED <<pc, reqVars, flight, loaded, childVars, useVars, stopVars,
                 loads>>

SweepStopped ==
  /\ Running /\ sweep.cur # None
  /\ proc[sweep.cur] = "gone"
  /\ sweep' = [sweep EXCEPT !.cur = None]
  /\ UNCHANGED <<pc, reqVars, flight, loaded, childVars, useVars, stopVars,
                 loads>>

SweepExit ==
  /\ phase = "stopping" /\ sweep.state = "on"
  /\ sweep.victims = {} /\ sweep.cur = None
  /\ sweep' = [sweep EXCEPT !.state = "off"]
  /\ UNCHANGED <<pc, reqVars, flight, loaded, childVars, useVars, stopVars,
                 loads>>

-----------------------------------------------------------------------------
(* Stopping `palan serve`.                                                 *)

\* Mutant of Shutdown: an entry is collected for every model, loaded or not.
ShutdownEveryModel ==
  /\ phase = "serving"
  /\ phase' = "stopping"
  /\ closing' = {loaded[m] : m \in Models}
  /\ Unload(LoadedInsts)
  /\ UNCHANGED <<pc, reqVars, flight, childVars, serving, sweep, loads>>

\* A signal came, and http.Server.Shutdown drained the requests in flight or
\* gave up on them after thirty seconds.  Router.Shutdown then empties
\* rt.loaded under rt.mu and stops every instance it held, in parallel.
Shutdown ==
  /\ phase = "serving"
  /\ phase' = "stopping"
  /\ closing' = LoadedInsts
  /\ Unload(LoadedInsts)
  /\ UNCHANGED <<pc, reqVars, flight, childVars, serving, sweep, loads>>

\* Mutant of ProcessExit: children Shutdown did not stop are waited for.
ProcessExitAfterAll ==
  /\ phase = "stopping"
  /\ \A i \in Requests : proc[i] # "live"
  /\ phase' = "exited"
  /\ UNCHANGED <<pc, reqVars, flight, loaded, childVars, useVars, sweep,
                 closing, loads>>

\* They have all exited: the process returns from main and its other
\* goroutines end with it.  Children are not tied to their parent.
ProcessExit ==
  /\ phase = "stopping"
  /\ \A i \in closing : proc[i] = "gone"
  /\ phase' = "exited"
  /\ UNCHANGED <<pc, reqVars, flight, loaded, childVars, useVars, sweep,
                 closing, loads>>

\* Nothing runs after that but the children the process left.
Exited == phase = "exited" /\ UNCHANGED vars

-----------------------------------------------------------------------------
LoadStep(r) ==
  \/ Join(r) \/ Recheck(r) \/ BackendSpec(r) \/ MakeRoom(r) \/ Evicted(r)
  \/ Start(r) \/ WaitReady(r) \/ Aborted(r) \/ Publish(r) \/ FlightEnd(r)

RequestStep(r) == LoadStep(r) \/ Begin(r) \/ End(r)

SweepStep == SweepStop \/ SweepStopped \/ SweepExit

Next ==
  \/ \E r \in Requests : \/ \E m \in Models : Lookup(r, m)
                         \/ RequestStep(r) \/ Exit(r) \/ Reap(r)
  \/ Tick \/ SweepStep \/ Shutdown \/ ProcessExit \/ Exited

Spec == Init /\ [][Next]_vars

(***************************************************************************)
(* What the Go scheduler, the operating system and the timeouts justify: a *)
(* goroutine that can run does, a child on which Stop was called exits (by *)
(* SIGTERM, or by SIGKILL ten seconds later), a load and a proxied         *)
(* exchange end one way or the other.  Nothing obliges a client to send a  *)
(* request, a child to crash, an instance to go stale or the operator to   *)
(* stop the process.                                                       *)
(***************************************************************************)
Fairness ==
  /\ \A r \in Requests : /\ WF_vars(RequestStep(r))
                         /\ WF_vars(Reap(r))
                         /\ WF_vars(StopCalled(r) /\ Exit(r))
  /\ WF_vars(SweepStep)
  /\ WF_vars(ProcessExit)

FairSpec == Spec /\ Fairness

-----------------------------------------------------------------------------
(* Safety.                                                                 *)

InUse(i) == i \in LoadedInsts \/ pc[i] \in {"ready", "publish"}

Doomed(i) == StopCalled(i) \/ i \in sweep.victims

\* A model never has two instances the router would use: a load that ends
\* finds no other instance of its model in rt.loaded, so it overwrites (and
\* loses track of) none.  It takes the flight and the second look under it.
OneInstancePerModel ==
  \A i, j \in Requests :
    InUse(i) /\ InUse(j) /\ model[i] = model[j] => i = j

\* While the router runs, every live child is loaded, on its way there, or
\* has someone who will stop it and wait for it to exit: no crash, eviction,
\* sweep, failed start or shutdown leaves a child nobody remembers.
EveryChildAccountedFor ==
  Running => \A i \in Requests : proc[i] = "live" => InUse(i) \/ Doomed(i)

\* A request is proxied to an instance of the model it named, whoever loaded
\* that instance and whatever replaced it since.
AnsweredByOwnModel ==
  \A r \in Requests : inst[r] # None => model[inst[r]] = model[r]

\* As long as no two loads have been between makeRoom and rt.loaded at once,
\* the instances loaded and the loads admitted fit the memory budget
\* together, whatever crashed, was swept or is being evicted meanwhile.
BudgetKeptWithoutOverlap ==
  loads = "apart" => Footprint(LoadedInsts \cup Admitted) <= Budget

\* A pinned instance, or one serving a request that has begun, leaves
\* rt.loaded only because its child exited or the router is shutting down.
PinnedOrBusyStays ==
  [][\A m \in Models :
       LET i == loaded[m]
       IN  i # None /\ loaded'[m] # i /\ (m \in Keep \/ Busy(i))
             => proc[i] = "gone" \/ phase # phase']_vars

(* What the documentation says and the code does not do.                   *)

\* README.md:57 and docs/quickstart.md:81: the router evicts instead of
\* overcommitting the memory budget.
NeverOvercommitted == Footprint(LoadedInsts) <= Budget

\* router.go:371: Shutdown stops the sweeper and all children.
ShutdownStopsAllChildren ==
  phase = "exited" => \A i \in Requests : proc[i] # "live"

\* router.go:299 and TestBusyInstanceNotEvicted: makeRoom evicts idle
\* instances, never one that is serving a request.
OnlyIdleEvicted ==
  \A r \in Requests : pc[r] = "evict" => ~Busy(victim[r])

-----------------------------------------------------------------------------
(* Liveness.                                                               *)

\* Every request is answered: no flight forgets a follower, no eviction loop
\* or start waits for ever.
EveryRequestAnswered ==
  \A r \in Requests :
    pc[r] # "new" ~> pc[r] \in {"done", "failed"} \/ ~Running

\* A child that left rt.loaded, or never got there, eventually exits and
\* frees its memory.
UnloadedChildExits ==
  \A i \in Requests :
    proc[i] = "live" /\ ~InUse(i) ~> proc[i] = "gone" \/ ~Running

\* A crashed instance eventually leaves rt.loaded, so the next request for
\* its model loads it again.
CrashedIsUnloaded ==
  \A i \in Requests :
    i \in LoadedInsts /\ proc[i] = "gone" ~> i \notin LoadedInsts \/ ~Running

\* Shutdown waits for the children it stops, and for nothing else.
ShutdownEnds == phase = "stopping" ~> phase = "exited"
=============================================================================
