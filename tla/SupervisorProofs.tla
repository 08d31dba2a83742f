--------------------------- MODULE SupervisorProofs ---------------------------
(***************************************************************************)
(* Theorems about the process supervisor for any number of workers: the    *)
(* types, the worker requests are routed to, and what a completed stop     *)
(* leaves behind.                                                          *)
(***************************************************************************)
EXTENDS WorkerSupervisor, TLAPS

-----------------------------------------------------------------------------
(* The inductive invariant. *)

Records == [state : WorkerStates, proc : {"none", "up", "dead"}, intentional : BOOLEAN]

HostPCs == {"idle", "spawn", "await", "ready", "switch", "swapped", "drained", "rollback",
            "kill", "forget", "join", "stopping", "halting", "halted"}
WatchPCs == {"ended", "between", "check", "crashed", "healthy", "degraded", "degrade", "recover"}

Hosts     == [pc : HostPCs, w : Workers \cup {NoWorker}, todo : SUBSET Workers]
Watchdogs == [pc : WatchPCs, todo : SUBSET Workers, w : Workers \cup {NoWorker}]

(* The threads' locals, and the calls that have none. *)
Threads ==
  /\ host \in Hosts /\ watchdog \in Watchdogs
  /\ host.pc \in {"idle", "join", "stopping", "halted"} => host.w = NoWorker
  /\ host.pc \notin {"stopping", "halting"} => host.todo = {}

(* launch_initial_worker and hot_swap from the registration to the switch, *)
(* and to the end of a rollback.                                           *)
Launching == {"spawn", "await", "ready", "switch"}
Undoing   == {"rollback", "kill", "forget"}

(* A candidate is listed, and nobody else's: it is not active, not drained, *)
(* and not stopped before its rollback begins.                              *)
CandidateInv ==
  host.pc \in Launching \cup Undoing =>
    /\ host.w \in listed /\ host.w # active /\ drainer[host.w] = "none"
    /\ host.pc \in Launching => ~worker[host.w].intentional
    /\ host.pc = "spawn" <=> worker[host.w].proc = "none"
    /\ host.pc = "switch" => worker[host.w].state \in {"HEALTHY", "DEGRADED", "CRASHED"}
    /\ host.pc = "forget" => worker[host.w].proc # "up"

(* The worker that was replaced and is not drained yet is no longer active. *)
ReplacedInv == host.pc = "swapped" /\ host.w # NoWorker => host.w # active

(* A process belongs to a listed worker, a drain to one that was spawned, *)
(* and only a worker that was listed has been told to stop.               *)
ListInv ==
  \A w \in Workers :
    /\ Alive(w) => w \in listed
    /\ drainer[w] # "none" => worker[w].proc # "none"
    /\ worker[w].intentional => w \in listed \/ worker[w].proc # "none"

(* From the moment stop() clears the pointer nothing is active, and what  *)
(* still runs is what it has yet to stop.                                 *)
HaltInv ==
  /\ host.pc \in {"stopping", "halting", "halted"} => active = NoWorker
  /\ host.pc \in {"stopping", "halting"} =>
       \A w \in Workers : /\ Alive(w) => w \in host.todo
                          /\ w \in host.todo => w \in listed \/ worker[w].proc # "none"
  /\ host.pc = "halted" => \A w \in Workers : ~Alive(w)

IInv == TypeOK /\ Threads /\ ActiveServes /\ CandidateInv /\ ReplacedInv /\ ListInv /\ HaltInv

-----------------------------------------------------------------------------
(* What the calls on a worker change. *)

(* _set_state. *)
LEMMA SetStateEffect ==
  ASSUME TypeOK, NEW v, NEW s \in WorkerStates, SetState(v, s)
  PROVE  /\ worker' \in [Workers -> Records]
         /\ \A w \in Workers : /\ worker'[w].proc = worker[w].proc
                               /\ worker'[w].intentional = worker[w].intentional
                               /\ worker'[w].state = IF w = v THEN s ELSE worker[w].state
<1>1. worker \in [Workers -> Records]
  BY DEF TypeOK, Records
<1> QED
  BY <1>1 DEF SetState, Records

(* The part of stop() under the lock. *)
LEMMA BeginStopEffect ==
  ASSUME TypeOK, NEW v \in Workers, BeginStop(v)
  PROVE  /\ worker' \in [Workers -> Records]
         /\ \A w \in Workers : /\ worker'[w].proc = worker[w].proc
                               /\ w # v => worker'[w] = worker[w]
<1>1. worker \in [Workers -> Records]
  BY DEF TypeOK, Records
<1>2. worker' = [worker EXCEPT ![v] = worker'[v]]
  BY <1>1 DEF BeginStop
<1>3. /\ worker'[v] \in Records /\ worker'[v].proc = worker[v].proc /\ worker'[v].intentional = TRUE
  BY <1>1 DEF BeginStop, Records, WorkerStates
<1> QED
  BY <1>1, <1>2, <1>3

(* The end of stop(). *)
LEMMA EndStopEffect ==
  ASSUME TypeOK, NEW v, EndStop(v)
  PROVE  /\ worker' \in [Workers -> Records]
         /\ \A w \in Workers : /\ worker'[w].intentional = worker[w].intentional
                               /\ worker'[w].proc = IF w = v THEN "dead" ELSE worker[w].proc
                               /\ w # v => worker'[w].state = worker[w].state
<1>1. worker \in [Workers -> Records]
  BY DEF TypeOK, Records
<1> QED
  BY <1>1 DEF EndStop, Records, WorkerStates

-----------------------------------------------------------------------------
(* Types. *)

(* Every step keeps the shape of the workers. *)
LEMMA WorkerTyped ==
  ASSUME TypeOK, Threads, CandidateInv, [Next]_vars
  PROVE  worker' \in [Workers -> Records]
<1>a. worker \in [Workers -> Records] /\ listed \subseteq Workers
  BY DEF TypeOK, Records
<1>b. host.pc \in Launching \cup Undoing => host.w \in Workers
  BY <1>a DEF CandidateInv
<1>1. CASE \E w \in Workers : Register(w) \/ DrainStep(w) \/ Die(w)
  <2>1. ASSUME NEW w \in Workers, Register(w) \/ DrainForget(w)
        PROVE  worker' = worker
    BY <2>1 DEF Register, DrainForget
  <2>2. ASSUME NEW w \in Workers, Drain(w)
        PROVE  worker' = worker \/ SetState(w, "DRAINING")
    BY <2>2 DEF Drain
  <2>3. ASSUME NEW w \in Workers, DrainStop(w) \/ DrainKill(w)
        PROVE  BeginStop(w) \/ EndStop(w)
    BY <2>3 DEF DrainStop, DrainKill
  <2>4. ASSUME NEW w \in Workers, Die(w)
        PROVE  worker' \in [Workers -> Records]
    BY <1>a, <2>4 DEF Die, Records
  <2>5. "DRAINING" \in WorkerStates
    BY DEF WorkerStates
  <2> QED
    BY <1>a, <1>1, <2>1, <2>2, <2>3, <2>4, <2>5, SetStateEffect, BeginStopEffect, EndStopEffect
    DEF DrainStep
<1>2. CASE Halt \/ HostStep
  <2>1. CASE Spawn
    BY <1>a, <2>1 DEF Spawn, Records, WorkerStates
  <2>2. CASE \E s \in WorkerStates : SetState(host.w, s)
    BY <2>2, SetStateEffect
  <2>3. CASE (\E w \in Workers : BeginStop(w)) \/ EndStop(host.w)
    BY <2>3, BeginStopEffect, EndStopEffect
  <2>4. \/ Spawn \/ (\E s \in WorkerStates : SetState(host.w, s)) \/ (\E w \in Workers : BeginStop(w))
        \/ EndStop(host.w) \/ worker' = worker
    BY <1>b, <1>2 DEF Halt, HostStep, SpawnFails, AwaitExited, AwaitProbed, AwaitTimeout, Ready, Switch,
      DrainOld, SwapDrained, Rollback, RollbackKill, RollbackForget, HaltJoined, HaltStop, HaltKill, Halted,
      Launching, Undoing, WorkerStates
  <2> QED
    BY <1>a, <2>1, <2>2, <2>3, <2>4
<1>3. CASE WatchStep
  <2>1. worker' = worker \/ \E v \in Workers \cup {watchdog.w}, s \in WorkerStates : SetState(v, s)
    BY <1>3 DEF WatchStep, WatchPass, WatchEnd, WatchNothing, WatchProbe, WatchMark, WatchHandle,
      WatchCrashed, WatchState, WorkerStates
  <2> QED
    BY <1>a, <2>1, SetStateEffect
<1>4. CASE UNCHANGED vars
  BY <1>a, <1>4 DEF vars
<1> QED
  BY <1>1, <1>2, <1>3, <1>4 DEF Next

(* The host thread is in h at pc, with a worker and a list. *)
In(h, pc, w, todo) == h \in Hosts /\ h.pc = pc /\ h.w = w /\ h.todo = todo

(* The moves of the host thread. *)
LEMMA HostMoves ==
  ASSUME NEW h \in Hosts, NEW pc \in HostPCs, NEW w \in Workers \cup {NoWorker},
         NEW todo \in SUBSET Workers
  PROVE  /\ In([h EXCEPT !.pc = pc], pc, h.w, h.todo)
         /\ In([h EXCEPT !.pc = pc, !.w = w], pc, w, h.todo)
         /\ In([h EXCEPT !.pc = pc, !.todo = todo], pc, h.w, todo)
         /\ In([h EXCEPT !.todo = todo], h.pc, h.w, todo)
         /\ In([pc |-> pc, w |-> w, todo |-> todo], pc, w, todo)
BY DEF In, Hosts

(* Where a step of the host thread leaves it. *)
LEMMA HostEffect ==
  ASSUME TypeOK, Threads, Halt \/ HostStep
  PROVE  /\ host' \in Hosts
         /\ host'.pc \in {"idle", "join", "stopping", "halted"} => host'.w = NoWorker
         /\ host'.pc \notin {"stopping", "halting"} => host'.todo = {}
<1>a. /\ host \in Hosts /\ active \in Workers \cup {NoWorker} /\ listed \in SUBSET Workers
      /\ host.pc \in {"idle", "join", "stopping", "halted"} => host.w = NoWorker
      /\ host.pc \notin {"stopping", "halting"} => host.todo = {}
      /\ host.w \in Workers \cup {NoWorker} /\ host.todo \in SUBSET Workers
  BY DEF TypeOK, Threads, Hosts
<1>b. \A pc \in HostPCs : At(pc) => In(host', pc, host.w, host.todo)
  BY <1>a, HostMoves DEF At
<1>c. /\ {} \in SUBSET Workers /\ NoWorker \in Workers \cup {NoWorker}
      /\ \A v : host.todo \ {v} \in SUBSET Workers
  BY <1>a
<1>1. CASE Spawn \/ AwaitExited \/ AwaitProbed \/ AwaitTimeout \/ Ready \/ Rollback \/ RollbackKill
  <2>1. /\ \E pc \in {"await", "rollback", "ready", "switch", "kill", "forget"} : At(pc)
        /\ host.pc \notin {"stopping", "halting"}
    BY <1>1 DEF Spawn, AwaitExited, AwaitProbed, AwaitTimeout, Ready, Rollback, RollbackKill
  <2> QED
    BY <1>a, <1>b, <2>1 DEF HostPCs, In
<1>2. CASE Return
  <2>1. In(host', "idle", NoWorker, {})
    BY <1>a, <1>c, <1>2, HostMoves DEF Return, HostPCs
  <2> QED
    BY <2>1 DEF In
<1>3. CASE Switch
  <2>1. In(host', "swapped", active, host.todo) /\ host.todo = {}
    BY <1>a, <1>3, HostMoves DEF Switch, HostPCs
  <2> QED
    BY <1>a, <2>1 DEF In
<1>4. CASE Halt \/ Halted \/ (DrainOld /\ At("drained"))
  BY <1>a, <1>b, <1>4 DEF Halt, Halted, DrainOld, HostPCs, In
<1>5. CASE HaltJoined
  <2>1. In(host', "stopping", host.w, listed) /\ host.w = NoWorker
    BY <1>a, <1>5, HostMoves DEF HaltJoined, HostPCs
  <2> QED
    BY <1>a, <2>1 DEF In
<1>6. CASE HaltKill
  <2>1. host' = [pc |-> "stopping", w |-> NoWorker, todo |-> host.todo \ {host.w}]
    BY <1>6 DEF HaltKill
  <2>2. In(host', "stopping", NoWorker, host.todo \ {host.w})
    BY <1>a, <1>c, <2>1, HostMoves DEF HostPCs
  <2> QED
    BY <2>2 DEF In
<1>7. ASSUME NEW w \in Workers, HaltStop(w)
      PROVE  \/ In(host', "halting", w, host.todo)
             \/ In(host', "stopping", NoWorker, host.todo \ {w})
  <2>1. CASE host' = [host EXCEPT !.pc = "halting", !.w = w]
    BY <1>a, <2>1, HostMoves DEF HostPCs
  <2>2. CASE host' = [host EXCEPT !.todo = host.todo \ {w}]
    <3>1. In(host', host.pc, host.w, host.todo \ {w})
      BY <1>a, <1>c, <2>2, HostMoves DEF HostPCs
    <3> QED
      BY <1>a, <1>7, <3>1 DEF HaltStop
  <2> QED
    BY <1>7, <2>1, <2>2 DEF HaltStop
<1>8. CASE \E w \in Workers : HaltStop(w)
  BY <1>7, <1>8 DEF In
<1> QED
  BY <1>1, <1>2, <1>3, <1>4, <1>5, <1>6, <1>8 DEF HostStep, SpawnFails, DrainOld, SwapDrained, RollbackForget

(* Every step keeps the threads' locals in shape. *)
LEMMA ThreadsNext ==
  ASSUME TypeOK, Threads, [Next]_vars
  PROVE  Threads'
<1>a. host \in Hosts /\ watchdog \in Watchdogs /\ listed \in SUBSET Workers
  BY DEF TypeOK, Threads
<1>1. watchdog' \in Watchdogs
  <2>1. ASSUME NEW w PROVE NextWorker(w) \in Watchdogs
    BY <1>a DEF NextWorker, WatchPCs, Watchdogs
  <2>2. \/ watchdog' = watchdog
        \/ \E w : watchdog' = NextWorker(w)
        \/ \E w \in Workers, pc \in WatchPCs : watchdog' = [watchdog EXCEPT !.pc = pc, !.w = w]
        \/ \E pc \in WatchPCs : watchdog' = [watchdog EXCEPT !.pc = pc]
        \/ \E pc \in WatchPCs : watchdog' = [watchdog EXCEPT !.pc = pc, !.todo = listed]
    BY DEF Next, vars, Register, StartWatchdog, DrainStep, Drain, DrainStop, DrainKill, DrainForget, Die, Halt,
    HostStep, Spawn, SpawnFails, AwaitExited, AwaitProbed, AwaitTimeout, Ready, Switch, DrainOld, SwapDrained,
    Rollback, RollbackKill, RollbackForget, HaltJoined, HaltStop, HaltKill, Halted, WatchStep,
    WatchPass, WatchEnd, WatchNothing, WatchProbe, WatchMark, WatchHandle, WatchCrashed, WatchState,
    WatchAt, WatchPCs
  <2> QED
    BY <1>a, <2>1, <2>2 DEF Watchdogs
<1>2. CASE Halt \/ HostStep
  BY <1>1, <1>2, HostEffect DEF Threads
<1>3. ASSUME NEW v \in Workers, Register(v)
      PROVE  Threads'
  <2>1. In(host', "spawn", v, {})
    BY <1>a, <1>3, HostMoves DEF Register, HostPCs
  <2> QED
    BY <1>1, <2>1 DEF Threads, In
<1>4. CASE UNCHANGED host
  BY <1>1, <1>4 DEF Threads
<1>5. ASSUME WatchStep \/ UNCHANGED vars \/ \E w \in Workers : DrainStep(w) \/ Die(w)
      PROVE  UNCHANGED host
  BY <1>5 DEF vars, WatchStep, WatchPass, WatchEnd, WatchNothing, WatchProbe, WatchMark,
    WatchHandle, WatchCrashed, WatchState, DrainStep, Drain, DrainStop, DrainKill, DrainForget, Die
<1> QED
  BY <1>2, <1>3, <1>4, <1>5 DEF Next

(* A state that says there is no process is set only where there is none. *)
LEMMA StatesNext ==
  ASSUME TypeOK, CandidateInv, [Next]_vars
  PROVE  \A w \in Workers : worker'[w].state \in {"STOPPED", "CRASHED"} => worker'[w].proc # "up"
<1>a. /\ worker \in [Workers -> Records] /\ listed \subseteq Workers
      /\ \A w \in Workers : worker[w].state \in {"STOPPED", "CRASHED"} => worker[w].proc # "up"
  BY DEF TypeOK, Records, Alive
<1>b. host.pc = "spawn" => worker[host.w].proc = "none"
  BY DEF CandidateInv, Launching
<1>1. CASE worker' = worker
  BY <1>a, <1>1
<1>2. ASSUME NEW v, NEW s \in WorkerStates, SetState(v, s),
             s \in {"STOPPED", "CRASHED"} => worker[v].proc # "up"
      PROVE  \A w \in Workers : worker'[w].state \in {"STOPPED", "CRASHED"} => worker'[w].proc # "up"
  BY <1>a, <1>2, SetStateEffect
<1>3. CASE \E v \in Workers : BeginStop(v)
  <2>1. PICK v \in Workers : BeginStop(v)
    BY <1>3
  <2>2. worker'[v].state \in {"STOPPED", "CRASHED"} => worker[v].proc # "up"
    BY <1>a, <2>1 DEF BeginStop, Alive, Records
  <2> QED
    BY <1>a, <2>1, <2>2, BeginStopEffect
<1>4. CASE \E v : EndStop(v)
  BY <1>a, <1>4, EndStopEffect
<1>5. CASE Spawn
  BY <1>a, <1>5 DEF Spawn, Records
<1>6. CASE \E v \in Workers : Die(v)
  BY <1>a, <1>6 DEF Die, Records
<1>7. \/ worker' = worker \/ Spawn \/ (\E v \in Workers : BeginStop(v)) \/ (\E v : EndStop(v))
      \/ (\E v \in Workers : Die(v))
      \/ \E v : \E s \in WorkerStates : SetState(v, s) /\ (s \in {"STOPPED", "CRASHED"} => worker[v].proc # "up")
  <2>1. CASE \E w \in Workers : Register(w) \/ DrainStep(w) \/ Die(w)
    BY <2>1 DEF Register, DrainStep, Drain, DrainStop, DrainKill, DrainForget, WorkerStates
  <2>2. CASE Halt \/ HostStep
    <3>1. host.pc = "rollback" => host.w \in Workers
      BY <1>a DEF CandidateInv, Undoing
    <3> QED
      BY <1>b, <2>2, <3>1 DEF Halt, HostStep, SpawnFails, AwaitExited, AwaitProbed, AwaitTimeout, Ready,
        Switch, DrainOld, SwapDrained, Rollback, RollbackKill, RollbackForget, HaltJoined, HaltStop,
        HaltKill, Halted, Dead, WorkerStates
  <2>3. CASE WatchStep
    BY <2>3 DEF WatchStep, WatchPass, WatchEnd, WatchNothing, WatchProbe, WatchMark, WatchHandle,
      WatchCrashed, WatchState, Crashed, Dead, WorkerStates
  <2>4. CASE UNCHANGED vars
    BY <2>4 DEF vars
  <2> QED
    BY <2>1, <2>2, <2>3, <2>4 DEF Next
<1> QED
  BY <1>1, <1>2, <1>3, <1>4, <1>5, <1>6, <1>7

(* Every step keeps the types. *)
LEMMA TypeNext ==
  ASSUME TypeOK, Threads, CandidateInv, [Next]_vars
  PROVE  TypeOK' /\ Threads'
<1>1. Threads' /\ worker' \in [Workers -> Records]
  BY ThreadsNext, WorkerTyped
<1>a. /\ host \in Hosts /\ host.w \in Workers \cup {NoWorker} /\ watchdog \in Watchdogs
      /\ drainer \in [Workers -> {"none", "drain", "stop", "kill", "forget"}]
      /\ active \in Workers \cup {NoWorker} /\ listed \in SUBSET Workers /\ quit \in BOOLEAN
  BY DEF TypeOK, Threads, Hosts
<1>2. active' \in Workers \cup {NoWorker} /\ listed' \in SUBSET Workers /\ quit' \in BOOLEAN
  BY <1>a DEF Next, vars, Register, StartWatchdog, DrainStep, Drain, DrainStop, DrainKill, DrainForget, Die, Halt,
    HostStep, Spawn, SpawnFails, AwaitExited, AwaitProbed, AwaitTimeout, Ready, Switch, DrainOld, SwapDrained,
    Rollback, RollbackKill, RollbackForget, HaltJoined, HaltStop, HaltKill, Halted, WatchStep,
    WatchPass, WatchEnd, WatchNothing, WatchProbe, WatchMark, WatchHandle, WatchCrashed, WatchState
<1>3. drainer' \in [Workers -> {"none", "drain", "stop", "kill", "forget"}]
  BY <1>a DEF Next, vars, Register, DrainStep, Drain, DrainStop, DrainKill, DrainForget, DrainAt, Die, Halt,
    HostStep, Spawn, SpawnFails, AwaitExited, AwaitProbed, AwaitTimeout, Ready, Switch, DrainOld, SwapDrained,
    Rollback, RollbackKill, RollbackForget, HaltJoined, HaltStop, HaltKill, Halted, WatchStep,
    WatchPass, WatchEnd, WatchNothing, WatchProbe, WatchMark, WatchHandle, WatchCrashed, WatchState
<1>4. /\ watchdog'.pc \in WatchPCs /\ watchdog'.todo \subseteq Workers
      /\ watchdog'.w \in Workers \cup {NoWorker}
  BY <1>1 DEF Threads, Watchdogs
<1>5. /\ host'.pc \in HostPCs /\ host'.w \in Workers \cup {NoWorker} /\ host'.todo \subseteq Workers
  BY <1>1 DEF Threads, Hosts
<1> QED
  BY <1>1, <1>2, <1>3, <1>4, <1>5, StatesNext DEF TypeOK, Records, WatchPCs, HostPCs, Alive

-----------------------------------------------------------------------------
(* Safety. *)

Safe == ActiveServes /\ CandidateInv /\ ListInv /\ HaltInv

(* Everyone who looks at a worker without stopping it: the watchdog, which *)
(* may also clear the pointer, and the death of a process.                 *)
LEMMA Watching ==
  ASSUME IInv, UNCHANGED <<listed, host, drainer>>, active' = active \/ active' = NoWorker,
         worker' \in [Workers -> Records],
         \A w \in Workers :
           /\ worker'[w].intentional = worker[w].intentional
           /\ worker'[w].proc = worker[w].proc \/ (Alive(w) /\ worker'[w].proc = "dead")
           /\ worker'[w].state = worker[w].state
              \/ worker'[w].state \in {"HEALTHY", "DEGRADED", "CRASHED"}
  PROVE  Safe'
<1>a. /\ active \in Workers \cup {NoWorker} /\ listed \subseteq Workers /\ TypeOK
      /\ ActiveServes /\ CandidateInv /\ ListInv /\ HaltInv
      /\ worker \in [Workers -> Records]
  BY DEF IInv, TypeOK, Records
<1>b. host.pc \in Launching \cup Undoing => host.w \in Workers
  BY <1>a DEF CandidateInv
<1>1. ActiveServes'
  BY <1>a DEF ActiveServes
<1>2. CandidateInv'
  <2>1. CASE host.pc \in Launching \cup Undoing
    <3>1. host.w \in listed /\ host.w # active' /\ drainer[host.w] = "none"
      BY <1>a, <1>b, <2>1, SupervisorAssumption DEF CandidateInv
    <3> QED
      BY <1>a, <1>b, <2>1, <3>1 DEF CandidateInv, Alive
  <2> QED
    BY <2>1 DEF CandidateInv
<1>3. ListInv'
  BY <1>a DEF ListInv, Alive
<1>4. HaltInv'
  BY <1>a DEF HaltInv, Alive
<1> QED
  BY <1>1, <1>2, <1>3, <1>4 DEF Safe

(* The watchdog, a process that dies, and nobody. *)
LEMMA InvWatch ==
  ASSUME IInv, WatchStep \/ (\E w \in Workers : Die(w)) \/ UNCHANGED vars
  PROVE  Safe'
<1>a. TypeOK /\ worker \in [Workers -> Records]
  BY DEF IInv, TypeOK, Records
<1>1. CASE \E v \in Workers : Die(v)
  BY <1>a, <1>1, Watching DEF Die, Records, Alive
<1>2. CASE UNCHANGED vars
  BY <1>a, <1>2, Watching DEF vars
<1>3. CASE WatchStep
  <2>1. UNCHANGED <<listed, host, drainer>> /\ (active' = active \/ active' = NoWorker)
    BY <1>3 DEF WatchStep, WatchPass, WatchEnd, WatchNothing, WatchProbe, WatchMark, WatchHandle,
      WatchCrashed, WatchState
  <2>2. worker' = worker \/ \E v \in Workers \cup {watchdog.w}, s \in {"HEALTHY", "DEGRADED", "CRASHED"} : SetState(v, s)
    BY <1>3 DEF WatchStep, WatchPass, WatchEnd, WatchNothing, WatchProbe, WatchMark, WatchHandle,
      WatchCrashed, WatchState
  <2>3. CASE worker' = worker
    BY <1>a, <2>1, <2>3, Watching
  <2>4. ASSUME NEW v, NEW s \in {"HEALTHY", "DEGRADED", "CRASHED"}, SetState(v, s)
        PROVE  Safe'
    BY <1>a, <2>1, <2>4, SetStateEffect, Watching DEF WorkerStates
  <2> QED
    BY <2>2, <2>3, <2>4
<1> QED
  BY <1>1, <1>2, <1>3

(* The drain of a replaced worker is about neither the active one nor the *)
(* candidate.                                                             *)
LEMMA InvDrain ==
  ASSUME IInv, NEW v \in Workers, DrainStep(v)
  PROVE  Safe'
<1>a. /\ TypeOK /\ worker \in [Workers -> Records] /\ active \in Workers \cup {NoWorker}
      /\ listed \subseteq Workers /\ drainer \in [Workers -> {"none", "drain", "stop", "kill", "forget"}]
      /\ ActiveServes /\ CandidateInv /\ ListInv /\ HaltInv
  BY DEF IInv, TypeOK, Records
<1>b. UNCHANGED <<active, host>> /\ drainer[v] # "none"
  BY DEF DrainStep, Drain, DrainStop, DrainKill, DrainForget
<1>c. /\ v # active /\ worker[v].proc # "none"
      /\ host.pc \in Launching \cup Undoing => host.w # v /\ host.w \in Workers
  BY <1>a, <1>b, SupervisorAssumption DEF ActiveServes, CandidateInv, ListInv
<1>d. \A w \in Workers \ {v} : drainer'[w] = drainer[w]
  BY <1>a DEF DrainStep, Drain, DrainStop, DrainKill, DrainForget, DrainAt
<1>e. /\ listed' \subseteq listed /\ listed \ {v} \subseteq listed' /\ (Alive(v) => listed' = listed)
  BY DEF DrainStep, Drain, DrainStop, DrainKill, DrainForget
<1>f. \A w \in Workers :
        /\ w # v => /\ worker'[w].state = worker[w].state /\ worker'[w].proc = worker[w].proc
                    /\ worker'[w].intentional = worker[w].intentional
        /\ worker'[v].proc = worker[v].proc \/ worker'[v].proc = "dead"
  <2>1. CASE worker' = worker
    BY <2>1
  <2>2. CASE SetState(v, "DRAINING")
    BY <1>a, <2>2, SetStateEffect DEF WorkerStates
  <2>3. CASE BeginStop(v)
    BY <1>a, <2>3, BeginStopEffect
  <2>4. CASE EndStop(v)
    BY <1>a, <2>4, EndStopEffect
  <2> QED
    BY <2>1, <2>2, <2>3, <2>4 DEF DrainStep, Drain, DrainStop, DrainKill, DrainForget
<1>1. ActiveServes'
  BY <1>a, <1>b, <1>c, <1>d, <1>e, <1>f DEF ActiveServes
<1>2. CandidateInv'
  <2>1. CASE host.pc \in Launching \cup Undoing
    <3>1. host.w \in Workers \ {v}
      BY <1>c, <2>1
    <3> QED
      BY <1>a, <1>b, <1>d, <1>e, <1>f, <2>1, <3>1 DEF CandidateInv
  <2> QED
    BY <1>b, <2>1 DEF CandidateInv
<1>3. ListInv'
  BY <1>a, <1>c, <1>d, <1>e, <1>f DEF ListInv, Alive
<1>4. HaltInv'
  BY <1>a, <1>b, <1>c, <1>e, <1>f DEF HaltInv, Alive
<1> QED
  BY <1>1, <1>2, <1>3, <1>4 DEF Safe

(* A new worker is nobody's: not active, not drained, never told to stop. *)
LEMMA InvRegister ==
  ASSUME IInv, NEW v \in Workers, Register(v)
  PROVE  Safe'
<1>a. /\ active \in Workers \cup {NoWorker} /\ ActiveServes /\ ListInv /\ host \in Hosts
  BY DEF IInv, TypeOK, Threads
<1>b. UNCHANGED <<worker, active, drainer>> /\ listed' = listed \cup {v} /\ v \notin listed
      /\ worker[v].proc = "none"
  BY DEF Register
<1>c. In(host', "spawn", v, {})
  BY <1>a, HostMoves DEF Register, HostPCs
<1>1. ActiveServes'
  BY <1>a, <1>b DEF ActiveServes
<1>2. CandidateInv'
  BY <1>a, <1>b, <1>c, SupervisorAssumption
  DEF CandidateInv, ActiveServes, ListInv, Launching, Undoing, In
<1>3. ListInv'
  BY <1>a, <1>b DEF ListInv, Alive
<1>4. HaltInv'
  BY <1>c DEF HaltInv, In
<1> QED
  BY <1>1, <1>2, <1>3, <1>4 DEF Safe

(* launch_initial_worker and hot_swap up to the switch, and the rollback. *)
LEMMA InvLaunch ==
  ASSUME IInv, \/ Spawn \/ SpawnFails \/ AwaitExited \/ AwaitProbed \/ AwaitTimeout \/ Ready
               \/ Rollback \/ RollbackKill \/ RollbackForget
  PROVE  Safe'
<1>a. /\ TypeOK /\ worker \in [Workers -> Records] /\ active \in Workers \cup {NoWorker}
      /\ listed \subseteq Workers /\ host \in Hosts /\ host.todo \in SUBSET Workers
      /\ ActiveServes /\ CandidateInv /\ ListInv
  BY DEF IInv, TypeOK, Records, Threads
<1>b. UNCHANGED <<active, drainer>> /\ host.pc \in Launching \cup Undoing
  BY DEF Spawn, SpawnFails, AwaitExited, AwaitProbed, AwaitTimeout, Ready, Rollback, RollbackKill,
    RollbackForget, Launching, Undoing
<1>v. PICK v \in Workers : v = host.w /\ v \in listed /\ v # active /\ drainer[v] = "none"
  BY <1>a, <1>b DEF CandidateInv
<1>c. \A pc \in HostPCs : At(pc) => In(host', pc, v, host.todo)
  BY <1>a, <1>v, HostMoves DEF At
<1>d. Return => host'.pc = "idle"
  BY DEF Return
<1>f. \A w \in Workers \ {v} :
        /\ worker'[w].state = worker[w].state /\ worker'[w].proc = worker[w].proc
        /\ worker'[w].intentional = worker[w].intentional
  <2>1. CASE worker' = worker
    BY <2>1
  <2>2. CASE \E s \in WorkerStates : SetState(v, s)
    BY <1>a, <2>2, SetStateEffect
  <2>3. CASE BeginStop(v) \/ EndStop(v)
    BY <1>a, <2>3, BeginStopEffect, EndStopEffect
  <2>4. CASE Spawn
    BY <1>a, <1>v, <2>4 DEF Spawn, Records
  <2> QED
    BY <1>v, <2>1, <2>2, <2>3, <2>4 DEF SpawnFails, AwaitExited, AwaitProbed, AwaitTimeout, Ready, Rollback, RollbackKill,
    RollbackForget, WorkerStates
<1>g. listed \ {v} \subseteq listed' /\ listed' \subseteq listed /\ (RollbackForget \/ listed' = listed)
  BY <1>v DEF Spawn, SpawnFails, AwaitExited, AwaitProbed, AwaitTimeout, Ready, Rollback, RollbackKill,
    RollbackForget
<1>1. ActiveServes'
  BY <1>a, <1>b, <1>v, <1>f, <1>g DEF ActiveServes
<1>2. \A w \in Workers \ {v} :
        /\ Alive(w)' => w \in listed'
        /\ drainer'[w] # "none" => worker'[w].proc # "none"
        /\ worker'[w].intentional => w \in listed' \/ worker'[w].proc # "none"
  BY <1>a, <1>b, <1>f, <1>g DEF ListInv, Alive
<1>h. /\ host.pc \in Launching => ~worker[v].intentional
      /\ host.pc # "spawn" => worker[v].proc # "none"
      /\ host.pc = "forget" => worker[v].proc # "up"
  BY <1>a, <1>b, <1>v DEF CandidateInv
<1>3. CASE Spawn
  <2>1. /\ host.pc = "spawn" /\ In(host', "await", v, host.todo) /\ listed' = listed
        /\ worker'[v].proc = "up" /\ worker'[v].intentional = worker[v].intentional
    BY <1>a, <1>c, <1>v, <1>3 DEF Spawn, HostPCs, Records
  <2>2. CandidateInv'
    BY <1>b, <1>v, <1>h, <2>1 DEF CandidateInv, In, Launching, Undoing
  <2>3. ListInv' /\ HaltInv'
    BY <1>b, <1>v, <1>2, <2>1 DEF ListInv, HaltInv, Alive, In
  <2> QED
    BY <1>1, <2>2, <2>3 DEF Safe
<1>4. CASE SpawnFails
  <2>1. /\ host'.pc = "idle" /\ listed' = listed
        /\ worker'[v].proc = worker[v].proc /\ worker'[v].intentional = worker[v].intentional
    BY <1>a, <1>d, <1>v, <1>4, SetStateEffect DEF SpawnFails, WorkerStates
  <2>2. CandidateInv' /\ HaltInv'
    BY <2>1 DEF CandidateInv, HaltInv, Launching, Undoing
  <2>3. ListInv'
    BY <1>a, <1>b, <1>v, <1>2, <2>1 DEF ListInv, Alive
  <2> QED
    BY <1>1, <2>2, <2>3 DEF Safe
<1>5. CASE AwaitExited \/ AwaitProbed \/ AwaitTimeout \/ Ready
  <2>1. PICK pc \in {"rollback", "ready", "switch"} : In(host', pc, v, host.todo) /\ (pc = "switch" => Ready)
    BY <1>c, <1>5 DEF AwaitExited, AwaitProbed, AwaitTimeout, Ready, HostPCs
  <2>2. /\ listed' = listed /\ host.pc \in {"await", "ready"}
        /\ worker' = worker \/ SetState(v, "CRASHED") \/ SetState(v, "HEALTHY")
        /\ Ready => SetState(v, "HEALTHY")
    BY <1>v, <1>5 DEF AwaitExited, AwaitProbed, AwaitTimeout, Ready
  <2>3. /\ worker'[v].proc = worker[v].proc /\ worker'[v].intentional = worker[v].intentional
        /\ Ready => worker'[v].state = "HEALTHY"
    BY <1>a, <2>2, SetStateEffect DEF WorkerStates
  <2>4. CandidateInv'
    BY <1>b, <1>v, <1>h, <2>1, <2>2, <2>3 DEF CandidateInv, In, Launching, Undoing
  <2>5. ListInv'
    BY <1>b, <1>v, <1>2, <2>2, <2>3 DEF ListInv, Alive
  <2>6. HaltInv'
    BY <2>1 DEF HaltInv, In
  <2> QED
    BY <1>1, <2>4, <2>5, <2>6 DEF Safe
<1>6. CASE Rollback \/ RollbackKill
  <2>1. PICK pc \in {"kill", "forget"} :
          /\ In(host', pc, v, host.todo)
          /\ pc = "forget" => RollbackKill \/ (Rollback /\ ~Alive(v))
    BY <1>c, <1>v, <1>6 DEF Rollback, RollbackKill, HostPCs
  <2>2. /\ listed' = listed /\ host.pc \in {"rollback", "kill"}
        /\ Rollback => BeginStop(v)
        /\ RollbackKill => EndStop(v)
    BY <1>v, <1>6 DEF Rollback, RollbackKill
  <2>3. /\ worker'[v].proc # "none"
        /\ Rollback => worker'[v].proc = worker[v].proc
        /\ RollbackKill => worker'[v].proc = "dead"
    <3>1. CASE Rollback
      <4>1. worker'[v].proc = worker[v].proc
        BY <1>a, <2>2, <3>1, BeginStopEffect
      <4>2. ~RollbackKill
        BY <3>1 DEF Rollback, RollbackKill
      <4> QED
        BY <1>h, <2>2, <4>1, <4>2
    <3>2. CASE RollbackKill
      <4>1. worker'[v].proc = "dead"
        BY <1>a, <2>2, <3>2, EndStopEffect
      <4>2. ~Rollback
        BY <3>2 DEF Rollback, RollbackKill
      <4> QED
        BY <4>1, <4>2
    <3> QED
      BY <1>6, <3>1, <3>2
  <2>4. CandidateInv'
    BY <1>b, <1>v, <2>1, <2>2, <2>3 DEF CandidateInv, In, Launching, Undoing, Alive
  <2>5. ListInv'
    BY <1>b, <1>v, <1>2, <2>2, <2>3 DEF ListInv, Alive
  <2>6. HaltInv'
    BY <2>1 DEF HaltInv, In
  <2> QED
    BY <1>1, <2>4, <2>5, <2>6 DEF Safe
<1>7. CASE RollbackForget
  <2>1. host'.pc = "idle" /\ worker' = worker /\ host.pc = "forget"
    BY <1>d, <1>7 DEF RollbackForget
  <2>2. ListInv'
    BY <1>b, <1>v, <1>h, <1>2, <2>1 DEF ListInv, Alive
  <2> QED
    BY <1>1, <2>1, <2>2 DEF Safe, CandidateInv, HaltInv, Launching, Undoing
<1> QED
  BY <1>3, <1>4, <1>5, <1>6, <1>7

(* The atomic switch: the candidate becomes active. *)
LEMMA InvSwitch ==
  ASSUME IInv, Switch
  PROVE  Safe'
<1>a. /\ active \in Workers \cup {NoWorker} /\ host \in Hosts /\ host.todo \in SUBSET Workers
      /\ listed \subseteq Workers /\ CandidateInv /\ ListInv
  BY DEF IInv, TypeOK, Threads
<1>b. UNCHANGED <<worker, listed, drainer>> /\ host'.pc = "swapped"
  <2>1. In(host', "swapped", active, host.todo)
    BY <1>a, HostMoves DEF Switch, HostPCs
  <2> QED
    BY <2>1 DEF Switch, In
<1>v. PICK v \in Workers : /\ v = host.w /\ active' = v /\ v \in listed /\ drainer[v] = "none"
                           /\ ~worker[v].intentional
                           /\ worker[v].state \in {"HEALTHY", "DEGRADED", "CRASHED"}
  BY <1>a DEF Switch, CandidateInv, Launching, Undoing
<1>1. ActiveServes' /\ CandidateInv' /\ HaltInv'
  BY <1>b, <1>v DEF ActiveServes, CandidateInv, HaltInv, Launching, Undoing
<1>2. ListInv'
  BY <1>a, <1>b DEF ListInv, Alive
<1> QED
  BY <1>1, <1>2 DEF Safe

(* What was active before the switch is handed to a drain. *)
LEMMA InvDrainOld ==
  ASSUME IInv, DrainOld \/ SwapDrained
  PROVE  Safe'
<1>a. /\ active \in Workers \cup {NoWorker} /\ host \in Hosts /\ host.w \in Workers \cup {NoWorker}
      /\ drainer \in [Workers -> {"none", "drain", "stop", "kill", "forget"}]
      /\ ActiveServes /\ ReplacedInv /\ ListInv
  BY DEF IInv, TypeOK, Threads
<1>b. UNCHANGED <<worker, active, listed>> /\ host'.pc \in {"idle", "drained"}
  <2>1. Return => host'.pc = "idle"
    BY DEF Return
  <2>2. At("drained") => host'.pc = "drained"
    BY <1>a DEF At, Hosts
  <2> QED
    BY <2>1, <2>2 DEF DrainOld, SwapDrained
<1>1. \/ drainer' = drainer
      \/ /\ host.w \in Workers /\ host.w # active /\ Alive(host.w)
         /\ drainer' = [drainer EXCEPT ![host.w] = "drain"]
  BY <1>a DEF DrainOld, SwapDrained, ReplacedInv
<1>2. CandidateInv' /\ HaltInv'
  BY <1>b DEF CandidateInv, HaltInv, Launching, Undoing
<1>3. ActiveServes'
  BY <1>a, <1>b, <1>1 DEF ActiveServes
<1>4. ListInv'
  BY <1>a, <1>b, <1>1 DEF ListInv, Alive
<1> QED
  BY <1>2, <1>3, <1>4 DEF Safe

(* ProcessSupervisor.stop. *)
LEMMA InvHalt ==
  ASSUME IInv, Halt \/ HaltJoined \/ (\E w \in Workers : HaltStop(w)) \/ HaltKill \/ Halted
  PROVE  Safe'
<1>a. /\ TypeOK /\ active \in Workers \cup {NoWorker} /\ host \in Hosts
      /\ listed \in SUBSET Workers /\ ActiveServes /\ ListInv /\ HaltInv
      /\ host.w \in Workers \cup {NoWorker} /\ host.todo \in SUBSET Workers
  BY DEF IInv, TypeOK, Threads
<1>b. UNCHANGED <<listed, drainer>>
  BY DEF Halt, HaltJoined, HaltStop, HaltKill, Halted
<1>c. \A pc \in HostPCs : At(pc) => In(host', pc, host.w, host.todo)
  BY <1>a, HostMoves DEF At
<1>1. CASE Halt
  <2>1. In(host', "join", host.w, host.todo) /\ UNCHANGED <<worker, active>>
    BY <1>c, <1>1 DEF Halt, HostPCs
  <2> QED
    BY <1>a, <1>b, <2>1 DEF Safe, ActiveServes, CandidateInv, ListInv, HaltInv, Alive, In, Launching, Undoing
<1>2. CASE HaltJoined
  <2>1. In(host', "stopping", host.w, listed) /\ worker' = worker /\ active' = NoWorker
    BY <1>a, <1>2, HostMoves DEF HaltJoined, HostPCs
  <2> QED
    BY <1>a, <1>b, <2>1 DEF Safe, ActiveServes, CandidateInv, ListInv, HaltInv, Alive, In, Launching, Undoing
<1>3. CASE Halted
  <2>1. /\ In(host', "halted", host.w, host.todo) /\ UNCHANGED <<worker, active>>
        /\ host.pc = "stopping" /\ host.todo = {}
    BY <1>c, <1>3 DEF Halted, HostPCs
  <2> QED
    BY <1>a, <1>b, <2>1 DEF Safe, ActiveServes, CandidateInv, ListInv, HaltInv, Alive, In, Launching, Undoing
<1>4. CASE HaltKill
  <2>1. /\ In(host', "stopping", NoWorker, host.todo \ {host.w}) /\ UNCHANGED active
        /\ host.pc = "halting" /\ EndStop(host.w)
    <3>1. host.todo \ {host.w} \in SUBSET Workers
      BY <1>a
    <3>2. host' = [pc |-> "stopping", w |-> NoWorker, todo |-> host.todo \ {host.w}]
      BY <1>4 DEF HaltKill
    <3>3. In(host', "stopping", NoWorker, host.todo \ {host.w})
      BY <1>a, <3>1, <3>2, HostMoves DEF HostPCs
    <3> QED
      BY <1>4, <3>3 DEF HaltKill
  <2>2. \A w \in Workers : /\ worker'[w].intentional = worker[w].intentional
                           /\ worker'[w].proc = IF w = host.w THEN "dead" ELSE worker[w].proc
    BY <1>a, <2>1, EndStopEffect
  <2>3. active' = NoWorker
    BY <1>a, <2>1 DEF HaltInv
  <2>4. ListInv' /\ HaltInv'
    BY <1>a, <1>b, <2>1, <2>2, <2>3 DEF ListInv, HaltInv, Alive, In
  <2> QED
    BY <2>1, <2>3, <2>4 DEF Safe, ActiveServes, CandidateInv, In, Launching, Undoing
<1>5. ASSUME NEW v \in Workers, HaltStop(v)
      PROVE  Safe'
  <2>1. host.pc = "stopping" /\ v \in host.todo /\ BeginStop(v) /\ UNCHANGED active
    BY <1>5 DEF HaltStop
  <2>2. \/ Alive(v) /\ In(host', "halting", v, host.todo)
        \/ ~Alive(v) /\ In(host', "stopping", host.w, host.todo \ {v})
    <3>1. host.todo \ {v} \in SUBSET Workers
      BY <1>a
    <3>2. CASE Alive(v)
      BY <1>a, <1>5, <3>2, HostMoves DEF HaltStop, HostPCs
    <3>3. CASE ~Alive(v)
      <4>1. host' = [host EXCEPT !.todo = host.todo \ {v}]
        BY <1>5, <3>3 DEF HaltStop
      <4>2. In(host', host.pc, host.w, host.todo \ {v})
        BY <1>a, <3>1, <4>1, HostMoves DEF HostPCs
      <4> QED
        BY <2>1, <3>3, <4>2
    <3> QED
      BY <3>2, <3>3
  <2>3. \A w \in Workers : /\ worker'[w].proc = worker[w].proc
                           /\ w # v => worker'[w] = worker[w]
    BY <1>a, <2>1, BeginStopEffect
  <2>4. active' = NoWorker /\ (v \in listed \/ worker[v].proc # "none")
    BY <1>a, <2>1 DEF HaltInv
  <2>5. ListInv' /\ HaltInv'
    BY <1>a, <1>b, <2>1, <2>2, <2>3, <2>4 DEF ListInv, HaltInv, Alive, In
  <2> QED
    BY <2>2, <2>4, <2>5 DEF Safe, ActiveServes, CandidateInv, In, Launching, Undoing
<1> QED
  BY <1>1, <1>2, <1>3, <1>4, <1>5

(* The pointer never goes back to the worker it was taken off. *)
LEMMA InvReplaced ==
  ASSUME IInv, [Next]_vars
  PROVE  ReplacedInv'
<1>a. /\ host \in Hosts /\ host.w \in Workers \cup {NoWorker} /\ active \in Workers \cup {NoWorker}
      /\ listed \in SUBSET Workers /\ host.todo \in SUBSET Workers /\ CandidateInv /\ ReplacedInv
  BY DEF IInv, TypeOK, Threads
<1>1. CASE Switch
  <2>1. /\ host.w # active /\ active' = host.w
        /\ In(host', "swapped", active, host.todo)
    BY <1>a, <1>1, HostMoves DEF Switch, CandidateInv, Launching, HostPCs
  <2> QED
    BY <2>1 DEF ReplacedInv, In
<1>2. CASE host'.pc # "swapped"
  BY <1>2 DEF ReplacedInv
<1>3. CASE host' = host /\ (active' = active \/ active' = NoWorker)
  BY <1>a, <1>3 DEF ReplacedInv
<1>4. CASE Halt \/ HostStep
  <2>1. \A pc \in HostPCs \ {"swapped"} : At(pc) => host'.pc # "swapped"
    BY <1>a DEF At, Hosts
  <2>2. Return => host'.pc # "swapped"
    BY DEF Return
  <2>3. HaltJoined \/ HaltKill \/ (\E w \in Workers : HaltStop(w)) => host'.pc # "swapped"
    <3>1. HaltJoined \/ HaltKill => host'.pc # "swapped"
      <4>1. HaltJoined => host' = [host EXCEPT !.pc = "stopping", !.todo = listed]
        BY DEF HaltJoined
      <4>2. HaltKill => host'.pc = "stopping"
        BY DEF HaltKill
      <4> QED
        BY <1>a, <4>1, <4>2 DEF Hosts
    <3>2. ASSUME NEW w, HaltStop(w) PROVE host'.pc # "swapped"
      <4>1. host.pc = "stopping" /\ host' \in {[host EXCEPT !.pc = "halting", !.w = w], [host EXCEPT !.todo = @ \ {w}]}
        BY <3>2 DEF HaltStop
      <4> QED
        BY <1>a, <4>1 DEF Hosts
    <3> QED
      BY <3>1, <3>2
  <2> QED
    BY <1>1, <1>2, <1>4, <2>1, <2>2, <2>3 DEF Halt, HostStep, Spawn, SpawnFails, AwaitExited, AwaitProbed,
      AwaitTimeout, Ready, DrainOld, SwapDrained, Rollback, RollbackKill, RollbackForget, Halted, HostPCs
<1>5. CASE \E w \in Workers : Register(w)
  BY <1>2, <1>5 DEF Register
<1>6. CASE WatchStep \/ UNCHANGED vars \/ \E w \in Workers : DrainStep(w) \/ Die(w)
  BY <1>3, <1>6 DEF vars, WatchStep, WatchPass, WatchEnd, WatchNothing, WatchProbe, WatchMark,
    WatchHandle, WatchCrashed, WatchState, DrainStep, Drain, DrainStop, DrainKill, DrainForget, Die
<1> QED
  BY <1>4, <1>5, <1>6 DEF Next

(* No thread has been started. *)
LEMMA InvInit == Init => IInv
<1> SUFFICES ASSUME Init PROVE IInv
  OBVIOUS
<1>1. worker \in [Workers -> Records] /\ \A w \in Workers : worker[w].proc = "none" /\ ~worker[w].intentional
  BY DEF Init, Records, WorkerStates
<1>2. host \in Hosts /\ host.pc = "idle" /\ host.w = NoWorker /\ host.todo = {}
  BY DEF Init, Hosts, HostPCs
<1>3. /\ watchdog \in Watchdogs /\ watchdog.pc = "ended" /\ watchdog.todo = {}
      /\ watchdog.w = NoWorker
  BY DEF Init, Watchdogs, WatchPCs
<1>4. /\ drainer \in [Workers -> {"none", "drain", "stop", "kill", "forget"}]
      /\ \A w \in Workers : drainer[w] = "none"
  BY DEF Init
<1>5. active = NoWorker /\ listed = {} /\ quit \in BOOLEAN
  BY DEF Init
<1>6. TypeOK /\ Threads
  BY <1>1, <1>2, <1>3, <1>4, <1>5 DEF TypeOK, Threads, Records, Alive
<1> QED
  BY <1>1, <1>2, <1>4, <1>5, <1>6 DEF IInv, ActiveServes, CandidateInv, ReplacedInv, ListInv, HaltInv, Alive,
    Launching, Undoing

(* The inductive invariant holds in every reachable state. *)
LEMMA Invariance == Spec => []IInv
<1>1. IInv /\ [Next]_vars => IInv'
  <2> SUFFICES ASSUME IInv, [Next]_vars PROVE IInv'
    OBVIOUS
  <2>1. TypeOK' /\ Threads'
    BY TypeNext DEF IInv
  <2>2. Safe'
    BY InvWatch, InvDrain, InvRegister, InvLaunch, InvSwitch, InvDrainOld, InvHalt DEF Next, HostStep
  <2> QED
    BY <2>1, <2>2, InvReplaced DEF IInv, Safe
<1> QED
  BY <1>1, InvInit, PTL DEF Spec

-----------------------------------------------------------------------------
(* The properties. *)

(* THEOREM SupervisorTypes: for any number of workers the workers, the     *)
(* list and the threads' locals keep their shape, and no worker is ever    *)
(* reported as stopped or crashed while its process runs.                  *)
THEOREM SupervisorTypes == Spec => []TypeOK
<1>1. IInv => TypeOK
  BY DEF IInv
<1> QED
  BY <1>1, Invariance, PTL

(* THEOREM RoutesToServing: for any number of workers, requests are routed *)
(* to a listed worker that nobody drains or stops, however the watchdog,   *)
(* drains, swaps and the stop interleave.                                  *)
THEOREM RoutesToServing == Spec => []ActiveServes
<1>1. IInv => ActiveServes
  BY DEF IInv
<1> QED
  BY <1>1, Invariance, PTL

(* THEOREM StopLeavesNothing: a stop that has returned leaves no process,  *)
(* though drains change the list while it works through its own copy.      *)
THEOREM StopLeavesNothing == Spec => []HaltTerminates
<1>1. IInv => HaltTerminates
  BY DEF IInv, HaltInv, HaltTerminates
<1> QED
  BY <1>1, Invariance, PTL
=============================================================================
