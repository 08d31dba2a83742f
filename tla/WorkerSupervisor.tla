------------------------- MODULE WorkerSupervisor -------------------------
(***************************************************************************)
(* The process supervisor of the plugin store: a host thread that launches *)
(* workers, swaps the active one for a new version and stops everything,   *)
(* the watchdog thread, one drain thread per replaced worker, and worker   *)
(* processes that may die at any time.  A step is what one thread does     *)
(* under one hold of a worker's or the supervisor's lock; the watchdog's   *)
(* last step on a worker, _set_state, holds none.  Clocks are left out: a  *)
(* readiness deadline, a grace period and the join of the watchdog may end *)
(* at any time.                                                            *)
(*                                                                         *)
(* Source: tools/store/supervisor.py.                                      *)
(***************************************************************************)
EXTENDS FiniteSets

CONSTANTS
  Workers,   \* the WorkerProcess objects, one per launch or hot_swap
  NoWorker   \* None

ASSUME SupervisorAssumption == NoWorker \notin Workers

VARIABLES
  worker,    \* each WorkerProcess: its state, its process, _intentional_shutdown
  active,    \* _active_worker
  listed,    \* _all_workers
  quit,      \* _stop_watchdog_event
  watchdog,  \* the watchdog thread: where it is, its snapshot, the worker it looks at
  host,      \* the host thread: where it is, its candidate, the workers left to stop
  drainer    \* the drain thread of a worker

vars == <<worker, active, listed, quit, watchdog, host, drainer>>

WorkerStates == {"STOPPED", "STARTING", "HEALTHY", "DEGRADED", "DRAINING", "STOPPING", "CRASHED"}

Alive(w) == worker[w].proc = "up"
Dead(w)  == worker[w].proc = "dead"

\* No thread has been started and nothing has been launched.
Init ==
  /\ worker   = [w \in Workers |-> [state |-> "STOPPED", proc |-> "none", intentional |-> FALSE]]
  /\ active   = NoWorker
  /\ listed   = {}
  /\ quit     = FALSE
  /\ watchdog = [pc |-> "ended", todo |-> {}, w |-> NoWorker]
  /\ host     = [pc |-> "idle", w |-> NoWorker, todo |-> {}]
  /\ drainer  = [w \in Workers |-> "none"]

SetState(w, s) == worker' = [worker EXCEPT ![w].state = s]

-----------------------------------------------------------------------------
(* WorkerProcess.stop: what it does under the lock, and after the wait.     *)

\* Mutant: the worker is reported as stopped before its process is gone.
BeginStopEarly(w) ==
  worker' = [worker EXCEPT ![w].intentional = TRUE, ![w].state = "STOPPED"]

BeginStop(w) ==
  worker' = [worker EXCEPT ![w].intentional = TRUE,
                           ![w].state = IF Alive(w) THEN "STOPPING" ELSE "STOPPED"]

\* SIGTERM, and SIGKILL two seconds later: the process is gone.  That SIGKILL
\* ends it within the two seconds of the second wait is assumed of the system;
\* else TimeoutExpired would leave stop() with the process still there.
EndStop(w) == worker' = [worker EXCEPT ![w].proc = "dead", ![w].state = "STOPPED"]

-----------------------------------------------------------------------------
(* The host thread.                                                         *)

Resting == host.pc \in {"idle", "halted"}
At(pc)  == host' = [host EXCEPT !.pc = pc]
Return  == host' = [pc |-> "idle", w |-> NoWorker, todo |-> {}]

\* ProcessSupervisor.start: a watchdog still alive keeps the event as it is.
StartWatchdog ==
  IF watchdog.pc # "ended"
  THEN UNCHANGED <<watchdog, quit>>
  ELSE /\ quit' = FALSE
       /\ watchdog' = [watchdog EXCEPT !.pc = "between"]

\* launch_initial_worker (while nothing is active) and hot_swap begin alike.
Register(w) ==
  /\ Resting /\ w \notin listed /\ worker[w].proc = "none"
  /\ StartWatchdog
  /\ listed' = listed \cup {w}
  /\ host' = [pc |-> "spawn", w |-> w, todo |-> {}]
  /\ UNCHANGED <<worker, active, drainer>>

Spawn ==
  /\ host.pc = "spawn"
  /\ worker' = [worker EXCEPT ![host.w].state = "STARTING", ![host.w].proc = "up"]
  /\ At("await")
  /\ UNCHANGED <<active, listed, quit, watchdog, drainer>>

\* Popen raises: the error leaves launch or hot_swap, the worker stays in the list.
SpawnFails ==
  /\ host.pc = "spawn"
  /\ SetState(host.w, "STOPPED") /\ Return
  /\ UNCHANGED <<active, listed, quit, watchdog, drainer>>

\* wait_until_healthy: the process has exited, the probe succeeds, or time is up.
AwaitExited ==
  /\ host.pc = "await" /\ Dead(host.w)
  /\ SetState(host.w, "CRASHED") /\ At("rollback")
  /\ UNCHANGED <<active, listed, quit, watchdog, drainer>>

AwaitProbed ==
  /\ host.pc = "await" /\ Alive(host.w)
  /\ At("ready")
  /\ UNCHANGED <<worker, active, listed, quit, watchdog, drainer>>

AwaitTimeout ==
  /\ host.pc = "await"
  /\ At("rollback")
  /\ UNCHANGED <<worker, active, listed, quit, watchdog, drainer>>

Ready ==
  /\ host.pc = "ready"
  /\ SetState(host.w, "HEALTHY") /\ At("switch")
  /\ UNCHANGED <<active, listed, quit, watchdog, drainer>>

\* Mutant: the old worker is drained, the pointer moves only to replace nothing.
SwitchDrainingOnly ==
  /\ host.pc = "switch"
  /\ active' = IF active = NoWorker THEN host.w ELSE active
  /\ host' = [host EXCEPT !.pc = "swapped", !.w = active]
  /\ UNCHANGED <<worker, listed, quit, watchdog, drainer>>

\* Mutant: the old worker is forgotten.
SwitchForgetting ==
  /\ host.pc = "switch"
  /\ active' = host.w
  /\ Return
  /\ UNCHANGED <<worker, listed, quit, watchdog, drainer>>

\* The atomic switch; what was active before, if anything, is left to drain.
Switch ==
  /\ host.pc = "switch"
  /\ active' = host.w
  /\ host' = [host EXCEPT !.pc = "swapped", !.w = active]
  /\ UNCHANGED <<worker, listed, quit, watchdog, drainer>>

\* After the on_active_swapped hook, without the lock: the old worker is drained
\* in a thread, or by the host itself; one that died meanwhile is left alone.
DrainOld ==
  /\ host.pc = "swapped"
  /\ IF host.w # NoWorker /\ Alive(host.w)
     THEN /\ drainer' = [drainer EXCEPT ![host.w] = "drain"]
          /\ Return \/ At("drained")
     ELSE Return /\ UNCHANGED drainer
  /\ UNCHANGED <<worker, active, listed, quit, watchdog>>

SwapDrained ==
  /\ host.pc = "drained" /\ drainer[host.w] = "none"
  /\ Return
  /\ UNCHANGED <<worker, active, listed, quit, watchdog, drainer>>

\* The candidate is stopped by force and taken off the list.
Rollback ==
  /\ host.pc = "rollback"
  /\ BeginStop(host.w)
  /\ At(IF Alive(host.w) THEN "kill" ELSE "forget")
  /\ UNCHANGED <<active, listed, quit, watchdog, drainer>>

RollbackKill ==
  /\ host.pc = "kill"
  /\ EndStop(host.w) /\ At("forget")
  /\ UNCHANGED <<active, listed, quit, watchdog, drainer>>

RollbackForget ==
  /\ host.pc = "forget"
  /\ listed' = listed \ {host.w}
  /\ Return
  /\ UNCHANGED <<worker, active, quit, watchdog, drainer>>

\* ProcessSupervisor.stop.
Halt ==
  /\ host.pc = "idle" /\ listed # {}
  /\ quit' = TRUE
  /\ At("join")
  /\ UNCHANGED <<worker, active, listed, watchdog, drainer>>

\* Mutant: only the active worker is stopped.
HaltJoinedActive ==
  /\ host.pc = "join"
  /\ active' = NoWorker
  /\ host' = [host EXCEPT !.pc = "stopping", !.todo = {active} \ {NoWorker}]
  /\ UNCHANGED <<worker, listed, quit, watchdog, drainer>>

\* The join ends with the watchdog or after two seconds.
HaltJoined ==
  /\ host.pc = "join"
  /\ active' = NoWorker
  /\ host' = [host EXCEPT !.pc = "stopping", !.todo = listed]
  /\ UNCHANGED <<worker, listed, quit, watchdog, drainer>>

HaltStop(w) ==
  /\ host.pc = "stopping" /\ w \in host.todo
  /\ BeginStop(w)
  /\ host' = IF Alive(w) THEN [host EXCEPT !.pc = "halting", !.w = w]
                         ELSE [host EXCEPT !.todo = @ \ {w}]
  /\ UNCHANGED <<active, listed, quit, watchdog, drainer>>

HaltKill ==
  /\ host.pc = "halting"
  /\ EndStop(host.w)
  /\ host' = [pc |-> "stopping", w |-> NoWorker, todo |-> host.todo \ {host.w}]
  /\ UNCHANGED <<active, listed, quit, watchdog, drainer>>

Halted ==
  /\ host.pc = "stopping" /\ host.todo = {}
  /\ At("halted")
  /\ UNCHANGED <<worker, active, listed, quit, watchdog, drainer>>

HostStep ==
  \/ Spawn \/ SpawnFails \/ AwaitExited \/ AwaitProbed \/ AwaitTimeout \/ Ready
  \/ Switch \/ DrainOld \/ SwapDrained \/ Rollback \/ RollbackKill \/ RollbackForget
  \/ HaltJoined \/ (\E w \in Workers : HaltStop(w)) \/ HaltKill \/ Halted

-----------------------------------------------------------------------------
(* _drain_and_stop_worker.                                                  *)

DrainAt(w, pc) == drainer' = [drainer EXCEPT ![w] = pc]

Drain(w) ==
  /\ drainer[w] = "drain"
  /\ IF worker[w].state \in {"HEALTHY", "DEGRADED"}
     THEN SetState(w, "DRAINING") ELSE UNCHANGED worker
  /\ DrainAt(w, "stop")
  /\ UNCHANGED <<active, listed, quit, watchdog, host>>

DrainStop(w) ==
  /\ drainer[w] = "stop"
  /\ BeginStop(w)
  /\ DrainAt(w, IF Alive(w) THEN "kill" ELSE "forget")
  /\ UNCHANGED <<active, listed, quit, watchdog, host>>

DrainKill(w) ==
  /\ drainer[w] = "kill"
  /\ EndStop(w) /\ DrainAt(w, "forget")
  /\ UNCHANGED <<active, listed, quit, watchdog, host>>

DrainForget(w) ==
  /\ drainer[w] = "forget"
  /\ listed' = IF Alive(w) THEN listed ELSE listed \ {w}
  /\ DrainAt(w, "none")
  /\ UNCHANGED <<worker, active, quit, watchdog, host>>

DrainStep(w) == Drain(w) \/ DrainStop(w) \/ DrainKill(w) \/ DrainForget(w)

-----------------------------------------------------------------------------
(* The watchdog.                                                            *)

\* The event is looked at between passes only.
WatchPass ==
  /\ watchdog.pc = "between" /\ ~quit
  /\ watchdog' = [watchdog EXCEPT !.pc = "check", !.todo = listed]
  /\ UNCHANGED <<worker, active, listed, quit, host, drainer>>

WatchEnd ==
  /\ watchdog.pc = "between" /\ quit
  /\ watchdog' = [watchdog EXCEPT !.pc = "ended"]
  /\ UNCHANGED <<worker, active, listed, quit, host, drainer>>

\* The pass goes on with the next worker of its snapshot.
NextWorker(w) ==
  LET todo == watchdog.todo \ {w}
  IN  [pc |-> IF todo = {} THEN "between" ELSE "check", todo |-> todo, w |-> NoWorker]

WatchAt(w, pc) == watchdog' = [watchdog EXCEPT !.pc = pc, !.w = w]

WatchNothing ==
  /\ watchdog.pc = "check" /\ watchdog.todo = {}
  /\ watchdog' = [watchdog EXCEPT !.pc = "between"]
  /\ UNCHANGED <<worker, active, listed, quit, host, drainer>>

\* Mutant: a crash that is already recorded needs no handling.
CrashedOnce(w) ==
  /\ Dead(w)
  /\ ~(worker[w].intentional /\ worker[w].state \in {"STOPPED", "STOPPING"})
  /\ worker[w].state # "CRASHED"

\* check_and_handle_exit: an exit nobody asked for, or one recorded before.
Crashed(w) ==
  /\ Dead(w)
  /\ ~(worker[w].intentional /\ worker[w].state \in {"STOPPED", "STOPPING"})

WatchCrashed(w) ==
  /\ watchdog.pc = "check" /\ w \in watchdog.todo
  /\ Crashed(w)
  /\ SetState(w, "CRASHED") /\ WatchAt(w, "crashed")
  /\ UNCHANGED <<active, listed, quit, host, drainer>>

\* No crash: the state is read (a step of its own would add no behaviour).
WatchState(w) ==
  /\ watchdog.pc = "check" /\ w \in watchdog.todo
  /\ ~Crashed(w)
  /\ CASE worker[w].state = "HEALTHY"  -> WatchAt(w, "healthy")
       [] worker[w].state = "DEGRADED" -> WatchAt(w, "degraded")
       [] OTHER                        -> watchdog' = NextWorker(w)
  /\ UNCHANGED <<worker, active, listed, quit, host, drainer>>

\* probe_health, under the lock: a live process may or may not answer.
WatchProbe ==
  /\ watchdog.pc \in {"healthy", "degraded"}
  /\ LET w == watchdog.w
     IN  \E ok \in IF Alive(w) THEN BOOLEAN ELSE {FALSE} :
           watchdog' = CASE watchdog.pc = "healthy" /\ ~ok -> [watchdog EXCEPT !.pc = "degrade"]
                         [] watchdog.pc = "degraded" /\ ok -> [watchdog EXCEPT !.pc = "recover"]
                         [] OTHER                          -> NextWorker(w)
  /\ UNCHANGED <<worker, active, listed, quit, host, drainer>>

\* _set_state without a lock, whatever happened since the state was read.
WatchMark ==
  /\ watchdog.pc \in {"degrade", "recover"}
  /\ SetState(watchdog.w, IF watchdog.pc = "degrade" THEN "DEGRADED" ELSE "HEALTHY")
  /\ watchdog' = NextWorker(watchdog.w)
  /\ UNCHANGED <<active, listed, quit, host, drainer>>

\* _handle_worker_crashed.
WatchHandle ==
  /\ watchdog.pc = "crashed"
  /\ active' = IF active = watchdog.w THEN NoWorker ELSE active
  /\ watchdog' = NextWorker(watchdog.w)
  /\ UNCHANGED <<worker, listed, quit, host, drainer>>

WatchStep ==
  \/ WatchPass \/ WatchEnd \/ WatchNothing \/ WatchProbe \/ WatchMark \/ WatchHandle
  \/ \E w \in Workers : WatchCrashed(w) \/ WatchState(w)

-----------------------------------------------------------------------------
\* A worker process exits or is killed by the system.
Die(w) ==
  /\ Alive(w)
  /\ worker' = [worker EXCEPT ![w].proc = "dead"]
  /\ UNCHANGED <<active, listed, quit, watchdog, host, drainer>>

Next ==
  \/ \E w \in Workers : Register(w) \/ DrainStep(w) \/ Die(w)
  \/ Halt \/ HostStep \/ WatchStep

\* Threads run, waits end; nobody has to launch, stop or die.
Spec ==
  /\ Init /\ [][Next]_vars
  /\ WF_vars(HostStep) /\ WF_vars(WatchStep)
  /\ \A w \in Workers : WF_vars(DrainStep(w))

-----------------------------------------------------------------------------
(* Properties.                                                              *)

\* The variables have their types, and a worker that is reported as stopped or
\* crashed runs no process, though stop() changes its state in two steps and the
\* watchdog writes one without a lock.
TypeOK ==
  /\ worker \in [Workers -> [state : WorkerStates, proc : {"none", "up", "dead"},
                             intentional : BOOLEAN]]
  /\ \A w \in Workers : worker[w].state \in {"STOPPED", "CRASHED"} => ~Alive(w)
  /\ active \in Workers \cup {NoWorker}
  /\ listed \subseteq Workers
  /\ quit \in BOOLEAN
  /\ watchdog.pc \in {"ended", "between", "check", "crashed", "healthy", "degraded",
                      "degrade", "recover"}
  /\ watchdog.todo \subseteq Workers /\ watchdog.w \in Workers \cup {NoWorker}
  /\ host.pc \in {"idle", "spawn", "await", "ready", "switch", "swapped", "drained", "rollback",
                  "kill", "forget", "join", "stopping", "halting", "halted"}
  /\ host.w \in Workers \cup {NoWorker} /\ host.todo \subseteq Workers
  /\ drainer \in [Workers -> {"none", "drain", "stop", "kill", "forget"}]

\* The worker requests are routed to is one the watchdog still looks at and that
\* nobody is draining or stopping, whatever hot_swap, rollback, stop and the
\* watchdog's unlocked _set_state interleave to.
ActiveServes ==
  active # NoWorker =>
    /\ active \in listed
    /\ drainer[active] = "none" /\ ~worker[active].intentional
    /\ worker[active].state \in {"HEALTHY", "DEGRADED", "CRASHED"}

\* When ProcessSupervisor.stop has returned no worker process is left running,
\* also when drain threads took workers off the list meanwhile.
HaltTerminates == host.pc = "halted" => \A w \in Workers : ~Alive(w)

\* The watchdog takes the pointer off an active worker that died, also when the
\* crash was recorded before hot_swap made that worker the active one.  It does
\* so as long as there is a watchdog: a stop whose join timed out leaves the old
\* one to end after the next start.
DeadActiveCleared ==
  \A w \in Workers :
    (active = w /\ Dead(w)) ~> (active # w \/ watchdog.pc = "ended")

\* A process that is not the active worker's ends, or becomes the active one:
\* a rolled back candidate, a replaced worker and those of a stopped supervisor.
NoStrayProcess ==
  \A w \in Workers : (Alive(w) /\ active # w) ~> (~Alive(w) \/ active = w)
=============================================================================
