# Verification of Cyrene-Plugins-Official

TLA+ models of the parts of this repository whose correctness depends on
interleavings, crashes and lost answers; TLC configurations that check them on
small instances; and TLAPS proofs of the main properties for every size.
`PROJECT.json` holds the machine-readable inventory: components, runs, mutants,
the map from definitions to source lines, findings, hazards and theorems.

## 1. The system and its parts

| Part | State it keeps | Operations | Talks to |
|---|---|---|---|
| Teams delivery spool (`teams_connector/delivery_spool.py`) | SQLite tables `deliveries` and `delivery_meta`; one asyncio loop per process | enqueue, claim, mark delivered / rejected / dead / retry, pause, resume, retry dead letters, purge | Teams webhooks on one side, Navigator's event API on the other; several processes may share the volume |
| Teams ingress and Navigator client (`ingress.py`, `navigator.py`) | none of its own | admit an event, owner admin routes, sign and submit a body | the spool |
| Workspace connector (`cyrene-workspace-connector`) | an append-only journal and its in-memory view | recover, claim, acknowledge, dispatch, submit | the Authority through the relay, local products through the adapters |
| Product adapters | a credential map | one HTTP dispatch | products |
| Workspace relay (`cyrene-workspace-relay`) | the registered bridge, the map of connector streams, bounded queues | register a bridge, open a stream, demultiplex, forward, tear a session down | connectors, the bridge |
| Frontend bridge (`cyrene-workspace-frontend-bridge`) | the streams of the present session, a TCP connection for each | serve a session, open, write, read, reconnect | the relay, the Authority's listener |
| Client SDK (`open_relay_tunnel`) | one stream | open, read, write | the relay |
| Account center (`store.py`, `plugin.py`) | SQLite: accounts, link sessions, provider profiles, leases, renewals, idempotent commands | link, lease, refresh, renew, replace, unlink, recover at startup | GitHub, Hugging Face, Microsoft, Bilibili, WeCom |
| Store supervisor (`tools/store/supervisor.py`) | worker processes, their states, the active one | launch, probe, hot swap, drain, roll back, stop | operating system |
| Store installer (`tools/store/installer.py`) | installed trees and a receipts file | install, upgrade, uninstall | file system |
| Agent runtime (`engine/turn_loop.rs`) | the conversation of one run | model turn, tool calls, cancel, limits | model and tool providers |
| Plugin server, Python plugin runtime, C ABI host, .NET hosts, providers, other connectors | mostly request scoped | serve one operation | clients and external services |
| Contracts, Java SDK, release and CI tooling | - | - | - |

What is hard here. The spool is shared by processes that may stall for longer
than their lease, and promises per-thread order, no loss and a pause that
really has drained. The connector promises to execute a call at most once with
a journal, a remote Authority and a remote product any of which may fail
between two steps. The relay multiplexes streams over bounded queues and tears
sessions down under a mutex while it waits for room in them; the bridge at the
other end keeps its own idea of which streams exist. The account center rotates
refresh tokens that work once, over a network that loses answers, from several
threads and processes. The supervisor's watchdog writes worker states without
the lock under which everything else changes them.

What makes each correct:

* spool: an acknowledged event is never lost; a thread's events reach Navigator
  in order; stale claims cannot change a row; a drained pause is drained; admin
  requests apply at most once; the table stays within its bounds; everything is
  eventually decided;
* connector: at most one dispatch; acknowledged before dispatched; truthful,
  single, uncontradicted results; the journal restores what it confirmed; every
  approved call is eventually reported;
* tunnel: each direction of a stream is a byte pipe, in order, without gap or
  repeat; tasks do not wait for each other for ever; a broken session is noticed
  by every stream on it; no place in a table and no socket outlives its stream;
* account center: a rotated refresh token is not sent again; no refresh and no
  renewal overwrites a credential it has not seen; a lease ends with the login it was issued for; no working
  token is forgotten; the recorded answer of a command is true after a crash;
* supervisor: the active worker is one nobody drains or stops, a dead one is
  taken off, `stop()` leaves no process, no replaced worker stays;
* installer: a receipt describes files that are there; turn loop: every tool
  call of the conversation is answered, one final event (neither is modelled).

## 2. Modules

| Module | Models | Notes |
|---|---|---|
| `DeliverySpool` | class `DeliverySpool` | `row` is the `deliveries` table by delivery id, `gate` is `delivery_meta`, `ledger` records what each AUTOINCREMENT number was given to. One action per transaction (`BEGIN IMMEDIATE`) |
| `DeliveryWorker` | `NavigatorDeliveryWorker`, `forward_event`, the admin routes, Navigator's answers | extends `DeliverySpool`; `worker[w]` is the loop of process `w` with its claim, `waiter[w]` a running `pause_and_wait` |
| `ThreadOutbox` | - | abstract specification: what the spool promises Teams and Navigator; `OutboxSpec` of `DeliveryWorker` states the refinement, with the unconfirmed rows of the table (`InSpool`) as what the outbox holds |
| `MCDeliveryWorker` | - | constants for TLC, the symmetry of processes and, where there is one thread, of activities |
| `FiniteSums` | - | lemmas about sums over a table of finitely many rows (`SumFunctionOnSet`) |
| `DeliveryProofs` | - | theorems about `DeliveryWorker` |
| `WorkspaceConnector` | `journal.rs`, `lib.rs`, the loop of `main.rs`, `dispatch` of the adapters | `disk`/`tail` is the journal file as `recover()` reads it, `latest` the in-memory map, `proc` the worker; the Authority and the product are external and as weak as the code assumes |
| `ConnectorProofs` | - | theorems about `WorkspaceConnector` |
| `BytePipes` | - | abstract specification: what a tunnel promises of each direction of each stream |
| `TunnelChannels` | the frames, queues and connections the next two share | `up`/`down` between relay and bridge by session, `inbox` to the connector by stream |
| `WorkspaceRelay` | relay `lib.rs` | `demux[b]` is the task of a bridge session, `serve[s]` the task of a connector stream, `lock` the `authority_bridge` mutex a teardown holds while it sends |
| `FrontendBridge` | bridge `lib.rs` | `session[b]` is `serve_authority_tunnel_once`, `writer[s]`/`reader[s]` the two halves of `bridge_tcp_stream` |
| `AuthorityTunnel` | relay, bridge and the connector's end (`open_relay_tunnel`) together, with faults | the composition; `Pipe == INSTANCE BytePipes WITH ...` and `PipeSpec == Pipe!Spec` state the refinement |
| `MCAuthorityTunnel` | - | how many frames each stream carries |
| `TunnelProofs` | - | theorems about `AuthorityTunnel`, the refinement among them |
| `TunnelRestProofs` | - | theorems about `AuthorityTunnel` when no task can go on |
| `LinkedAccount` | the GitHub account: `begin_link`, the callback, leases, `_fresh_credential`, `unlink`, idempotent commands, startup recovery | rows are records, `inst` the processes, `thread` the request threads; `live` and `minted` are GitHub |
| `AccountProofs` | - | theorems about `LinkedAccount` |
| `ProviderProfile` | one Hugging Face `device_oauth` profile: leases, refresh claims, device renewals, replacement from a host secret, unlinking, recovery | like `LinkedAccount`; several processes at a time; `seed` is the host's secrets. A replacement is two steps, `ReadForReplacement` (profile read, secret resolved) and `ReplaceCredential` (the unconditional write after `whoami`) |
| `MCProviderProfile` | - | the symmetry of threads |
| `ProfileProofs` | - | theorems about `ProviderProfile` |
| `WorkerSupervisor` | `ProcessSupervisor` and `WorkerProcess` | `host`, `watchdog` and `drainer[w]` are the threads; `worker[w]` the object and its process. `hot_swap` moves the pointer in `Switch` and looks at the old worker in `DrainOld`, after the hook |
| `SupervisorProofs` | - | theorems about `WorkerSupervisor` |

Granularity. In Python a step ends where an `await` or a lock lets another task,
thread or process run; a store or spool transaction is atomic because SQLite
makes it so, and a call to a provider lies between two of them. The
window between the commit of a claim and `_idle.clear()` is a state of its own
(`pc = "claimed"`), and so is the one between an answer and its transaction
(`"answered"`). In the connector there is one task; a step ends at a journal
write and at a remote call, the points where a crash makes a difference. In the
relay and the bridge a task that waits for room in a queue waits in a state of
its own, with the sender it looked up before the wait. In the supervisor a step
is what one thread does under one hold of a lock, or between two; the watchdog's
last step on a worker, `_set_state`, holds none, and is a separate step for that
reason.

Time in the spool. A row compares the clock with one column at a time, so
`timer` counts down to that comparison (next attempt, lease expiry, retention).
`Timely = FALSE` lets any process stall for any time: fencing must work then.
`Timely = TRUE` says that a claim is submitted within `StartSlack`, that
`asyncio.timeout` ends a submission after `Timeout`, and that an answer is
marked before more time passes: only then can a pause be known to be drained,
and `StartSlack <= Timeout` is what the lease formula
`max(15, 2 * timeout + 1)` leaves for it.

Time elsewhere is left out: whoever looks at a token, a claim, a device code or
a start intent may find it old or not, a readiness deadline, a grace period or a
join may end at any moment. That covers every clock and every stall. One thing
is assumed of time: SIGKILL ends a process within the two seconds `stop()` waits
for it (`EndStop`); otherwise `stop()` raises with the process still there.

History variables (`acked`, `submitted`, `decided`, `flips`, `drained`;
`synced`, `dispatches`, `shown`; `handed`, `origin`, `owed`; `spent`, `base`,
`seen`; `sent`, `got`) record what happened. Two are read by an action, neither
to decide what the code does: `sent` numbers the frames and bounds them, and
`origin` stands for the token that the recovery of `LinkedAccount` has listed
with a session's row.

Abstractions. Event bodies, ids and thread keys are model values (a body also
stands for its digest, with a size). A journal entry keeps its stage, outcome
and receipt. `secrets.token_hex` and `uuid` never repeat. A credential is valid
or expired; one that binds another call is a failed redemption. The receipts of
the Authority's own protocol are external: it accepts the first result, the
same result again, and no Success it refused before. A frame carries its number
instead of bytes, and a `HalfClose` frame, which is forwarded in the same way,
stands under data. `AuthorityBridgeRegistered`, the relay's first frame to a
bridge, is left out: the bridge takes it before its loop begins. A teardown
tells the connectors in any order, where the code has the order of a map. A
token of an account or a profile is one number that stands for the access and
the refresh token together; where Hugging Face keeps the refresh token the
number stays. "failed" stands for every refusal of a renewal. A row of `lease`
in `ProviderProfile` is free again once its lease has been deleted, so any
number of leases is issued one after the other. A probe answers yes or no.
`launch_initial_worker` is called while nothing is active, which is how the
store calls it.

## 3. Runs

| Run | Checks | Bounds |
|---|---|---|
| `SpoolFencing` | `TypeOK NoLoss ThreadOrder SingleHolder Bounded OutboxSpec` | 2 processes that may stall, 2 activities of one thread, 2 bodies of sizes 1 and 2 in a table of 3 bytes, 3 insertions, 2 claims per row, 2 faults; the gate stays open |
| `SpoolPause` | `PauseDrained ReplaySafe` | 2 timely processes, 2 threads, 2 holders, 5 changes of the gate, requests with every revision, 1 fault |
| `SpoolProgress` | `EventuallyDecided PauseReturns` | fair, 1 process, 2 activities of one thread, 2 faults, 3 claims per row |
| `ConnectorSafety` | `TypeOK AtMostOnce AckBeforeDispatch HonestOutcome OneReceipt NoContradiction RestoresLatest StagesAdvance EventuallyReported` | fair, 2 invocations, one idempotent, 3 faults among crash, lost call, failed write, refused acknowledgement, refused result, expiry |
| `ConnectorTornWrite` | `RestoresLatest`, violated | a torn write and a crash |
| `ConnectorExpiredEntry` | `EventuallyClaimed`, violated | fair, a refused acknowledgement and an expiry |
| `TunnelService` | `TypeOK NoStreamLeak CutIsNoticed BridgeForgets PipeSpec` | 2 streams, 2 sessions of the bridge, one place in the relay's stream table, queues of 3 (relay) and 1 (bridge), up to 2 frames up and 1 down, 1 fault; 2.1 million states |
| `TunnelUnknownStream` | `RelayKnowsStreams`, violated | one fault at the Authority's socket |
| `AccountLifecycle` | `TypeOK RotateOnce LeasesEndWithCredential UnlinkTruth NothingOrphaned TokenTracked` | 2 threads, 2 link sessions, 1 unlink command, 2 leases, 3 tokens, 2 processes one after the other (one crash); 2.5 million states |
| `AccountPruned` | `InterruptedRevoked`, violated | the same system, a prune and a crash |
| `ProfileCredentials` | `TypeOK NeverReplayed CodePolledOnce NoLostUpdate LeaseEndsWithLogin` | 2 processes at the same time, 2 threads, 1 renewal, 1 open lease at a time, 3 credentials, nobody asks for a lease, a renewal or a replacement after the second change of the profile; 2.2 million states up to symmetry |
| `SupervisorSwap` | `TypeOK ActiveServes HaltTerminates DeadActiveCleared NoStrayProcess` | fair, 2 workers: one active, one candidate; deaths at any time; 38,538 states |

Why the bounds are enough. A fencing failure needs one row, an old claim and a
newer one: two processes and two claims. An order failure needs two events of a
thread; a purge followed by a redelivery needs a third insertion. A pause race
needs one process that claims and one that waits. A replayed request needs the
gate to return to open under another holder and back, four changes. An
at-most-once failure of the connector takes a failed or interrupted write, a
repeated claim and a crash. In `SpoolProgress` the bound on claims equals one
claim per fault plus one, all that timely processes can need, so it never stops
a retry. The proofs of section 5 remove the bounds for the properties they
state.

A tunnel failure needs one stream that is affected by what happens to another
and a second session to be confused with the first. The relay's queue has
capacity 3, the code's `FRAME_QUEUE_CAPACITY`: at most two frames can precede
the `Opened` that `open_connector_tunnel` puts into a connector's queue before
anybody reads it, so this send never waits; with 1 or 2 it would deadlock.
The bridge's queue has capacity 1 instead of 3, so that it is full whenever a
frame is in it. `AtRest`, the state in which no task can go on, is written out
task by task (`RelaySessionRests`, `BridgeStreamRests`, ...) rather than as
`~ENABLED Progress`, so that it can be reasoned about; TLC compared the two in
all 2,085,538 states of this instance, where they agree.

A double rotation needs two threads or a crash between sending and recording;
a lost update needs a refresh and a renewal, a replacement or an unlink; three
tokens allow one of each. A spent host secret comes back after one refresh and
one replacement, two changes of the profile. `LinkedAccount` is checked with one process at a
time: its refresh lock belongs to a process, and its recovery takes every
claim that another process left; with `MaxLive = 2` TLC finds `RotateOnce`
violated, so one process per database is an assumption of that code. The profile code, in contrast, claims across processes and is
checked with two.

A supervisor race is between the worker being replaced and its candidate. 
Every property of a passing run has a mutant in `PROJECT.json`: an operator that
changes a modelled definition the way a plausible bug would, under which TLC
finds the property violated. The mutants stand before the definitions they
change and are used by nothing else.

Deadlock is checked for the spool and the connector, whose loops never end. The
tunnel, the accounts and the supervisor may come to rest: bounded traffic,
commands and launches run out. In the tunnel a wait of everybody for everybody
would be such a rest, and `CutIsNoticed` and `BridgeForgets` say what a rest
must look like.

## 4. Fairness

* spool: weak fairness of each delivery loop and each `pause_and_wait` (asyncio
  runs ready tasks), of `Start` (the service manager restarts the process), of
  `StopLoop` (`close()` cancels after its grace period) and of the clock.
  Nothing is asked of Teams, of the owner, of faults, or of the deadline of
  `pause_and_wait`, so `PauseReturns` says the spool drains by itself. An event
  is excused while the owner keeps the gate closed or a dead letter blocks its
  thread: both wait for a person by design.
* connector: weak fairness of `Open` (`runtime/systemd` restarts the service)
  and of the single task. Faults are bounded and not fair, so the property says
  that work completes once faults cease.
* supervisor: weak fairness of the host thread inside a call, of the watchdog
  and of each drain thread: the operating system runs threads. Nothing is asked
  of the calls themselves or of the death of processes. `DeadActiveCleared`
  excuses a missing watchdog, which `start()` after a timed-out join can leave.
* tunnel: no fairness. What must happen in the end is stated as an invariant of
  the states in which no task can take a step (`AtRest`), which needs none.
* accounts: no liveness is stated; a request may be abandoned at any time.

## 5. What is proved

Every theorem holds for all values of the constants that the module's
assumptions allow (`SpoolAssumption`, `WorkerAssumption`,
`ConnectorAssumption`, `TunnelAssumption`, `AccountAssumption`,
`ProfileAssumption`, `SupervisorAssumption`) and that satisfy the hypotheses the
tables name; TLC evaluates the assumptions in every run. Each proof has the
same form: an invariant `IInv` that holds initially and is kept by every step,
one lemma for each action or group of similar actions, and from it the
properties. `IInv` was checked by TLC on small instances before it was proved.
Every invariant and every action property that a passing run checks is stated by
a theorem below.

### Spool: `DeliveryProofs`

| Theorem | States |
|---|---|
| `InductiveInvariant` | `Spec => []IInv` |
| `SpoolTypes` | `Spec => []TypeOK` |
| `AcceptedNeverLost` | `Spec => []NoLoss` |
| `RepliesInThreadOrder` | `Spec => []ThreadOrder` |
| `LeasesFence` | `Spec => []SingleHolder` |
| `SchemaHolds` | `Spec => []SchemaChecks` |
| `GateReplaySafe` | `Spec => []ReplaySafe` |
| `DrainedIsQuiet` | if processes are `Timely`, `Spec => []PauseDrained` |
| `ImplementsOutbox` | `Spec => OutboxSpec`: the spool implements `ThreadOutbox` |
| `TableBounded` | `Spec => []Bounded`: rows and bytes |

`NoLoss` and `ThreadOrder` are not inductive: they say nothing of a claim that
outlives its lease. `IInv` adds that a stored row is its ledger entry and is
finished only once decided (`RowInv`), that every ledger entry is decided or
still in the table with its body (`LedgerInv`), and that a claim names an entry
whose thread predecessors were decided when it was taken (`ClaimInv`): since
`decided` only grows, that survives the expiry of the lease, and a late answer
may still decide its entry but can change the row only if it holds it. A claim
carries its sequence number, so it cannot be confused with a row inserted under
the same delivery id after a purge. `DistinctClaims` (no two processes hold the
same lease) rests on the epoch, which every claim raises. `ReplaySafe` has an
invariant of its own: the expected revision of every request that took effect
is its position in the history of the gate.

`DrainedIsQuiet` needs more than the gate: between the commit of a claim and
`_idle.clear()` the process looks idle, and what keeps a drain from being
reported then is the lease of the row. Its invariant (`LeaseInv`) says how much of the
lease is left at each point of a delivery, so that an unexpired lease stands behind
every process that may still submit. The hypothesis is the one the run
`SpoolPause` has: a process that stalls past its lease can submit during a
drained pause.

`ImplementsOutbox` shows every step of every process to be a step of one outbox
or to leave it alone. Beyond the invariants it says how the table may change:
what may still be forwarded shrinks only by an event that is decided, and no late
mark or requeued dead letter puts one back. It needs `IInv` (a mark that holds its
row is about that row's own number, `HeldRow`; two rows do not share a number,
`OneRowANumber`) and that what is answered was sent (`SentInv`). `SchemaHolds` is
the one invariant stated for every size only; no run checks it.

The bytes of `Bounded` are a sum over the table, as `SUM(length(body))` is in
the code, and a step adds a row, changes one or removes some. `FiniteSums` shows
that such a sum is a natural number (`SumType`), that any row may be taken out of
it (`SumTakeOut`), and that fewer rows of smaller values give no larger sum
(`SumMonotone`). The library's induction theorems take an operator as a
parameter and are of no use here; these lemmas are proved by induction on the
number of rows, stated of the set of naturals for which the lemma holds.

### Connector: `ConnectorProofs`

| Theorem | States |
|---|---|
| `ConnectorTypes` | `Spec => []TypeOK`, with every kind of fault |
| `NeverTwice` | without torn writes, `Spec => []AtMostOnce` |
| `RecordedFirst` | without torn writes, `Spec => []AckBeforeDispatch` |
| `AcceptsTruth` | without torn writes, `Spec => []HonestOutcome` |
| `SameReceipt` | without torn writes, `Spec => []OneReceipt` |
| `NoSecondOutcome` | without torn writes, `Spec => []NoContradiction` |
| `KnowsConfirmed` | without torn writes, `Spec => []RestoresLatest` |
| `NeverBack` | without torn writes, `Spec => StagesAdvance` |

"Without torn writes" is the hypothesis `"torn" \notin FaultKinds`: a write that
fails leaves the whole frame or none of it (a crash may still tear the last
frame). It is needed, as the run `ConnectorTornWrite` shows; crashes, failed
writes, lost calls, refusals and expiries may happen in any number. The
invariant says of every record, on disk or in memory, what it implies about the
world (`Truthful`); that the file holds the record of a running connector or
the one that may follow it, left by a write that failed (`JournalInv`,
`Follows`); that the worker acts on what the journal says (`WorkerInv`); and
that an interrupted dispatch stays in the hands of the recovery until it has
become an unknown result, so that serving never meets one (`TodoInv`).

### Tunnel: `TunnelProofs`, `TunnelRestProofs`

| Theorem | States |
|---|---|
| `TunnelTypes` | `Spec => []TypeOK` |
| `ReturnsItsPlace` | `Spec => []NoStreamLeak` |
| `ImplementsPipes` | `Spec => PipeSpec`: the tunnel implements `BytePipes` |
| `CutNoticed` | if `RelayCap >= 3` and every connector has a frame to send, `Spec => []CutIsNoticed` |
| `BridgeLeavesNothing` | if `RelayCap >= 3`, `Spec => []BridgeForgets` |

For the refinement every step has to be a `Put`, a `Get` of the next frame, or
to leave `sent` and `got` alone. So the frame at the head of a receiver's queue
must be the next one: `UpInv` and `DownInv` say that what was received, the
queue next to the receiver, the frame a task has in hand and the queue before
that hold consecutive runs of frames (`Run`), as long as the path is alive; the
run ends at what was sent while the sender is still tied to the path (`UpTie`,
`DownTie`). What makes this inductive although sessions come and go: a stream's
frames are accepted only by the session it was announced to (`Owned`,
`UpFrames`), a stream is announced once and before anything else, a task that
has looked up another session can no longer find the first one registered, and
no session is registered twice (`LinkInv`), so a stream one of whose frames went
elsewhere sends no more to its first session. `NoStreamLeak`
needs that a task on its way to forward the connector's departure has already
given its place back (`PlaceInv`).

`CutNoticed` says that the tasks do not block each other, whatever the number of
streams and sessions and whatever breaks. Both hypotheses are facts of the code:
the relay's `FRAME_QUEUE_CAPACITY` is 3, and a TLS client speaks first. Without
the first, `open_connector_tunnel` can wait for room in a queue nobody reads yet;
without the second, a connector that got into the map after the teardown of its
session, and never sends, is never told. The proof adds an invariant `RInv` to
`IInv`:

* `SessionInv`: a session whose connection holds is the registered one and is
  served at both ends, and one that is over at the bridge knows no stream;
* `DownHome`: what is on its way down a session belongs to streams that were
  opened and announced through it;
* `PeerInv`: a connector that waits or is served is in the map, is still to be
  told by a teardown, or has its last frame in its queue;
* `OpeningInv`: before a connector is answered the bridge sends it one frame at
  most and a teardown another one, so that a queue of three has room for `Opened`;
* `LateInv`: when a stream in the map after its session's teardown has sent
  something, its task is about to tell it, or another session is about to fail;
* `EndInv`: for a stream that has ended at the relay and not at the bridge, the
  frame that ends it there is on its way, behind the announcement.

At rest every connector's queue has room (`InboxHasRoom`), so no teardown is in
progress and the mutex is free (`NobodyTears`); then nothing is queued on a
standing session (`NothingQueued`), every stream task waits for its connector
(`TasksWait`), and the connectors of broken sessions have been told
(`ConnectorsTold`). TLC checked `RInv` on the instance of `TunnelService`, and
with two faults in the first 7.2 million states.

### GitHub account: `AccountProofs`

Each theorem has the hypothesis `MaxLive = 1`: one process at a time uses the
database, in any number one after the other. Section 3 says why the code needs
it.

| Theorem | States |
|---|---|
| `AccountInvariant` | `Spec => []IInv` |
| `AccountTyped` | `Spec => []TypeOK` |
| `TokenRotatesOnce` | `Spec => []RotateOnce` |
| `LeasesEnd` | `Spec => []LeasesEndWithCredential` |
| `UnlinkAnswersTruly` | `Spec => []UnlinkTruth` |
| `NothingStaysOrphaned` | `Spec => []NothingOrphaned` |
| `TokensAreTracked` | `Spec => []TokenTracked` |

The invariant has one part for each protocol that meets in the row of the
account. `ProcessInv`: threads run in a process that serves, so a recovery is
alone. `LockInv`: the thread in a refresh is the only one, holds the row's own
credential, unsent, and has the row's claim as long as the row is active;
`RotateOnce` follows because only that thread sends. `LeaseInv`: a redeemed
lease has one thread, which has given nothing out yet. `CommandInv` and
`RemoteInv`: a reserved command and a due revocation have one thread in a
running process, or the recovery still comes, and an answer is recorded only
together with the row it tells of. `SessionInv`: a callback minted at most one
token for its session, and while a process recovers, the sessions still in
`processing` are on its list. `TraceInv` strengthens `TokenTracked` with the
point at which GitHub has confirmed that the grant is gone (`GrantGone`): from
then on no account row may stand for a working token, and no thread holds one
it could still rotate. `TokenTracked` excepts one kind of token: one that GitHub
issued in an answer the client took for a refusal (`origin[k] = "rejected"`),
which nobody ever held.

### Device profile: `ProfileProofs`

| Theorem | States |
|---|---|
| `ProfileTypes` | `Spec => []TypeOK` |
| `RefreshedOnce` | `Spec => []NeverReplayed` |
| `OnePoll` | `Spec => []CodePolledOnce` |
| `NothingLost` | `Spec => NoLostUpdate` |
| `LeasesFollowLogin` | `Spec => LeaseEndsWithLogin` |

`RefreshedOnce` is about refresh tokens that were or may have been rotated: a
token that Hugging Face kept is sent again at the next refresh, as it must be.
It excepts a host secret that the owner has written into the profile a second
time, and `NothingLost` the owner's own write: `_rotate_huggingface_profile`
neither knows what became of the secret nor whether the profile has changed
since it was read (section 6). For a refresh and a renewal both hold whatever
the owner does in between.

The invariant: as long as a credential was written into the profile once only, it
has one holder, the profile's is held under its claim only, and one that may be
spent is not the profile's once the claim is gone; a host secret nobody has
installed yet is untouched (`CredentialInv`, `SeedInv`). The holder of the claim
has the profile's credential in its hands, or one made from it (`ClaimInv`): a
replacement takes the claim with it, so a late answer finds none. A session has
one poller, which has its claim as long as the session is open (`PollInv`); an
open renewal that still has the profile's revision has seen its credential
(`RevisionInv`); open leases need a healthy profile (`LeaseInv`).

### Supervisor: `SupervisorProofs`

| Theorem | States |
|---|---|
| `SupervisorTypes` | `Spec => []TypeOK` |
| `RoutesToServing` | `Spec => []ActiveServes` |
| `StopLeavesNothing` | `Spec => []HaltTerminates` |

The invariant: a candidate is listed, not active and nobody else's
(`CandidateInv`); every process belongs to a listed worker (`ListInv`); from the
moment `stop()` clears the pointer, what still runs is what it has yet to stop,
though drains change the list under its copy (`HaltInv`). The worker that a swap
has replaced and not begun to drain is no longer active (`ReplacedInv`). That a
worker recorded as stopped or crashed has no process is part of `SupervisorTypes`:
whoever writes such a state has seen the process end, and a process that has
ended does not come back (`StatesNext`).

## 6. What is only model-checked, and findings

Out of the prover's reach are the liveness properties (`EventuallyDecided`,
`PauseReturns`, `EventuallyReported`, `DeadActiveCleared`, `NoStrayProcess`),
which rest on fairness, and that `AtRest` is the absence of a next step
(`~ENABLED Progress`), which TLC compared on one instance (section 3).

Four disagreements with the code's own comments were met:

* `ConnectorTornWrite`. `persist()` does not cut the journal back when a write
  fails part-way, and later frames are appended behind the torn one. They are
  confirmed to the caller and dropped by the next `recover()` (or the checksum
  fails and the connector does not open), although `open` "restores the latest
  complete state for each call".
* `ConnectorExpiredEntry`. An entry left in `Acknowledging` whose credential
  has expired fails `recover_pending` in every batch, before anything is
  claimed, and nothing retires it.
* `TunnelUnknownStream`. A stream that ends at the bridge alone (a failed write
  to the Authority) is forgotten there without a frame to the relay; the
  connector's next frame ends the bridge's session and every other stream, as
  an error of the relay ("Relay referenced an unknown tunnel stream").
* `AccountPruned`. `prune_expired` deletes session rows in status `processing`
  with the token their callback has saved; after a crash the recovery that is to
  "revoke tokens persisted by callbacks interrupted before verification" finds
  no row.

Seen while modelling, without a statement in the code that a run could refute,
or outside what is modelled:

* a connector that disconnects while `open_connector_tunnel` waits leaves its
  place in `connector_streams` until the bridge's session ends (`CancelOpen`);
  `NoStreamLeak` is about tasks that return;
* the relay registers a bridge before it sends `AuthorityBridgeRegistered`
  (relay `lib.rs:236-252`): a connector that opens a stream in between makes its
  `Accepted` frame the first one, and the bridge ends the session ("Relay
  returned an invalid bridge registration response");
* `rotate_huggingface_profile` has no idempotency key and installs whatever the
  named host secret holds. While the access token of a secret is still valid, a
  repeated command puts back a refresh token that a refresh has spent, and the
  next refresh sends it again (`plugin.py:1422-1463`). It reads the profile,
  waits for `whoami` and updates `WHERE profile_ref=?` (`store.py:2952`), so it
  also replaces a refresh or a renewal that was committed in between;
* an error answer to the exchange of a code, or one that cannot be used, is
  recorded as `not_issued` although GitHub may have minted a token
  (`github.py:205-239`, `plugin.py:945-953`); an unexpected exception while the
  identity is read records `unknown` and drops the saved token without an
  attempt to revoke it (`plugin.py:955-962`);
* a lease that is already redeemed may hand out the token of a newer login of
  the same person, when the login changes before its thread claims;
* a refused duplicate link revokes the whole GitHub grant, with the token of the
  account that is linked (`github.py:156-182`); `insert_account` refuses to link
  an identity again that was unlinked before; an unlink that overtakes
  `fail_refresh` makes the refresh report "invalid_state" for an unlinked account;
* a worker that was stopped may be reported `CRASHED` (the watchdog's unlocked
  `_set_state` after the join timed out), `on_crash` runs on every pass of the
  watchdog while a dead worker stays listed, and `start()` after a join that
  timed out may leave the supervisor without a watchdog.

## 7. Plan

Done: the spool and the tunnel, each with its abstract specification, the
connector, the account center's GitHub account and device profile and the
supervisor, each with its theorems.

Left, in this order:

1. The agent turn loop: conversation, limits, cancellation, event stream.
2. The other account flows (Entra, Bilibili, WeCom), the execution engine of the
   Python plugin runtime, the OneBot transport.

### Not modelled

* Installer: it changes trees and the receipts file in separate steps without a
  lock or a journal and promises nothing about a crash or a second installer, so
  there is no promise to check; its two hazards are listed.
* Turn loop: one sequential function over one request, without shared state.
* Account center: the Entra, Bilibili and WeCom flows, profiles with stored
  tokens, people and handles of a workspace, catalog and policy queries,
  encryption. The stateful patterns (claim, call, record; recovery by owner) are
  those of the two flows that are modelled.
* Sidecar, plugin server: stateless forwarding.
* MCP, memory and computer runtimes, providers, serving, training and evaluation
  plugins, the other connectors: request/response over external services.
* C ABI and .NET hosts: marshalling. Contracts, Java SDK: generated or
  declarative. Release and CI tooling: build scripts.

Most of the repository's code is of these last kinds: adapters that turn one
request into calls of an external service, schemas, and tooling. It keeps no
state between two calls that an interleaving or a crash could damage, so the
modelled share of its lines is small, while the parts with shared or durable
state and their own protocol are the ones above.
