--------------------------- MODULE DeliveryWorker ---------------------------
(***************************************************************************)
(* The processes around the spool: the ingress that enqueues and           *)
(* acknowledges Teams events, the NavigatorDeliveryWorker loop of each     *)
(* process that shares the volume, pause_and_wait, and Navigator as the    *)
(* code sees it (an answer, a refusal, an outage or silence).              *)
(*                                                                         *)
(* History variables, read by no action: acked, submitted, decided, flips  *)
(* and drained.                                                            *)
(***************************************************************************)
EXTENDS DeliverySpool

CONSTANTS
  Workers,     \* processes sharing the volume, one delivery loop in each
  Timeout,     \* navigator_timeout_seconds
  MinLease,    \* the 15 seconds of the lease formula
  StartSlack,  \* longest time between a claim's commit and its submission
  Timely,      \* TRUE: a claim is submitted, answered and marked in time
  MaxFaults    \* bound of the model: crashes, shutdowns, state errors, refusals

ASSUME WorkerAssumption ==
  /\ Timeout \in Nat \ {0} /\ MinLease \in Nat /\ StartSlack \in Nat
  /\ Timely \in BOOLEAN /\ MaxFaults \in Nat
  /\ Timely => StartSlack <= Timeout

VARIABLES
  worker,    \* the delivery loop of each process
  waiter,    \* the pause_and_wait call running in each process
  faults,    \* faults the environment may still inflict
  acked,     \* events Teams was told are accepted
  submitted, \* sequence numbers whose body went to Navigator
  decided,   \* sequence numbers Navigator accepted or terminally refused
  flips,     \* the admin requests that changed the gate, in order
  drained    \* revision of the pause last reported as drained

workerVars == <<worker, waiter, faults>>
history == <<acked, submitted, decided, flips, drained>>
vars == <<row, ledger, gate, worker, waiter, faults,
          acked, submitted, decided, flips, drained>>

(* Mutant of LeaseSeconds: a lease as long as one submission. *)
LeaseOneTimeout == Timeout

(* self._lease_seconds = max(15.0, navigator_timeout_seconds * 2.0 + 1.0) *)
LeaseSeconds ==
  IF MinLease > 2 * Timeout + 1 THEN MinLease ELSE 2 * Timeout + 1

NoClaim == [delivery_id |-> "none", body |-> NoBody, sequence |-> 0,
            lease_id |-> NoLease, lease_epoch |-> 0, attempt |-> 0]

(* pc: down (no task), polling (loop head, or asleep before it), claiming  *)
(* (is_paused answered no), claimed (claim_next committed, _idle not yet   *)
(* cleared), submitting (inside submit_body), answered (about to mark).    *)
Idle(stopping) ==
  [pc |-> "polling", stopping |-> stopping, claim |-> NoClaim,
   answer |-> "none", left |-> 0]

Down == [Idle(FALSE) EXCEPT !.pc = "down"]

PCs == {"down", "polling", "claiming", "claimed", "submitting", "answered"}
Answers == {"accepted", "terminal_rejection", "dead_letter", "retry"}
Busy(w) == worker[w].pc \in {"claimed", "submitting", "answered"}
IdleSet(w) == worker[w].pc \notin {"submitting", "answered"}

Init ==
  /\ InitSpool
  /\ worker = [w \in Workers |-> Down]
  /\ waiter = [w \in Workers |-> "none"]
  /\ faults = 0
  /\ acked = {} /\ submitted = {} /\ decided = {}
  /\ flips = << >> /\ drained = -1

Fault == faults < MaxFaults /\ faults' = faults + 1

-----------------------------------------------------------------------------
(* Ingress: the acknowledgement follows the commit.  A process that dies   *)
(* between the two makes Teams deliver again, as a duplicate.              *)
Accept(d, body) ==
  /\ Enqueue(d, body)
  /\ acked' = acked \cup {[delivery_id |-> d, body |-> body]}
  /\ UNCHANGED <<worker, waiter, faults, submitted, decided, flips, drained>>

-----------------------------------------------------------------------------
(* The delivery loop. *)

Start(w) ==
  /\ worker[w].pc = "down"
  /\ worker' = [worker EXCEPT ![w] = Idle(FALSE)]
  /\ UNCHANGED <<row, ledger, gate, waiter, faults, history>>

Close(w) ==
  /\ worker[w].pc # "down" /\ ~worker[w].stopping
  /\ Fault
  /\ worker' = [worker EXCEPT ![w] = [worker[w] EXCEPT !.stopping = TRUE]]
  /\ UNCHANGED <<row, ledger, gate, waiter, history>>

(* The loop ends at its head, or is cancelled when the grace period is     *)
(* over; a cancelled forward leaves its lease to expire.                   *)
StopLoop(w) ==
  /\ worker[w].pc # "down" /\ worker[w].stopping
  /\ worker' = [worker EXCEPT ![w] = Down]
  /\ waiter' = [waiter EXCEPT ![w] = "none"]
  /\ UNCHANGED <<row, ledger, gate, faults, history>>

Crash(w) ==
  /\ worker[w].pc # "down"
  /\ Fault
  /\ worker' = [worker EXCEPT ![w] = Down]
  /\ waiter' = [waiter EXCEPT ![w] = "none"]
  /\ UNCHANGED <<row, ledger, gate, history>>

CheckPaused(w) ==
  /\ worker[w].pc = "polling" /\ ~worker[w].stopping
  /\ ~gate.paused
  /\ worker' = [worker EXCEPT ![w] = [worker[w] EXCEPT !.pc = "claiming"]]
  /\ UNCHANGED <<row, ledger, gate, waiter, faults, history>>

Claim(w) ==
  /\ worker[w].pc = "claiming"
  /\ \E d \in Deliveries :
       /\ ClaimNext(d, LeaseSeconds)
       /\ worker' = [worker EXCEPT ![w] =
                       [worker[w] EXCEPT !.pc = "claimed", !.claim = ClaimOf(d),
                                 !.left = IF Timely THEN StartSlack ELSE 0]]
  /\ UNCHANGED <<waiter, faults, history>>

(* claim_next finds the gate closed or no row due. *)
ClaimNothing(w) ==
  /\ worker[w].pc = "claiming"
  /\ gate.paused \/ Claimable = {}
  /\ worker' = [worker EXCEPT ![w] = [worker[w] EXCEPT !.pc = "polling"]]
  /\ UNCHANGED <<row, ledger, gate, waiter, faults, history>>

(* _idle.clear() and the call of submit_body, with no await in between. *)
Submit(w) ==
  /\ worker[w].pc = "claimed"
  /\ worker' = [worker EXCEPT ![w] =
                  [worker[w] EXCEPT !.pc = "submitting",
                            !.left = IF Timely THEN Timeout ELSE 0]]
  /\ submitted' = submitted \cup {worker[w].claim.sequence}
  /\ UNCHANGED <<row, ledger, gate, waiter, faults, acked, decided, flips, drained>>

Answer(w, answer) ==
  worker' = [worker EXCEPT ![w] =
               [worker[w] EXCEPT !.pc = "answered", !.answer = answer, !.left = 0]]

(* Navigator answers 2xx, or 403 with an allow-listed terminal code. *)
Decide(w, answer) ==
  /\ worker[w].pc = "submitting"
  /\ answer \in {"accepted", "terminal_rejection"}
  /\ Answer(w, answer)
  /\ decided' = decided \cup {worker[w].claim.sequence}
  /\ UNCHANGED <<row, ledger, gate, waiter, faults, acked, submitted, flips, drained>>

(* A non-retryable status is a dead letter; an outage, the total timeout   *)
(* or a client error is retried.                                           *)
FailToDecide(w, answer) ==
  /\ worker[w].pc = "submitting"
  /\ answer \in {"dead_letter", "retry"}
  /\ Fault
  /\ Answer(w, answer)
  /\ UNCHANGED <<row, ledger, gate, waiter, history>>

EndForward(w) == worker' = [worker EXCEPT ![w] = Idle(worker[w].stopping)]

(* The spool transaction that ends a forward, by the answer. *)
MarkFinished(w) ==
  /\ worker[w].pc = "answered"
  /\ \/ worker[w].answer = "accepted" /\ Finish(worker[w].claim, "delivered")
     \/ worker[w].answer = "terminal_rejection" /\ Finish(worker[w].claim, "rejected")
     \/ worker[w].answer = "dead_letter" /\ Finish(worker[w].claim, "dead")
  /\ EndForward(w)
  /\ UNCHANGED <<waiter, faults, history>>

MarkRetry(w, retryAfter) ==
  /\ worker[w].pc = "answered" /\ worker[w].answer = "retry"
  /\ Retry(worker[w].claim, retryAfter)
  /\ EndForward(w)
  /\ UNCHANGED <<waiter, faults, history>>

(* DeliverySpoolError: a transaction of the loop fails and rolls back. *)
StateError(w) ==
  /\ worker[w].pc \in {"claiming", "answered"}
  /\ Fault
  /\ EndForward(w)
  /\ UNCHANGED <<row, ledger, gate, waiter, history>>

-----------------------------------------------------------------------------
(* Owner administration.  Requests may be delayed and repeated: any holder *)
(* may present any revision it can have read, at any time.                 *)

Request(op, h, expected) == [op |-> op, holder |-> h, expected |-> expected]

PauseAndWait(w, h, expected) ==
  /\ worker[w].pc # "down" /\ waiter[w] = "none"
  /\ waiter' = [waiter EXCEPT ![w] = "draining"]
  /\ \/ /\ Pause(h, expected)
        /\ flips' = Append(flips, Request("pause", h, expected))
     \/ /\ PauseRepeats(h, expected)
        /\ UNCHANGED <<row, ledger, gate, flips>>
  /\ UNCHANGED <<worker, faults, acked, submitted, decided, drained>>

(* self._idle.wait() returns; the status is read in a later step. *)
SeeIdle(w) ==
  /\ waiter[w] = "draining" /\ IdleSet(w)
  /\ waiter' = [waiter EXCEPT ![w] = "checking"]
  /\ UNCHANGED <<row, ledger, gate, worker, faults, history>>

ReportDrained(w) ==
  /\ waiter[w] = "checking" /\ ActiveDeliveries = {}
  /\ waiter' = [waiter EXCEPT ![w] = "none"]
  /\ drained' = IF gate.paused THEN gate.revision ELSE drained
  /\ UNCHANGED <<row, ledger, gate, worker, faults, acked, submitted, decided, flips>>

KeepWaiting(w) ==
  /\ waiter[w] = "checking" /\ ActiveDeliveries # {}
  /\ waiter' = [waiter EXCEPT ![w] = "draining"]
  /\ UNCHANGED <<row, ledger, gate, worker, faults, history>>

(* The deadline of pause_and_wait, or an error while reading the status. *)
PauseTimesOut(w) ==
  /\ waiter[w] # "none"
  /\ waiter' = [waiter EXCEPT ![w] = "none"]
  /\ UNCHANGED <<row, ledger, gate, worker, faults, history>>

ResumeDelivery(h, expected) ==
  /\ Resume(h, expected)
  /\ flips' = Append(flips, Request("resume", h, expected))
  /\ UNCHANGED <<worker, waiter, faults, acked, submitted, decided, drained>>

RetryDeadLetters(h, expected) ==
  /\ RetryDead(h, expected)
  /\ UNCHANGED <<worker, waiter, faults, history>>

-----------------------------------------------------------------------------
(* Time.  When Timely, no unit passes while a claim has used up the time   *)
(* to its submission, a submission its timeout (asyncio.timeout fires), or *)
(* an answer waits to be marked.  Otherwise a process may stall anywhere.  *)
Tick ==
  /\ \E d \in Deliveries : row[d].timer > 0
  /\ Timely => \A w \in Workers : Busy(w) => worker[w].left > 0
  /\ row' = RowsElapsed
  /\ worker' = [w \in Workers |-> [worker[w] EXCEPT !.left = Elapse(worker[w].left)]]
  /\ UNCHANGED <<ledger, gate, waiter, faults, history>>

Loop(w) ==
  \/ CheckPaused(w) \/ Claim(w) \/ ClaimNothing(w) \/ Submit(w)
  \/ \E a \in Answers : Decide(w, a) \/ FailToDecide(w, a)
  \/ MarkFinished(w)
  \/ \E r \in 0..MaxRetryDelay : MarkRetry(w, r)

Waiting(w) == SeeIdle(w) \/ ReportDrained(w) \/ KeepWaiting(w)

Admin(h, expected) ==
  \/ \E w \in Workers : PauseAndWait(w, h, expected)
  \/ ResumeDelivery(h, expected)
  \/ RetryDeadLetters(h, expected)

Next ==
  \/ \E d \in Deliveries, b \in Bodies : Accept(d, b)
  \/ \E w \in Workers :
       \/ Start(w) \/ Close(w) \/ StopLoop(w) \/ Crash(w) \/ StateError(w)
       \/ Loop(w) \/ Waiting(w) \/ PauseTimesOut(w)
  \/ \E h \in Holders, e \in 0..MaxRevision : Admin(h, e)
  \/ Tick

Spec == Init /\ [][Next]_vars

(* asyncio keeps running the loop and the waiters, the supervisor restarts *)
(* the process, close() ends the loop, and the clock advances.  Nothing is *)
(* asked of Teams, of the owner or of the faults.                          *)
Fairness ==
  /\ WF_vars(Tick)
  /\ \A w \in Workers :
       WF_vars(Start(w)) /\ WF_vars(StopLoop(w)) /\ WF_vars(Loop(w)) /\ WF_vars(Waiting(w))

FairSpec == Spec /\ Fairness

-----------------------------------------------------------------------------
Claims == [delivery_id : Deliveries, body : Bodies, sequence : Nat,
           lease_id : LeaseIds, lease_epoch : Nat, attempt : Nat]

Loops == [pc : PCs, stopping : BOOLEAN, claim : Claims \cup {NoClaim},
          answer : Answers \cup {"none"}, left : Nat]

Flips == [op : {"pause", "resume"}, holder : Holders, expected : Nat]

(* The state of the spool and of the processes has the declared shape. *)
TypeOK ==
  /\ row \in [Deliveries -> Rows]
  /\ ledger \in Seq(Entries)
  /\ gate \in Gates
  /\ worker \in [Workers -> Loops]
  /\ waiter \in [Workers -> {"none", "draining", "checking"}]
  /\ faults \in Nat
  /\ acked \in SUBSET Entries
  /\ submitted \in SUBSET Nat /\ decided \in SUBSET Nat
  /\ flips \in Seq(Flips)
  /\ drained \in Int

(* Row i of the ledger is decided by Navigator, or still in the table with *)
(* the body that was accepted.                                             *)
Kept(i) ==
  LET e == ledger[i] IN
  \/ i \in decided
  \/ /\ row[e.delivery_id].sequence = i
     /\ row[e.delivery_id].state \in Unconfirmed
     /\ row[e.delivery_id].body = e.body

(* No event that Teams was told is accepted is lost (enqueue's ACK         *)
(* boundary): whatever crashes, expired leases, late answers, purges and   *)
(* redeliveries follow, its exact body stays in the spool until Navigator  *)
(* has accepted or terminally refused that very body.                      *)
NoLoss ==
  \A a \in acked : \E i \in DOMAIN ledger : ledger[i] = a /\ Kept(i)

SameThread(i, j) ==
  ThreadOf[ledger[i].delivery_id] = ThreadOf[ledger[j].delivery_id]

PriorDecided(j) ==
  \A i \in DOMAIN ledger : i < j /\ SameThread(i, j) => i \in decided

(* Later replies stay behind earlier unconfirmed events of their thread    *)
(* (the NOT EXISTS of claim_next): no body reaches Navigator before every  *)
(* event enqueued earlier in its thread was decided, even when leases      *)
(* expire under a stalled process or dead letters are requeued.            *)
ThreadOrder ==
  \A j \in submitted : PriorDecided(j)

(* The fence of _finish_sync and _retry_sync: of all the claims processes  *)
(* still hold, at most one per delivery can change the row.                *)
SingleHolder ==
  \A v, w \in Workers :
     /\ Busy(v) /\ Busy(w) /\ v # w
     /\ worker[v].claim.delivery_id = worker[w].claim.delivery_id
     => ~(Holds(worker[v].claim) /\ Holds(worker[w].claim))

InSpool ==
  {<<row[d].sequence, row[d].body>> : d \in {e \in Deliveries : row[e].state \in Unconfirmed}}

(* To Teams and Navigator the spool is one outbox: however many processes  *)
(* share the table, stall, crash and mark late, a row leaves the ones that *)
(* may still be forwarded only when its own body has been decided, never   *)
(* comes back, and is forwarded in the order of its thread.                *)
Outbox == INSTANCE ThreadOutbox WITH log <- ledger, held <- InSpool, forwarded <- submitted
OutboxSpec == Outbox!Spec

(* The CHECK constraints of the schema, which no UPDATE may trip: a lease  *)
(* exactly on leased rows, a body exactly on unconfirmed ones.             *)
SchemaChecks ==
  \A d \in Stored :
     /\ row[d].state = "leased" <=> row[d].lease_id # NoLease
     /\ row[d].state \in Unconfirmed <=> row[d].body # NoBody

(* max_rows bounds the table. *)
RowsBounded == IsFiniteSet(Stored) /\ Cardinality(Stored) <= MaxRows

(* max_rows and max_bytes bound the table whatever is retried, requeued    *)
(* or kept as a dead letter.                                               *)
Bounded ==
  RowsBounded /\ StoredBytes(row) <= MaxBytes

(* When pause_and_wait has reported a pause as drained, no process is      *)
(* forwarding anything while that pause stands: the window between the     *)
(* commit of a claim and _idle.clear() is covered by the lease.            *)
PauseDrained ==
  gate.paused /\ drained = gate.revision => \A w \in Workers : ~Busy(w)

(* A pause or resume request that is delayed or repeated changes the gate  *)
(* at most once, whichever other holders paused and resumed in between.    *)
ReplaySafe ==
  \A i, j \in DOMAIN flips : flips[i] = flips[j] => i = j

DeadLetterInThread(t) ==
  \E d \in Deliveries : row[d].state = "dead" /\ ThreadOf[d] = t

(* Every accepted event is eventually decided by Navigator, unless the     *)
(* owner keeps the gate closed or a dead letter holds its thread.          *)
EventuallyDecided ==
  \A i \in 1..MaxSequence :
     (i \in DOMAIN ledger)
       ~> \/ i \in decided
          \/ gate.paused
          \/ i \in DOMAIN ledger /\ DeadLetterInThread(ThreadOf[ledger[i].delivery_id])

(* pause_and_wait returns because the spool drained, not by its deadline.  *)
PauseReturns ==
  \A w \in Workers : (waiter[w] # "none") ~> (waiter[w] = "none")

-----------------------------------------------------------------------------
(* The inductive invariant behind the theorems of DeliveryProofs. *)

(* A stored row is its ledger entry; it is finished only once decided. *)
RowOK(d) ==
  LET r == row[d] IN
  /\ r.state = "absent" => r.sequence = 0
  /\ r.state # "absent" =>
       /\ r.sequence \in DOMAIN ledger
       /\ ledger[r.sequence] = [delivery_id |-> d, body |-> r.body_sha256]
  /\ r.state \in Finished => r.sequence \in decided /\ r.body = NoBody
  /\ r.state \in Unconfirmed => r.body = r.body_sha256
  /\ r.state = "leased" => r.lease_id = <<r.sequence, r.lease_epoch>>
  /\ r.state # "leased" => r.lease_id = NoLease

RowInv == \A d \in Deliveries : RowOK(d)

LedgerInv == \A i \in DOMAIN ledger : Kept(i)

AckInv == \A a \in acked : \E i \in DOMAIN ledger : ledger[i] = a

(* A claim names a ledger entry whose predecessors are decided, and is     *)
(* never newer than the row it was taken from.                             *)
ClaimOK(w) ==
  LET c == worker[w].claim IN
  /\ c \in Claims
  /\ c.sequence \in DOMAIN ledger
  /\ ledger[c.sequence].delivery_id = c.delivery_id
  /\ c.lease_id = <<c.sequence, c.lease_epoch>>
  /\ row[c.delivery_id].sequence = c.sequence
       => c.lease_epoch <= row[c.delivery_id].lease_epoch
  /\ PriorDecided(c.sequence)
  /\ worker[w].pc = "answered"
       => /\ worker[w].answer \in Answers
          /\ worker[w].answer \in {"accepted", "terminal_rejection"}
               => c.sequence \in decided

ClaimInv == \A w \in Workers : Busy(w) => ClaimOK(w)

DistinctClaims ==
  \A v, w \in Workers :
     Busy(v) /\ Busy(w) /\ v # w => worker[v].claim.lease_id # worker[w].claim.lease_id

OrderInv == submitted \subseteq DOMAIN ledger /\ ThreadOrder

IInv ==
  /\ TypeOK /\ RowInv /\ LedgerInv /\ AckInv
  /\ ClaimInv /\ DistinctClaims /\ OrderInv
=============================================================================
