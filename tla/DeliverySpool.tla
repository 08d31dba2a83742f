--------------------------- MODULE DeliverySpool ---------------------------
(***************************************************************************)
(* The durable delivery spool of the Teams connector                       *)
(* (teams_connector/delivery_spool.py, class DeliverySpool): a bounded     *)
(* SQLite queue whose rows are claimed under fenced leases, and a pause    *)
(* gate changed by compare-and-swap.  Every operation of the class is one  *)
(* BEGIN IMMEDIATE transaction, so every operation is one action here.     *)
(* The module declares the state of the database and the transactions;     *)
(* DeliveryWorker adds the processes that call them.                       *)
(*                                                                         *)
(* Time.  A row compares the clock with one column at a time:              *)
(* next_attempt_at while it is queued, lease_expires_at while it is        *)
(* leased, finished_at plus the retention while it is delivered or         *)
(* rejected.  timer is the time left until that comparison turns true,     *)
(* counted down to 0 by the passing of time.                               *)
(***************************************************************************)
EXTENDS Integers, Sequences, FiniteSets, Functions

CONSTANTS
  Deliveries,         \* stable_delivery_id values: one per Teams activity
  Threads,            \* stable_thread_key values
  ThreadOf,           \* the thread of each delivery
  Bodies,             \* the canonical bodies (and their SHA-256) seen for an activity
  NoBody,             \* NULL in the body column
  BodySize,           \* length(body) of each body
  Holders,            \* holder tokens of pause operations
  NoHolder,           \* the empty string in delivery_meta
  MaxRows,            \* max_rows
  MaxBytes,           \* max_bytes
  MaxRecordedAttempts,\* MAX_RECORDED_ATTEMPTS
  MaxRetryDelay,      \* MAX_RETRY_DELAY_SECONDS
  DeliveredRetention, \* DELIVERED_RETENTION_SECONDS
  RejectedRetention,  \* REJECTED_RETENTION_SECONDS
  MaxSequence,        \* bound of the model: rows ever inserted
  MaxEpoch,           \* bound of the model: claims of one row
  MaxRevision         \* bound of the model: changes of the pause gate

ASSUME SpoolAssumption ==
  /\ ThreadOf \in [Deliveries -> Threads]
  /\ NoBody \notin Bodies
  /\ NoHolder \notin Holders
  /\ BodySize \in [Bodies -> Nat \ {0}]
  /\ MaxRows \in Nat \ {0} /\ MaxBytes \in Nat \ {0}
  /\ MaxRecordedAttempts \in Nat \ {0} /\ MaxRetryDelay \in Nat
  /\ DeliveredRetention \in Nat /\ RejectedRetention \in Nat
  /\ MaxSequence \in Nat /\ MaxEpoch \in Nat /\ MaxRevision \in Nat

VARIABLES
  row,     \* the deliveries table, by delivery_id
  ledger,  \* what was inserted under each AUTOINCREMENT sequence number
  gate     \* the delivery_meta table

spoolVars == <<row, ledger, gate>>

RowStates == {"queued", "leased", "delivered", "rejected", "dead"}
Unconfirmed == {"queued", "leased", "dead"}
Finished == {"delivered", "rejected"}

(* secrets.token_hex(24) never repeats.  A claim is named by the row it    *)
(* leased and that row's new epoch, a pair no two claims share.            *)
LeaseIds == (Nat \X Nat)
NoLease == <<0, 0>>

NoRow == [state |-> "absent", sequence |-> 0, body_sha256 |-> NoBody,
          body |-> NoBody, attempts |-> 0, lease_id |-> NoLease,
          lease_epoch |-> 0, timer |-> 0]

Rows == [state : RowStates \cup {"absent"}, sequence : Nat,
         body_sha256 : Bodies \cup {NoBody}, body : Bodies \cup {NoBody},
         attempts : Nat, lease_id : LeaseIds, lease_epoch : Nat, timer : Nat]

Gates == [paused : BOOLEAN, revision : Nat,
          pause_holder : Holders \cup {NoHolder},
          last_resumed_holder : Holders \cup {NoHolder}]

Entries == [delivery_id : Deliveries, body : Bodies]

InitSpool ==
  /\ row = [d \in Deliveries |-> NoRow]
  /\ ledger = << >>
  /\ gate = [paused |-> FALSE, revision |-> 0,
             pause_holder |-> NoHolder, last_resumed_holder |-> NoHolder]

Stored == {d \in Deliveries : row[d].state # "absent"}

-----------------------------------------------------------------------------
(* Enqueue. *)

PurgeExpired ==
  [d \in Deliveries |->
     IF row[d].state \in Finished /\ row[d].timer = 0 THEN NoRow ELSE row[d]]

BodyBytes(table) ==
  [d \in Deliveries |-> IF table[d].body = NoBody THEN 0 ELSE BodySize[table[d].body]]

StoredBytes(table) ==
  SumFunctionOnSet(BodyBytes(table), {d \in Deliveries : table[d].state # "absent"})

(* Mutant of Room: the size of the new body is left out. *)
RoomIgnoringBody(table, body) ==
  /\ Cardinality({d \in Deliveries : table[d].state # "absent"}) < MaxRows
  /\ StoredBytes(table) <= MaxBytes

Room(table, body) ==
  /\ Cardinality({d \in Deliveries : table[d].state # "absent"}) < MaxRows
  /\ StoredBytes(table) + BodySize[body] <= MaxBytes

(* Mutant of EnqueueDuplicate: the digest is not compared. *)
EnqueueIgnoringDigest(d, body) ==
  /\ PurgeExpired[d].state # "absent"
  /\ row' = PurgeExpired
  /\ UNCHANGED <<ledger, gate>>

(* The row exists after the purge with the same digest: nothing is         *)
(* inserted and the caller is answered as if it had been.                  *)
EnqueueDuplicate(d, body) ==
  /\ PurgeExpired[d].state # "absent"
  /\ PurgeExpired[d].body_sha256 = body
  /\ row' = PurgeExpired
  /\ UNCHANGED <<ledger, gate>>

EnqueueNew(d, body) ==
  /\ Len(ledger) < MaxSequence
  /\ PurgeExpired[d].state = "absent"
  /\ Room(PurgeExpired, body)
  /\ ledger' = Append(ledger, [delivery_id |-> d, body |-> body])
  /\ row' = [PurgeExpired EXCEPT ![d] =
               [NoRow EXCEPT !.state = "queued", !.sequence = Len(ledger) + 1,
                             !.body_sha256 = body, !.body = body]]
  /\ UNCHANGED gate

(* A digest that differs from the stored one (DeliveryIdentityConflict)    *)
(* and a full table (DeliverySpoolFull) roll the transaction back, the     *)
(* purge included: no step.                                                *)
Enqueue(d, body) == EnqueueDuplicate(d, body) \/ EnqueueNew(d, body)

-----------------------------------------------------------------------------
(* Claims and their outcomes. *)

(* Mutant of Due: an expired lease is not taken over. *)
DueQueuedOnly(d) == row[d].state = "queued" /\ row[d].timer = 0

Due(d) == row[d].state \in {"queued", "leased"} /\ row[d].timer = 0

(* Mutant of Blocked: a leased or dead predecessor does not block. *)
BlockedByQueued(d) ==
  \E p \in Deliveries :
     ThreadOf[p] = ThreadOf[d] /\ row[p].sequence < row[d].sequence /\ row[p].state = "queued"

Blocked(d) ==
  \E p \in Deliveries :
     /\ ThreadOf[p] = ThreadOf[d]
     /\ row[p].sequence < row[d].sequence
     /\ row[p].state \in Unconfirmed

Claimable == {d \in Deliveries : Due(d) /\ ~Blocked(d)}

(* ORDER BY sequence LIMIT 1 *)
IsNext(d) ==
  /\ d \in Claimable
  /\ \A e \in Claimable : row[d].sequence <= row[e].sequence

(* Mutant of ClaimOf: the lease of an earlier claim is handed out again. *)
ClaimOfSameLease(d) ==
  [delivery_id |-> d, body |-> row[d].body, sequence |-> row[d].sequence,
   lease_id |-> <<row[d].sequence, 1>>, lease_epoch |-> 1,
   attempt |-> IF row[d].attempts < MaxRecordedAttempts
               THEN row[d].attempts + 1 ELSE MaxRecordedAttempts]

ClaimOf(d) ==
  [delivery_id |-> d, body |-> row[d].body, sequence |-> row[d].sequence,
   lease_id |-> <<row[d].sequence, row[d].lease_epoch + 1>>,
   lease_epoch |-> row[d].lease_epoch + 1,
   attempt |-> IF row[d].attempts < MaxRecordedAttempts
               THEN row[d].attempts + 1 ELSE MaxRecordedAttempts]

ClaimNext(d, lease) ==
  /\ ~gate.paused
  /\ IsNext(d)
  /\ row[d].lease_epoch < MaxEpoch
  /\ row' = [row EXCEPT ![d] =
               [row[d] EXCEPT !.state = "leased", !.attempts = ClaimOf(d).attempt,
                         !.lease_id = ClaimOf(d).lease_id,
                         !.lease_epoch = ClaimOf(d).lease_epoch, !.timer = lease]]
  /\ UNCHANGED <<ledger, gate>>

Holds(claim) ==
  /\ row[claim.delivery_id].state = "leased"
  /\ row[claim.delivery_id].lease_id = claim.lease_id
  /\ row[claim.delivery_id].lease_epoch = claim.lease_epoch

Retention(state) ==
  CASE state = "delivered" -> DeliveredRetention
    [] state = "rejected"  -> RejectedRetention
    [] OTHER               -> 0

(* The UPDATE of a claim that no longer holds its row changes nothing. *)
Finish(claim, state) ==
  LET d == claim.delivery_id IN
  /\ row' = IF Holds(claim)
            THEN [row EXCEPT ![d] =
                    [row[d] EXCEPT !.state = state,
                              !.body = IF state \in Finished THEN NoBody ELSE row[d].body,
                              !.lease_id = NoLease, !.timer = Retention(state)]]
            ELSE row
  /\ UNCHANGED <<ledger, gate>>

(* retry_delay_seconds: 2^(attempt - 1) up to 2^9, at least Retry-After,   *)
(* capped by MAX_RETRY_DELAY_SECONDS.                                      *)
PowersOfTwo == <<1, 2, 4, 8, 16, 32, 64, 128, 256, 512>>

Backoff(attempt) ==
  PowersOfTwo[IF attempt < 1 THEN 1 ELSE IF attempt > 10 THEN 10 ELSE attempt]

RetryDelay(attempt, retryAfter) ==
  LET delay == IF retryAfter > Backoff(attempt) THEN retryAfter ELSE Backoff(attempt)
  IN  IF delay < MaxRetryDelay THEN delay ELSE MaxRetryDelay

(* Mutant of Retry: the body is erased as by a finish. *)
RetryErasingBody(claim, retryAfter) ==
  LET d == claim.delivery_id IN
  /\ row' = IF Holds(claim)
            THEN [row EXCEPT ![d] =
                    [row[d] EXCEPT !.state = "queued", !.body = NoBody, !.lease_id = NoLease,
                                   !.timer = RetryDelay(claim.attempt, retryAfter)]]
            ELSE row
  /\ UNCHANGED <<ledger, gate>>

(* Mutant of Retry: the lease is not compared. *)
RetryUnfenced(claim, retryAfter) ==
  LET d == claim.delivery_id IN
  /\ row' = [row EXCEPT ![d] =
               [row[d] EXCEPT !.state = "queued", !.lease_id = NoLease,
                              !.timer = RetryDelay(claim.attempt, retryAfter)]]
  /\ UNCHANGED <<ledger, gate>>

Retry(claim, retryAfter) ==
  LET d == claim.delivery_id IN
  /\ row' = IF Holds(claim)
            THEN [row EXCEPT ![d] =
                    [row[d] EXCEPT !.state = "queued", !.lease_id = NoLease,
                              !.timer = RetryDelay(claim.attempt, retryAfter)]]
            ELSE row
  /\ UNCHANGED <<ledger, gate>>

(* Mutant of ActiveDeliveries: an expired lease counts as active. *)
LeasedDeliveries == {d \in Deliveries : row[d].state = "leased"}

ActiveDeliveries == {d \in Deliveries : row[d].state = "leased" /\ row[d].timer > 0}

-----------------------------------------------------------------------------
(* The pause gate.  A request that conflicts raises and changes nothing,   *)
(* and the repetition of the last resume by its holder changes nothing     *)
(* either: no step.                                                        *)

PauseRepeats(h, expected) ==
  gate.paused /\ gate.pause_holder = h
              /\ expected \in {gate.revision, gate.revision - 1}

(* Mutant of PauseApplies: the expected revision is not compared. *)
PauseAppliesAnyRevision(h, expected) ==
  ~gate.paused /\ gate.last_resumed_holder # h

PauseApplies(h, expected) ==
  ~gate.paused /\ gate.last_resumed_holder # h /\ expected = gate.revision

Pause(h, expected) ==
  /\ gate.revision < MaxRevision
  /\ PauseApplies(h, expected)
  /\ gate' = [paused |-> TRUE, revision |-> gate.revision + 1,
              pause_holder |-> h, last_resumed_holder |-> NoHolder]
  /\ UNCHANGED <<row, ledger>>

ResumeApplies(h, expected) ==
  gate.paused /\ gate.pause_holder = h /\ expected = gate.revision

Resume(h, expected) ==
  /\ gate.revision < MaxRevision
  /\ ResumeApplies(h, expected)
  /\ gate' = [paused |-> FALSE, revision |-> gate.revision + 1,
              pause_holder |-> NoHolder, last_resumed_holder |-> h]
  /\ UNCHANGED <<row, ledger>>

RetryDead(h, expected) ==
  /\ gate.paused /\ gate.pause_holder = h /\ gate.revision = expected
  /\ ActiveDeliveries = {}
  /\ row' = [d \in Deliveries |->
               IF row[d].state = "dead"
               THEN [row[d] EXCEPT !.state = "queued", !.attempts = 0, !.timer = 0]
               ELSE row[d]]
  /\ UNCHANGED <<ledger, gate>>

-----------------------------------------------------------------------------
(* One unit of time passes for every row. *)
Elapse(n) == IF n > 0 THEN n - 1 ELSE 0

RowsElapsed == [d \in Deliveries |-> [row[d] EXCEPT !.timer = Elapse(row[d].timer)]]

=============================================================================
