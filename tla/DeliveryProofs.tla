--------------------------- MODULE DeliveryProofs ---------------------------
(***************************************************************************)
(* Theorems about the Teams delivery spool for every set of deliveries,    *)
(* threads, bodies, processes and holders and every bound.                 *)
(***************************************************************************)
EXTENDS DeliveryWorker, FiniteSetTheorems, FiniteSums, TLAPS

(* The retry delay of delivery_spool.retry_delay_seconds is a duration. *)
LEMMA RetryDelayNat ==
  ASSUME NEW attempt \in Nat, NEW retryAfter \in Nat
  PROVE  RetryDelay(attempt, retryAfter) \in Nat
<1>1. Backoff(attempt) \in Nat
  BY DEF Backoff, PowersOfTwo
<1> QED
  BY <1>1, SpoolAssumption DEF RetryDelay

(* So is the lease a claim is given. *)
LEMMA LeaseNat == LeaseSeconds \in Nat /\ LeaseSeconds >= 2 * Timeout + 1
BY WorkerAssumption DEF LeaseSeconds

(* The updates of the transactions keep a row a row. *)
LEMMA RowTimer ==
  ASSUME NEW r \in Rows, NEW t \in Nat
  PROVE  [r EXCEPT !.timer = t] \in Rows
BY Zenon DEF Rows

(* The row that EnqueueNew inserts is a row. *)
LEMMA RowInserted ==
  ASSUME NEW n \in Nat, NEW b \in Bodies
  PROVE  [NoRow EXCEPT !.state = "queued", !.sequence = n,
                       !.body_sha256 = b, !.body = b] \in Rows
BY DEF NoRow, Rows, RowStates, NoLease, LeaseIds

(* The row that ClaimNext leases is a row. *)
LEMMA RowLeased ==
  ASSUME NEW r \in Rows, NEW n \in Nat, NEW l \in LeaseIds, NEW e \in Nat, NEW t \in Nat
  PROVE  [r EXCEPT !.state = "leased", !.attempts = n, !.lease_id = l,
                   !.lease_epoch = e, !.timer = t] \in Rows
BY Zenon DEF Rows, RowStates

(* The row that Finish writes is a row. *)
LEMMA RowFinished ==
  ASSUME NEW r \in Rows, NEW s \in RowStates, NEW b \in Bodies \cup {NoBody},
         NEW l \in LeaseIds, NEW t \in Nat
  PROVE  [r EXCEPT !.state = s, !.body = b, !.lease_id = l, !.timer = t] \in Rows
BY Zenon DEF Rows

(* The row that Retry puts back in the queue is a row. *)
LEMMA RowRetried ==
  ASSUME NEW r \in Rows, NEW l \in LeaseIds, NEW t \in Nat
  PROVE  [r EXCEPT !.state = "queued", !.lease_id = l, !.timer = t] \in Rows
BY Zenon DEF Rows, RowStates

(* The row that RetryDead requeues is a row. *)
LEMMA RowRequeued ==
  ASSUME NEW r \in Rows, NEW n \in Nat, NEW t \in Nat
  PROVE  [r EXCEPT !.state = "queued", !.attempts = n, !.timer = t] \in Rows
BY Zenon DEF Rows, RowStates

(* A row that still awaits a decision has a real body to submit. *)
LEMMA UnconfirmedBody ==
  ASSUME TypeOK, RowInv, NEW d \in Deliveries, row[d].state \in Unconfirmed
  PROVE  row[d].body \in Bodies
<1>1. RowOK(d)
  BY DEF RowInv
<1>2. row[d].state # "absent"
  BY DEF Unconfirmed
<1>3. row[d].sequence \in DOMAIN ledger /\ row[d].body = row[d].body_sha256
      /\ ledger[row[d].sequence].body = row[d].body_sha256
  BY <1>1, <1>2 DEF RowOK
<1>4. ledger[row[d].sequence] \in Entries
  BY <1>3 DEF TypeOK
<1> QED
  BY <1>3, <1>4 DEF Entries

(* What claim_next hands to the worker is a well-formed claim. *)
LEMMA ClaimOfTyped ==
  ASSUME TypeOK, RowInv, NEW d \in Deliveries, row[d].state \in Unconfirmed
  PROVE  ClaimOf(d) \in Claims
<1>1. row[d].body \in Bodies
  BY UnconfirmedBody
<1>2. row[d] \in Rows
  BY DEF TypeOK
<1>3. row[d].sequence \in Nat /\ row[d].attempts \in Nat /\ row[d].lease_epoch \in Nat
  BY <1>2 DEF Rows
<1>4. ClaimOf(d).attempt \in Nat
  BY <1>3, SpoolAssumption DEF ClaimOf
<1>5. ClaimOf(d).lease_id \in LeaseIds
  BY <1>3 DEF ClaimOf, LeaseIds
<1> QED
  BY <1>1, <1>3, <1>4, <1>5 DEF ClaimOf, Claims

-----------------------------------------------------------------------------
(* Type correctness, one lemma per group of actions. *)

(* Accepting an event (enqueue and its acknowledgement) preserves the types. *)
LEMMA TypeEnqueue ==
  ASSUME IInv, NEW d \in Deliveries, NEW b \in Bodies, Accept(d, b)
  PROVE  TypeOK'
<1> USE DEF IInv, TypeOK
<1>1. NoRow \in Rows
  BY DEF NoRow, Rows, NoLease, LeaseIds
<1>2. PurgeExpired \in [Deliveries -> Rows]
  BY <1>1 DEF PurgeExpired
<1>3. acked' \in SUBSET Entries
  BY DEF Accept, Entries
<1>4. CASE EnqueueDuplicate(d, b)
  BY <1>2, <1>3, <1>4 DEF EnqueueDuplicate, Accept
<1>5. CASE EnqueueNew(d, b)
  <2>1. [NoRow EXCEPT !.state = "queued", !.sequence = Len(ledger) + 1,
                      !.body_sha256 = b, !.body = b] \in Rows
    <3>1. Len(ledger) + 1 \in Nat
      OBVIOUS
    <3> QED
      BY <3>1, RowInserted
  <2>2. row' \in [Deliveries -> Rows]
    BY <1>2, <1>5, <2>1 DEF EnqueueNew
  <2>3. ledger' \in Seq(Entries)
    BY <1>5 DEF EnqueueNew, Entries
  <2> QED
    BY <1>3, <1>5, <2>2, <2>3 DEF EnqueueNew, Accept
<1> QED
  BY <1>4, <1>5 DEF Accept, Enqueue

(* Every step of a process (start, stop, crash, delivery loop) preserves the types. *)
LEMMA TypeLoop ==
  ASSUME IInv, NEW w \in Workers,
         Start(w) \/ Close(w) \/ StopLoop(w) \/ Crash(w) \/ StateError(w) \/ Loop(w)
  PROVE  TypeOK'
<1> USE DEF IInv, TypeOK, history
<1>a. worker[w] \in Loops
  OBVIOUS
<1>b. /\ Idle(FALSE) \in Loops
      /\ Idle(worker[w].stopping) \in Loops
      /\ Down \in Loops
  BY <1>a DEF Idle, Down, PCs, Loops
<1>c. Busy(w) => worker[w].claim \in Claims
  BY DEF ClaimInv, ClaimOK
<1>1. CASE Start(w)
  BY <1>b, <1>1 DEF Start
<1>2. CASE Close(w)
  <2>1. [worker[w] EXCEPT !.stopping = TRUE] \in Loops
    BY <1>a DEF Loops
  <2> QED
    BY <1>2, <2>1 DEF Close, Fault
<1>3. CASE StopLoop(w)
  BY <1>b, <1>3 DEF StopLoop
<1>4. CASE Crash(w)
  BY <1>b, <1>4 DEF Crash, Fault
<1>5. CASE StateError(w)
  BY <1>b, <1>5 DEF StateError, Fault, EndForward
<1>6. CASE CheckPaused(w)
  <2>1. [worker[w] EXCEPT !.pc = "claiming"] \in Loops
    BY <1>a DEF Loops, PCs
  <2> QED
    BY <1>6, <2>1 DEF CheckPaused
<1>7. CASE Claim(w)
  <2>1. PICK d \in Deliveries :
          /\ ClaimNext(d, LeaseSeconds)
          /\ worker' = [worker EXCEPT ![w] =
                          [worker[w] EXCEPT !.pc = "claimed", !.claim = ClaimOf(d),
                                    !.left = IF Timely THEN StartSlack ELSE 0]]
    BY <1>7 DEF Claim
  <2>2. row[d].state \in Unconfirmed
    BY <2>1 DEF ClaimNext, IsNext, Claimable, Due, Unconfirmed
  <2>3. ClaimOf(d) \in Claims
    BY <2>2, ClaimOfTyped
  <2>4. [worker[w] EXCEPT !.pc = "claimed", !.claim = ClaimOf(d),
                          !.left = IF Timely THEN StartSlack ELSE 0] \in Loops
    BY <1>a, <2>3, WorkerAssumption DEF Loops, PCs
  <2>5. [row[d] EXCEPT !.state = "leased", !.attempts = ClaimOf(d).attempt,
                       !.lease_id = ClaimOf(d).lease_id,
                       !.lease_epoch = ClaimOf(d).lease_epoch,
                       !.timer = LeaseSeconds] \in Rows
    <3>1. row[d] \in Rows
      OBVIOUS
    <3>2. /\ ClaimOf(d).attempt \in Nat /\ ClaimOf(d).lease_epoch \in Nat
          /\ ClaimOf(d).lease_id \in LeaseIds
      BY <2>3 DEF Claims
    <3> HIDE DEF IInv, TypeOK
    <3> QED
      BY <3>1, <3>2, LeaseNat, RowLeased, Zenon
  <2> QED
    BY <1>7, <2>1, <2>4, <2>5 DEF Claim, ClaimNext
<1>8. CASE ClaimNothing(w)
  <2>1. [worker[w] EXCEPT !.pc = "polling"] \in Loops
    BY <1>a DEF Loops, PCs
  <2> QED
    BY <1>8, <2>1 DEF ClaimNothing
<1>9. CASE Submit(w)
  <2>1. worker[w].claim.sequence \in Nat
    BY <1>9, <1>c DEF Submit, Busy, Claims
  <2>2. [worker[w] EXCEPT !.pc = "submitting",
                          !.left = IF Timely THEN Timeout ELSE 0] \in Loops
    BY <1>a, WorkerAssumption DEF Loops, PCs
  <2> QED
    BY <1>9, <2>1, <2>2 DEF Submit
<1>10. ASSUME NEW a \in Answers
       PROVE  [worker[w] EXCEPT !.pc = "answered", !.answer = a, !.left = 0] \in Loops
  BY <1>a DEF Loops, PCs
<1>11. ASSUME NEW a \in Answers, Decide(w, a)
       PROVE  TypeOK'
  <2>1. worker[w].claim.sequence \in Nat
    BY <1>11, <1>c DEF Decide, Busy, Claims
  <2> QED
    BY <1>10, <1>11, <2>1 DEF Decide, Answer
<1>12. ASSUME NEW a \in Answers, FailToDecide(w, a)
       PROVE  TypeOK'
  <2>1. worker' \in [Workers -> Loops]
    BY <1>10, <1>12 DEF FailToDecide, Answer
  <2> QED
    BY <1>12, <2>1 DEF FailToDecide, Fault
<1>13. CASE MarkFinished(w)
  <2> DEFINE c == worker[w].claim
             d == c.delivery_id
  <2>1. d \in Deliveries
    BY <1>13, <1>c DEF MarkFinished, Busy, Claims
  <2>2. PICK s \in {"delivered", "rejected", "dead"} : Finish(c, s)
    BY <1>13 DEF MarkFinished
  <2>3. [row[d] EXCEPT !.state = s,
                       !.body = IF s \in Finished THEN NoBody ELSE row[d].body,
                       !.lease_id = NoLease, !.timer = Retention(s)] \in Rows
    <3>1. row[d] \in Rows /\ s \in RowStates /\ NoLease \in LeaseIds
      BY <2>1 DEF RowStates, NoLease, LeaseIds
    <3>2. Retention(s) \in Nat
      BY SpoolAssumption DEF Retention
    <3>3. (IF s \in Finished THEN NoBody ELSE row[d].body) \in Bodies \cup {NoBody}
      BY <3>1 DEF Rows
    <3> HIDE DEF IInv, TypeOK, c, d
    <3> QED
      BY <3>1, <3>2, <3>3, RowFinished, Zenon
  <2>4. row' \in [Deliveries -> Rows]
    <3>1. CASE Holds(c)
      BY <2>1, <2>2, <2>3, <3>1, Zenon DEF Finish
    <3>2. CASE ~Holds(c)
      BY <2>2, <3>2 DEF Finish
    <3> QED
      BY <3>1, <3>2
  <2> QED
    BY <1>b, <1>13, <2>2, <2>4 DEF MarkFinished, Finish, EndForward
<1>14. ASSUME NEW r \in 0..MaxRetryDelay, MarkRetry(w, r)
       PROVE  TypeOK'
  <2> DEFINE c == worker[w].claim
             d == c.delivery_id
  <2>1. d \in Deliveries /\ c.attempt \in Nat /\ r \in Nat
    BY <1>14, <1>c, SpoolAssumption DEF MarkRetry, Busy, Claims
  <2>2. RetryDelay(c.attempt, r) \in Nat
    BY <2>1, RetryDelayNat
  <2>3. [row[d] EXCEPT !.state = "queued", !.lease_id = NoLease,
                       !.timer = RetryDelay(c.attempt, r)] \in Rows
    <3>1. row[d] \in Rows /\ NoLease \in LeaseIds
      BY <2>1 DEF NoLease, LeaseIds
    <3> HIDE DEF IInv, TypeOK, c, d
    <3> QED
      BY <2>2, <3>1, RowRetried, Zenon
  <2>4. row' \in [Deliveries -> Rows]
    BY <1>14, <2>1, <2>3 DEF MarkRetry, Retry
  <2> QED
    BY <1>b, <1>14, <2>4 DEF MarkRetry, Retry, EndForward
<1> QED
  BY <1>1, <1>2, <1>3, <1>4, <1>5, <1>6, <1>7, <1>8, <1>9, <1>11, <1>12, <1>13, <1>14
  DEF Loop

(* Owner requests, pause_and_wait and the passing of time preserve the types. *)
LEMMA TypeAdmin ==
  ASSUME IInv,
         \/ \E w \in Workers : Waiting(w) \/ PauseTimesOut(w)
         \/ \E h \in Holders, e \in 0..MaxRevision : Admin(h, e)
         \/ Tick
  PROVE  TypeOK'
<1> USE DEF IInv, TypeOK, history
<1>1. ASSUME NEW w \in Workers, Waiting(w)
      PROVE  TypeOK'
  <2>1. CASE SeeIdle(w)
    BY <2>1 DEF SeeIdle
  <2>2. CASE KeepWaiting(w)
    BY <2>2 DEF KeepWaiting
  <2>3. CASE ReportDrained(w)
    <3>1. drained' \in Int
      <4>1. gate.revision \in Int
        BY DEF Gates
      <4> QED
        BY <2>3, <4>1 DEF ReportDrained
    <3> QED
      BY <2>3, <3>1 DEF ReportDrained
  <2> QED
    BY <1>1, <2>1, <2>2, <2>3 DEF Waiting
<1>2. ASSUME NEW w \in Workers, PauseTimesOut(w)
      PROVE  TypeOK'
  BY <1>2 DEF PauseTimesOut
<1>3. ASSUME NEW h \in Holders, NEW e \in 0..MaxRevision
      PROVE  /\ e \in Nat
             /\ \A op \in {"pause", "resume"} :
                  Request(op, h, e) \in Flips
  BY SpoolAssumption DEF Request, Flips
<1>4. ASSUME NEW h \in Holders, NEW e \in 0..MaxRevision, NEW w \in Workers,
             PauseAndWait(w, h, e)
      PROVE  TypeOK'
  <2>1. waiter' \in [Workers -> {"none", "draining", "checking"}]
    BY <1>4 DEF PauseAndWait
  <2>2. CASE Pause(h, e) /\ flips' = Append(flips, Request("pause", h, e))
    <3>1. gate' \in Gates
      BY <2>2 DEF Pause, Gates
    <3>2. Request("pause", h, e) \in Flips
      BY <1>3
    <3>3. flips' \in Seq(Flips)
      BY <2>2, <3>2
    <3> QED
      BY <1>4, <2>1, <2>2, <3>1, <3>3 DEF PauseAndWait, Pause
  <2>3. CASE UNCHANGED <<row, ledger, gate, flips>>
    BY <1>4, <2>1, <2>3 DEF PauseAndWait
  <2> QED
    BY <1>4, <2>2, <2>3 DEF PauseAndWait
<1>5. ASSUME NEW h \in Holders, NEW e \in 0..MaxRevision, ResumeDelivery(h, e)
      PROVE  TypeOK'
  <2>1. gate' \in Gates
    BY <1>5 DEF ResumeDelivery, Resume, Gates
  <2>2. Request("resume", h, e) \in Flips
    BY <1>3
  <2>3. flips' \in Seq(Flips)
    BY <1>5, <2>2 DEF ResumeDelivery
  <2> QED
    BY <1>5, <2>1, <2>3 DEF ResumeDelivery, Resume
<1>6. ASSUME NEW h \in Holders, NEW e \in 0..MaxRevision, RetryDeadLetters(h, e)
      PROVE  TypeOK'
  <2>1. row' \in [Deliveries -> Rows]
    BY <1>6, RowRequeued DEF RetryDeadLetters, RetryDead
  <2> QED
    BY <1>6, <2>1 DEF RetryDeadLetters, RetryDead
<1>7. CASE Tick
  <2>1. ASSUME NEW d \in Deliveries
        PROVE  [row[d] EXCEPT !.timer = Elapse(row[d].timer)] \in Rows
    <3>1. Elapse(row[d].timer) \in Nat
      BY DEF Elapse, Rows
    <3> QED
      BY <3>1, RowTimer
  <2>2. ASSUME NEW w \in Workers
        PROVE  [worker[w] EXCEPT !.left = Elapse(worker[w].left)] \in Loops
    <3>1. worker[w] \in Loops
      OBVIOUS
    <3>2. Elapse(worker[w].left) \in Nat
      BY <3>1 DEF Elapse, Loops
    <3> HIDE DEF IInv, TypeOK
    <3> QED
      BY <3>1, <3>2, Zenon DEF Loops
  <2> QED
    BY <1>7, <2>1, <2>2 DEF Tick, RowsElapsed
<1> QED
  BY <1>1, <1>2, <1>4, <1>5, <1>6, <1>7 DEF Admin

-----------------------------------------------------------------------------
(* What every step does to the ledger, the decisions and the rows. *)

(* Entries are only appended and decisions only added. *)
Grows ==
  /\ decided \subseteq decided'
  /\ ledger' = ledger \/ \E e \in Entries : ledger' = Append(ledger, e)

(* A row keeps its place and its epoch never falls, unless it is removed   *)
(* or inserted anew; an unconfirmed row stays as it was stored until its   *)
(* event is decided.                                                       *)
Steady(d) ==
  /\ \/ row'[d].sequence \notin DOMAIN ledger
     \/ /\ row'[d].sequence = row[d].sequence
        /\ row[d].lease_epoch <= row'[d].lease_epoch
  /\ row[d].state \in Unconfirmed
       => \/ row[d].sequence \in decided'
          \/ /\ row'[d].sequence = row[d].sequence
             /\ row'[d].state \in Unconfirmed
             /\ row'[d].body = row[d].body

(* The ledger is unchanged or extended by one entry: earlier entries keep their number. *)
LEMMA LedgerGrows ==
  ASSUME TypeOK, Grows
  PROVE  /\ DOMAIN ledger \subseteq DOMAIN ledger'
         /\ \A i \in DOMAIN ledger : ledger'[i] = ledger[i]
         /\ \A i \in DOMAIN ledger' : i \in DOMAIN ledger \/ i > Len(ledger)
         /\ DOMAIN ledger = 1..Len(ledger) /\ Len(ledger) \in Nat
<1>1. ledger \in Seq(Entries)
  BY DEF TypeOK
<1>2. CASE ledger' = ledger
  BY <1>1, <1>2
<1>3. ASSUME NEW e \in Entries, ledger' = Append(ledger, e)
      PROVE  /\ DOMAIN ledger' = 1..(Len(ledger) + 1)
             /\ \A i \in DOMAIN ledger : ledger'[i] = ledger[i]
  BY <1>1, <1>3
<1> QED
  BY <1>1, <1>2, <1>3 DEF Grows

(* Decided predecessors stay decided: the ledger only grows, as does the set of decisions. *)
LEMMA PriorStaysDecided ==
  ASSUME TypeOK, Grows, NEW j \in DOMAIN ledger, PriorDecided(j)
  PROVE  PriorDecided(j)'
<1> SUFFICES ASSUME NEW i \in DOMAIN ledger', i < j, SameThread(i, j)'
             PROVE  i \in decided'
  BY DEF PriorDecided
<1>1. i \in DOMAIN ledger /\ ledger'[i] = ledger[i] /\ ledger'[j] = ledger[j]
  BY LedgerGrows
<1> QED
  BY <1>1 DEF PriorDecided, SameThread, Grows

(* When every row is steady, each ledger entry stays decided or stored with its body. *)
LEMMA EntriesStayKept ==
  ASSUME IInv, Grows, \A d \in Deliveries : Steady(d), NEW i \in DOMAIN ledger
  PROVE  Kept(i)'
<1>1. Kept(i) /\ ledger'[i] = ledger[i] /\ ledger[i].delivery_id \in Deliveries
  <2>1. ledger[i] \in Entries
    BY DEF IInv, TypeOK
  <2> QED
    BY <2>1, LedgerGrows DEF IInv, LedgerInv, Entries
<1>2. Steady(ledger[i].delivery_id)
  BY <1>1
<1> QED
  BY <1>1, <1>2 DEF Kept, Steady, Grows

(* A claim that is carried over unchanged stays valid. *)
LEMMA ClaimStaysOK ==
  ASSUME IInv, TypeOK', Grows, \A d \in Deliveries : Steady(d), NEW w \in Workers, Busy(w),
         worker'[w].claim = worker[w].claim,
         worker'[w].pc = "answered"
           => /\ worker'[w].answer \in Answers
              /\ worker'[w].answer \in {"accepted", "terminal_rejection"}
                   => worker[w].claim.sequence \in decided'
  PROVE  ClaimOK(w)'
<1> DEFINE c == worker[w].claim
<1>1. ClaimOK(w) /\ TypeOK
  BY DEF IInv, ClaimInv
<1>2. c \in Claims /\ c.sequence \in DOMAIN ledger
  BY <1>1 DEF ClaimOK
<1>3. PriorDecided(c.sequence)'
  BY <1>1, <1>2, PriorStaysDecided DEF ClaimOK
<1>4. c.sequence \in DOMAIN ledger' /\ ledger'[c.sequence].delivery_id = c.delivery_id
  BY <1>1, <1>2, LedgerGrows DEF ClaimOK
<1>5. c.delivery_id \in Deliveries
  BY <1>2 DEF Claims
<1>6. row'[c.delivery_id].sequence = c.sequence
        => c.lease_epoch <= row'[c.delivery_id].lease_epoch
  <2>1. SUFFICES ASSUME row'[c.delivery_id].sequence = c.sequence
                 PROVE  c.lease_epoch <= row'[c.delivery_id].lease_epoch
    OBVIOUS
  <2>2. /\ row[c.delivery_id].sequence = c.sequence
        /\ row[c.delivery_id].lease_epoch <= row'[c.delivery_id].lease_epoch
    <3>1. Steady(c.delivery_id)
      BY <1>5
    <3>2. row'[c.delivery_id].sequence \in DOMAIN ledger
      BY <1>2, <2>1
    <3> QED
      BY <2>1, <3>1, <3>2 DEF Steady
  <2>3. c.lease_epoch <= row[c.delivery_id].lease_epoch
    BY <1>1, <2>2 DEF ClaimOK
  <2>4. c.lease_epoch \in Nat
    BY <1>2 DEF Claims
  <2>5. row[c.delivery_id].lease_epoch \in Nat /\ row'[c.delivery_id].lease_epoch \in Nat
    BY <1>1, <1>5 DEF TypeOK, Rows
  <2> HIDE DEF c
  <2> QED
    BY <2>2, <2>3, <2>4, <2>5
<1> QED
  BY <1>1, <1>2, <1>3, <1>4, <1>6 DEF ClaimOK

(* When no process starts a claim, the claims in progress stay valid and   *)
(* distinct.                                                               *)
LEMMA ClaimsCarried ==
  ASSUME IInv, TypeOK', Grows, \A d \in Deliveries : Steady(d),
         \A w \in Workers : Busy(w)' =>
            /\ Busy(w)
            /\ worker'[w].claim = worker[w].claim
            /\ worker'[w].pc = "answered"
                 => /\ worker'[w].answer \in Answers
                    /\ worker'[w].answer \in {"accepted", "terminal_rejection"}
                         => worker[w].claim.sequence \in decided'
  PROVE  ClaimInv' /\ DistinctClaims'
<1>1. ASSUME NEW w \in Workers, Busy(w)'
      PROVE  ClaimOK(w)'
  BY <1>1, ClaimStaysOK
<1>2. DistinctClaims'
  BY DEF IInv, DistinctClaims
<1> QED
  BY <1>1, <1>2 DEF ClaimInv

(* One of the three ways a transaction other than enqueue changes a row:   *)
(* not at all but for its clock and attempts, from unconfirmed to          *)
(* unconfirmed, or from a lease on a decided event to a finished row.      *)
Update(d) ==
  /\ row'[d].sequence = row[d].sequence
  /\ row'[d].body_sha256 = row[d].body_sha256
  /\ row[d].lease_epoch <= row'[d].lease_epoch
  /\ \/ /\ row'[d].state = row[d].state /\ row'[d].body = row[d].body
        /\ row'[d].lease_id = row[d].lease_id /\ row'[d].lease_epoch = row[d].lease_epoch
     \/ /\ row[d].state \in Unconfirmed /\ row'[d].body = row[d].body
        /\ \/ /\ row'[d].state \in {"queued", "dead"}
              /\ row'[d].lease_id = NoLease
           \/ /\ row'[d].state = "leased"
              /\ row'[d].lease_id = <<row'[d].sequence, row'[d].lease_epoch>>
     \/ /\ row[d].state = "leased" /\ row'[d].state \in Finished
        /\ row'[d].body = NoBody /\ row'[d].lease_id = NoLease
        /\ row[d].sequence \in decided'

RowsStep == Grows /\ (\A d \in Deliveries : Steady(d)) /\ RowInv'

(* Steps that only write rows in place preserve the row and ledger invariants. *)
LEMMA RowsUpdated ==
  ASSUME IInv, decided \subseteq decided', ledger' = ledger,
         \A d \in Deliveries : Update(d)
  PROVE  RowsStep
<1>1. Grows
  BY DEF Grows
<1>2. ASSUME NEW d \in Deliveries
      PROVE  Steady(d)
  <2>1. Update(d)
    OBVIOUS
  <2> QED
    BY <2>1 DEF Update, Steady, Unconfirmed
<1>3. ASSUME NEW d \in Deliveries
      PROVE  RowOK(d)'
  <2>1. Update(d) /\ RowOK(d)
    BY DEF IInv, RowInv
  <2> QED
    BY <2>1 DEF Update, RowOK, Unconfirmed, Finished
<1> QED
  BY <1>1, <1>2, <1>3 DEF RowsStep, RowInv

(* Steps that leave the table alone. *)
LEMMA RowsUnchanged ==
  ASSUME IInv, decided \subseteq decided', UNCHANGED <<row, ledger>>
  PROVE  RowsStep
<1>1. ASSUME NEW d \in Deliveries
      PROVE  Update(d)
  <2>1. row[d].lease_epoch \in Nat
    BY DEF IInv, TypeOK, Rows
  <2> QED
    BY <2>1 DEF Update
<1> QED
  BY <1>1, RowsUpdated

(* A claim that still holds its row names that row's place in the ledger. *)
LEMMA HeldRow ==
  ASSUME IInv, NEW w \in Workers, Busy(w), Holds(worker[w].claim)
  PROVE  LET d == worker[w].claim.delivery_id IN
         /\ d \in Deliveries
         /\ row[d].state = "leased"
         /\ row[d].sequence = worker[w].claim.sequence
<1> DEFINE c == worker[w].claim
<1>1. ClaimOK(w)
  BY DEF IInv, ClaimInv
<1>2. c.delivery_id \in Deliveries /\ c.lease_id = <<c.sequence, c.lease_epoch>>
  BY <1>1 DEF ClaimOK, Claims
<1>3. RowOK(c.delivery_id) /\ row[c.delivery_id].state = "leased"
      /\ row[c.delivery_id].lease_id = c.lease_id
  BY <1>2 DEF IInv, RowInv, Holds
<1>4. row[c.delivery_id].lease_id
        = <<row[c.delivery_id].sequence, row[c.delivery_id].lease_epoch>>
  BY <1>3 DEF RowOK
<1> QED
  BY <1>2, <1>3, <1>4

(* The passing of time. *)
LEMMA RowsTick ==
  ASSUME IInv, Tick
  PROVE  RowsStep
<1>1. ASSUME NEW d \in Deliveries
      PROVE  Update(d)
  <2>1. row[d] \in Rows
    BY DEF IInv, TypeOK
  <2>2. row'[d] = [row[d] EXCEPT !.timer = Elapse(row[d].timer)]
    BY DEF Tick, RowsElapsed
  <2> QED
    BY <2>1, <2>2 DEF Update, Rows
<1> QED
  BY <1>1, RowsUpdated DEF Tick, history

(* retry_dead requeues the dead letters. *)
LEMMA RowsRequeue ==
  ASSUME IInv, NEW h \in Holders, NEW e \in 0..MaxRevision, RetryDeadLetters(h, e)
  PROVE  RowsStep
<1>1. ASSUME NEW d \in Deliveries
      PROVE  Update(d)
  <2>1. row[d] \in Rows /\ RowOK(d)
    BY DEF IInv, TypeOK, RowInv
  <2>2. CASE row[d].state = "dead"
    <3>1. row'[d] = [row[d] EXCEPT !.state = "queued", !.attempts = 0, !.timer = 0]
      BY <2>2 DEF RetryDeadLetters, RetryDead
    <3> QED
      BY <2>1, <2>2, <3>1 DEF Update, Rows, Unconfirmed, RowOK
  <2>3. CASE row[d].state # "dead"
    <3>1. row'[d] = row[d]
      BY <2>3 DEF RetryDeadLetters, RetryDead
    <3> QED
      BY <2>1, <3>1 DEF Update, Rows
  <2> QED
    BY <2>2, <2>3
<1> QED
  BY <1>1, RowsUpdated DEF RetryDeadLetters, RetryDead, history

(* _finish_sync ends a lease: a row leaves the unconfirmed states only for *)
(* an event that Navigator decided.                                        *)
LEMMA RowsFinish ==
  ASSUME IInv, NEW w \in Workers, MarkFinished(w)
  PROVE  RowsStep
<1> DEFINE c == worker[w].claim
           d0 == c.delivery_id
<1>1. Busy(w) /\ ClaimOK(w) /\ decided' = decided /\ ledger' = ledger
  BY DEF MarkFinished, Busy, IInv, ClaimInv, history, Finish
<1>2. PICK s \in {"delivered", "rejected", "dead"} :
        Finish(c, s) /\ (s \in Finished => c.sequence \in decided)
  BY <1>1 DEF MarkFinished, ClaimOK, Finished
<1>3. ASSUME NEW d \in Deliveries
      PROVE  Update(d)
  <2>1. row[d] \in Rows
    BY DEF IInv, TypeOK
  <2>2. CASE row'[d] = row[d]
    BY <2>1, <2>2 DEF Update, Rows
  <2>3. CASE Holds(c) /\ d = d0
    <3>1. row[d].state = "leased" /\ row[d].sequence = c.sequence
      BY <1>1, <2>3, HeldRow
    <3>2. row \in [Deliveries -> Rows]
      BY DEF IInv, TypeOK
    <3>3. row'[d] = [row[d] EXCEPT !.state = s,
                       !.body = IF s \in Finished THEN NoBody ELSE row[d].body,
                       !.lease_id = NoLease, !.timer = Retention(s)]
      BY <1>2, <2>3, <3>2 DEF Finish
    <3> HIDE DEF c, d0
    <3> QED
      BY <1>1, <1>2, <2>1, <3>1, <3>3 DEF Update, Rows, Unconfirmed, Finished
  <2>4. CASE ~(Holds(c) /\ d = d0)
    <3>1. row \in [Deliveries -> Rows]
      BY DEF IInv, TypeOK
    <3>2. row'[d] = row[d]
      BY <1>2, <2>4, <3>1 DEF Finish
    <3> QED
      BY <2>2, <3>2
  <2> QED
    BY <2>3, <2>4
<1> QED
  BY <1>1, <1>3, RowsUpdated

(* _retry_sync returns the row to the queue. *)
LEMMA RowsRetry ==
  ASSUME IInv, NEW w \in Workers, NEW r \in 0..MaxRetryDelay, MarkRetry(w, r)
  PROVE  RowsStep
<1> DEFINE c == worker[w].claim
           d0 == c.delivery_id
<1>1. Busy(w) /\ decided' = decided /\ ledger' = ledger /\ Retry(c, r)
  BY DEF MarkRetry, Busy, history, Retry
<1>2. row \in [Deliveries -> Rows]
  BY DEF IInv, TypeOK
<1>3. ASSUME NEW d \in Deliveries
      PROVE  Update(d)
  <2>1. CASE Holds(c) /\ d = d0
    <3>1. row[d].state = "leased"
      BY <1>1, <2>1, HeldRow
    <3>2. row'[d] = [row[d] EXCEPT !.state = "queued", !.lease_id = NoLease,
                       !.timer = RetryDelay(c.attempt, r)]
      BY <1>1, <1>2, <2>1 DEF Retry
    <3> HIDE DEF c, d0
    <3> QED
      BY <1>2, <3>1, <3>2 DEF Update, Rows, Unconfirmed
  <2>2. CASE ~(Holds(c) /\ d = d0)
    <3>1. row'[d] = row[d]
      BY <1>1, <1>2, <2>2 DEF Retry
    <3> QED
      BY <1>2, <3>1 DEF Update, Rows
  <2> QED
    BY <2>1, <2>2
<1> QED
  BY <1>1, <1>3, RowsUpdated

(* claim_next leases one row under a new epoch. *)
LEMMA RowsClaim ==
  ASSUME IInv, NEW w \in Workers, Claim(w)
  PROVE  RowsStep
<1>1. PICK d0 \in Deliveries : ClaimNext(d0, LeaseSeconds)
  BY DEF Claim
<1>2. row \in [Deliveries -> Rows]
  BY DEF IInv, TypeOK
<1>3. ASSUME NEW d \in Deliveries
      PROVE  Update(d)
  <2>1. CASE d = d0
    <3>1. row[d].state \in Unconfirmed
      BY <1>1, <2>1 DEF ClaimNext, IsNext, Claimable, Due, Unconfirmed
    <3>2. row'[d] = [row[d] EXCEPT !.state = "leased", !.attempts = ClaimOf(d).attempt,
                       !.lease_id = ClaimOf(d).lease_id,
                       !.lease_epoch = ClaimOf(d).lease_epoch, !.timer = LeaseSeconds]
      BY <1>1, <1>2, <2>1 DEF ClaimNext
    <3>3. /\ ClaimOf(d).lease_id = <<row[d].sequence, row[d].lease_epoch + 1>>
          /\ ClaimOf(d).lease_epoch = row[d].lease_epoch + 1
      BY DEF ClaimOf
    <3> QED
      BY <1>2, <3>1, <3>2, <3>3 DEF Update, Rows
  <2>2. CASE d # d0
    <3>1. row'[d] = row[d]
      BY <1>1, <1>2, <2>2 DEF ClaimNext
    <3> QED
      BY <1>2, <3>1 DEF Update, Rows
  <2> QED
    BY <2>1, <2>2
<1> QED
  BY <1>1, <1>3, RowsUpdated DEF Claim, ClaimNext, history
(* enqueue: the purge removes only decided rows, and a new row takes a     *)
(* place no row has had.                                                   *)
LEMMA RowsEnqueue ==
  ASSUME IInv, NEW d0 \in Deliveries, NEW b \in Bodies, Accept(d0, b)
  PROVE  RowsStep
<1>1. row \in [Deliveries -> Rows] /\ ledger \in Seq(Entries)
  BY DEF IInv, TypeOK
<1>2. /\ decided' = decided /\ Len(ledger) \in Nat /\ DOMAIN ledger = 1..Len(ledger)
      /\ 0 \notin DOMAIN ledger /\ Len(ledger) + 1 \notin DOMAIN ledger
  BY <1>1 DEF Accept
<1>3. Grows
  BY <1>2 DEF Accept, Enqueue, EnqueueNew, EnqueueDuplicate, Grows, Entries
<1>4. ASSUME NEW d \in Deliveries, row'[d] = row[d]
      PROVE  Steady(d) /\ RowOK(d)'
  <2>1. RowOK(d) /\ TypeOK /\ row[d].lease_epoch \in Nat
    BY DEF IInv, RowInv, TypeOK, Rows
  <2>2. Steady(d)
    BY <1>4, <2>1 DEF Steady
  <2>3. row[d].sequence \in DOMAIN ledger
          => row[d].sequence \in DOMAIN ledger' /\ ledger'[row[d].sequence] = ledger[row[d].sequence]
    BY <1>3, <2>1, LedgerGrows
  <2>4. RowOK(d)'
    BY <1>2, <1>4, <2>1, <2>3 DEF RowOK
  <2> QED
    BY <2>2, <2>4
<1>5. ASSUME NEW d \in Deliveries, row'[d] = NoRow, row[d].state \notin Unconfirmed
      PROVE  Steady(d) /\ RowOK(d)'
  BY <1>2, <1>5 DEF Steady, RowOK, NoRow, Unconfirmed, Finished
<1>6. ASSUME NEW d \in Deliveries
      PROVE  /\ \/ PurgeExpired[d] = row[d]
                \/ PurgeExpired[d] = NoRow /\ row[d].state \notin Unconfirmed
             /\ PurgeExpired[d].state = "absent" => row[d].state \notin Unconfirmed
  BY DEF PurgeExpired, Unconfirmed, Finished
<1>7. CASE EnqueueDuplicate(d0, b)
  <2>1. \A d \in Deliveries : row'[d] = PurgeExpired[d]
    BY <1>7 DEF EnqueueDuplicate
  <2> QED
    BY <1>3, <1>4, <1>5, <1>6, <2>1 DEF RowsStep, RowInv
<1>8. CASE EnqueueNew(d0, b)
  <2> DEFINE n == [NoRow EXCEPT !.state = "queued", !.sequence = Len(ledger) + 1,
                                !.body_sha256 = b, !.body = b]
  <2>1. /\ row'[d0] = n /\ row[d0].state \notin Unconfirmed
        /\ \A d \in Deliveries : d # d0 => row'[d] = PurgeExpired[d]
    BY <1>6, <1>8 DEF EnqueueNew, PurgeExpired
  <2>2. /\ n.state = "queued" /\ n.sequence = Len(ledger) + 1 /\ n.body_sha256 = b
        /\ n.body = b /\ n.lease_id = NoLease
    BY DEF NoRow
  <2>3. ledger' = Append(ledger, [delivery_id |-> d0, body |-> b])
    BY <1>8 DEF EnqueueNew
  <2>4. /\ Len(ledger) + 1 \in DOMAIN ledger'
        /\ ledger'[Len(ledger) + 1] = [delivery_id |-> d0, body |-> b]
    <3>1. [delivery_id |-> d0, body |-> b] \in Entries
      BY DEF Entries
    <3> QED
      BY <1>1, <2>3, <3>1
  <2> HIDE DEF n
  <2>5. Steady(d0)
    BY <1>2, <2>1, <2>2 DEF Steady
  <2>6. RowOK(d0)'
    BY <2>1, <2>2, <2>4 DEF RowOK, Finished, Unconfirmed
  <2> QED
    BY <1>3, <1>4, <1>5, <1>6, <2>1, <2>5, <2>6 DEF RowsStep, RowInv
<1> QED
  BY <1>7, <1>8 DEF Accept, Enqueue

-----------------------------------------------------------------------------
(* The inductive invariant. *)

(* The empty spool with no process running satisfies the inductive invariant. *)
LEMMA InitIInv == Init => IInv
<1> SUFFICES ASSUME Init PROVE IInv
  OBVIOUS
<1> USE DEF Init, InitSpool
<1>1. TypeOK
  <2>1. NoRow \in Rows
    BY DEF NoRow, Rows, NoLease, LeaseIds
  <2>2. gate \in Gates
    BY DEF Gates
  <2>3. Down \in Loops
    BY DEF Down, Idle, Loops, PCs
  <2> QED
    BY <2>1, <2>2, <2>3 DEF TypeOK
<1>2. RowInv
  BY DEF RowInv, RowOK, NoRow, Finished, Unconfirmed
<1>3. LedgerInv /\ AckInv /\ OrderInv
  BY DEF LedgerInv, AckInv, OrderInv, ThreadOrder
<1>4. \A w \in Workers : ~Busy(w)
  BY DEF Busy, Down, Idle
<1> QED
  BY <1>1, <1>2, <1>3, <1>4 DEF IInv, ClaimInv, DistinctClaims

(* What claim_next leases is the oldest undecided event of its thread. *)
LEMMA ClaimedFirst ==
  ASSUME IInv, NEW d \in Deliveries, IsNext(d)
  PROVE  /\ row[d].sequence \in DOMAIN ledger
         /\ ledger[row[d].sequence].delivery_id = d
         /\ PriorDecided(row[d].sequence)
<1>1. RowOK(d) /\ row[d].state # "absent" /\ ~Blocked(d)
  BY DEF IInv, RowInv, IsNext, Claimable, Due
<1>2. row[d].sequence \in DOMAIN ledger /\ ledger[row[d].sequence].delivery_id = d
  BY <1>1 DEF RowOK
<1>3. ASSUME NEW i \in DOMAIN ledger, i < row[d].sequence, SameThread(i, row[d].sequence)
      PROVE  i \in decided
  <2> DEFINE p == ledger[i].delivery_id
  <2>1. ledger[i] \in Entries
    BY DEF IInv, TypeOK
  <2>2. p \in Deliveries /\ ThreadOf[p] = ThreadOf[d]
    BY <1>2, <1>3, <2>1 DEF SameThread, Entries
  <2>3. Kept(i)
    BY DEF IInv, LedgerInv
  <2> QED
    BY <1>1, <1>3, <2>2, <2>3 DEF Kept, Blocked
<1> QED
  BY <1>2, <1>3 DEF PriorDecided

(* The step of claim_next: its lease is none that a process still holds.   *)
LEMMA ClaimsOnClaim ==
  ASSUME IInv, TypeOK', NEW w \in Workers, Claim(w)
  PROVE  ClaimInv' /\ DistinctClaims'
<1>1. RowsStep
  BY RowsClaim
<1>2. PICK d \in Deliveries :
        /\ ClaimNext(d, LeaseSeconds)
        /\ worker' = [worker EXCEPT ![w] =
                        [worker[w] EXCEPT !.pc = "claimed", !.claim = ClaimOf(d),
                                  !.left = IF Timely THEN StartSlack ELSE 0]]
  BY DEF Claim
<1>3. worker \in [Workers -> Loops] /\ row \in [Deliveries -> Rows] /\ row[d] \in Rows
  BY DEF IInv, TypeOK
<1>4. worker'[w].pc = "claimed" /\ worker'[w].claim = ClaimOf(d)
  BY <1>2, <1>3 DEF Loops
<1>5. ASSUME NEW v \in Workers, v # w
      PROVE  worker'[v] = worker[v]
  BY <1>2, <1>3, <1>5
<1>6. /\ row[d].sequence \in DOMAIN ledger /\ ledger[row[d].sequence].delivery_id = d
      /\ PriorDecided(row[d].sequence)
  BY <1>2, ClaimedFirst DEF ClaimNext
<1>7. row[d].lease_epoch \in Nat /\ row[d].sequence \in Nat
  BY <1>3 DEF Rows
<1>8. ClaimOf(d) \in Claims
  <2>1. row[d].state \in Unconfirmed
    BY <1>2 DEF ClaimNext, IsNext, Claimable, Due, Unconfirmed
  <2> QED
    BY <2>1, ClaimOfTyped DEF IInv
<1>9. /\ ClaimOf(d).delivery_id = d /\ ClaimOf(d).sequence = row[d].sequence
      /\ ClaimOf(d).lease_epoch = row[d].lease_epoch + 1
      /\ ClaimOf(d).lease_id = <<row[d].sequence, row[d].lease_epoch + 1>>
  BY DEF ClaimOf
<1>10. ClaimOK(w)'
  <2>1. \A j \in DOMAIN ledger : PriorDecided(j) => PriorDecided(j)'
    BY <1>1, PriorStaysDecided DEF IInv, RowsStep
  <2>2. row'[d].lease_epoch = row[d].lease_epoch + 1 /\ ledger' = ledger
    <3>1. row'[d] = [row[d] EXCEPT !.state = "leased", !.attempts = ClaimOf(d).attempt,
                       !.lease_id = ClaimOf(d).lease_id,
                       !.lease_epoch = ClaimOf(d).lease_epoch, !.timer = LeaseSeconds]
      BY <1>2, <1>3 DEF ClaimNext
    <3> QED
      BY <1>2, <1>3, <1>9, <3>1 DEF ClaimNext, Rows
  <2>3. PriorDecided(worker[w].claim.sequence)'
    BY <1>4, <1>6, <1>9, <2>1 DEF PriorDecided, SameThread
  <2> QED
    BY <1>4, <1>6, <1>7, <1>8, <1>9, <2>2, <2>3 DEF ClaimOK
<1>11. ASSUME NEW v \in Workers, v # w, Busy(v)'
       PROVE  Busy(v) /\ ClaimOK(v)' /\ worker[v].claim.lease_id # ClaimOf(d).lease_id
  <2>1. Busy(v) /\ ClaimOK(v)
    BY <1>5, <1>11 DEF Busy, IInv, ClaimInv
  <2>2. ClaimOK(v)'
    <3>1. decided' = decided
      BY DEF Claim, history
    <3> QED
      BY <1>1, <1>5, <1>11, <2>1, <3>1, ClaimStaysOK DEF RowsStep, ClaimOK
  <2>3. worker[v].claim.lease_id # ClaimOf(d).lease_id
    <3>1. SUFFICES ASSUME worker[v].claim.lease_id = ClaimOf(d).lease_id
                   PROVE  FALSE
      OBVIOUS
    <3>2. /\ worker[v].claim.sequence = row[d].sequence
          /\ worker[v].claim.lease_epoch = row[d].lease_epoch + 1
      BY <1>9, <2>1, <3>1 DEF ClaimOK
    <3>3. worker[v].claim.delivery_id = d
      BY <1>6, <2>1, <3>2 DEF ClaimOK
    <3>4. worker[v].claim.lease_epoch <= row[d].lease_epoch
      BY <2>1, <3>2, <3>3 DEF ClaimOK
    <3> QED
      BY <1>7, <3>2, <3>4
  <2> QED
    BY <2>1, <2>2, <2>3
<1>12. ClaimInv'
  BY <1>10, <1>11 DEF ClaimInv
<1>13. DistinctClaims'
  BY <1>4, <1>5, <1>11 DEF IInv, DistinctClaims
<1> QED
  BY <1>12, <1>13

(* The conjuncts that only concern the ledger, for a step that appends     *)
(* nothing and submits at most one event whose predecessors are decided.   *)
LEMMA LedgerFrame ==
  ASSUME IInv, RowsStep, ledger' = ledger, acked' = acked,
         \A j \in submitted' : \/ j \in submitted
                               \/ j \in DOMAIN ledger /\ PriorDecided(j)
  PROVE  LedgerInv' /\ AckInv' /\ OrderInv'
<1>1. LedgerInv'
  BY EntriesStayKept DEF LedgerInv, RowsStep
<1>2. AckInv'
  BY DEF IInv, AckInv
<1>3. ASSUME NEW j \in submitted'
      PROVE  j \in DOMAIN ledger' /\ PriorDecided(j)'
  <2>1. j \in DOMAIN ledger /\ PriorDecided(j)
    BY <1>3 DEF IInv, OrderInv, ThreadOrder
  <2> QED
    BY <2>1, PriorStaysDecided DEF IInv, RowsStep
<1> QED
  BY <1>1, <1>2, <1>3 DEF OrderInv, ThreadOrder

(* An accepted event. *)
LEMMA IInvAccept ==
  ASSUME IInv, NEW d \in Deliveries, NEW b \in Bodies, Accept(d, b)
  PROVE  IInv'
<1>1. TypeOK' /\ RowsStep
  BY TypeEnqueue, RowsEnqueue
<1>2. Grows /\ TypeOK /\ decided' = decided /\ submitted' = submitted /\ worker' = worker
  BY <1>1 DEF RowsStep, IInv, Accept
<1>3. ClaimInv' /\ DistinctClaims'
  <2>1. ASSUME NEW w \in Workers, Busy(w)'
        PROVE  /\ Busy(w)
               /\ worker'[w].claim = worker[w].claim
               /\ worker'[w].pc = "answered"
                    => /\ worker'[w].answer \in Answers
                       /\ worker'[w].answer \in {"accepted", "terminal_rejection"}
                            => worker[w].claim.sequence \in decided'
    BY <1>2, <2>1 DEF Busy, IInv, ClaimInv, ClaimOK
  <2> QED
    BY <1>1, <2>1, ClaimsCarried DEF RowsStep
<1>4. OrderInv'
  <2>1. ASSUME NEW j \in submitted
        PROVE  j \in DOMAIN ledger' /\ PriorDecided(j)'
    <3>1. j \in DOMAIN ledger /\ PriorDecided(j)
      BY DEF IInv, OrderInv, ThreadOrder
    <3> QED
      BY <1>2, <3>1, PriorStaysDecided, LedgerGrows
  <2> QED
    BY <1>2, <2>1 DEF OrderInv, ThreadOrder
<1>5. CASE EnqueueDuplicate(d, b)
  <2>1. ledger' = ledger
    BY <1>5 DEF EnqueueDuplicate
  <2>2. LedgerInv'
    BY <1>1, <2>1, EntriesStayKept DEF LedgerInv, RowsStep
  <2>3. ledger[row[d].sequence] = [delivery_id |-> d, body |-> b]
        /\ row[d].sequence \in DOMAIN ledger
    <3>1. row[d].state # "absent" /\ row[d].body_sha256 = b
      BY <1>5 DEF EnqueueDuplicate, PurgeExpired, NoRow
    <3> QED
      BY <3>1 DEF IInv, RowInv, RowOK
  <2>4. AckInv'
    BY <2>1, <2>3 DEF Accept, IInv, AckInv
  <2> QED
    BY <1>1, <1>3, <1>4, <2>2, <2>4 DEF IInv, RowsStep
<1>6. CASE EnqueueNew(d, b)
  <2> DEFINE e == [delivery_id |-> d, body |-> b]
  <2>0. PICK n \in Nat : n = Len(ledger) + 1
    BY <1>2 DEF TypeOK
  <2>1. /\ n \in DOMAIN ledger' /\ ledger'[n] = e
        /\ \A i \in DOMAIN ledger' : i \in DOMAIN ledger \/ i = n
    <3>1. ledger' = Append(ledger, e) /\ e \in Entries /\ ledger \in Seq(Entries)
      BY <1>2, <1>6 DEF EnqueueNew, Entries, TypeOK
    <3> HIDE DEF e
    <3> QED
      BY <2>0, <3>1
  <2>2. row'[d] = [NoRow EXCEPT !.state = "queued", !.sequence = n,
                                !.body_sha256 = b, !.body = b]
    BY <1>6, <2>0 DEF EnqueueNew, PurgeExpired
  <2>3. row'[d].state = "queued" /\ row'[d].sequence = n /\ row'[d].body = b
    BY <2>2 DEF NoRow
  <2>4. Kept(n)'
    <3>1. ledger'[n].delivery_id = d /\ ledger'[n].body = b
      BY <2>1
    <3> QED
      BY <2>1, <2>3, <3>1 DEF Kept, Unconfirmed
  <2>5. LedgerInv'
    BY <1>1, <2>1, <2>4, EntriesStayKept DEF LedgerInv, RowsStep
  <2>6. AckInv'
    BY <1>2, <2>1, LedgerGrows DEF Accept, IInv, AckInv
  <2> QED
    BY <1>1, <1>3, <1>4, <2>5, <2>6 DEF IInv, RowsStep
<1> QED
  BY <1>5, <1>6 DEF Accept, Enqueue

(* Everything but an accepted event, once the claims are seen to. *)
LEMMA IInvFrame ==
  ASSUME IInv, TypeOK', RowsStep, ClaimInv', DistinctClaims',
         ledger' = ledger, acked' = acked, submitted' = submitted
  PROVE  IInv'
BY LedgerFrame DEF IInv, RowsStep

(* A step of the delivery loop of one process, or the end of that process. *)
LEMMA IInvLoop ==
  ASSUME IInv, NEW w \in Workers,
         Start(w) \/ Close(w) \/ StopLoop(w) \/ Crash(w) \/ StateError(w) \/ Loop(w)
  PROVE  IInv'
<1>1. TypeOK' /\ worker \in [Workers -> Loops] /\ worker[w] \in Loops
  BY TypeLoop DEF IInv, TypeOK
<1> DEFINE Carried(v) ==
       Busy(v)' =>
         /\ Busy(v)
         /\ worker'[v].claim = worker[v].claim
         /\ worker'[v].pc = "answered"
              => /\ worker'[v].answer \in Answers
                 /\ worker'[v].answer \in {"accepted", "terminal_rejection"}
                      => worker[v].claim.sequence \in decided'
<1>2. ASSUME NEW v \in Workers, worker'[v] = worker[v], decided \subseteq decided'
      PROVE  Carried(v)
  BY <1>2 DEF Busy, IInv, ClaimInv, ClaimOK
<1>3. ASSUME RowsStep, \A v \in Workers : Carried(v)
      PROVE  ClaimInv' /\ DistinctClaims'
  BY <1>1, <1>3, ClaimsCarried DEF RowsStep
<1>4. ASSUME \/ Start(w) \/ Close(w) \/ StopLoop(w) \/ Crash(w) \/ StateError(w)
             \/ CheckPaused(w) \/ ClaimNothing(w)
      PROVE  IInv'
  <2>1. UNCHANGED <<row, ledger, acked, submitted, decided>>
    BY <1>4 DEF Start, Close, StopLoop, Crash, StateError, CheckPaused, ClaimNothing, history
  <2>2. RowsStep
    BY <2>1, RowsUnchanged
  <2>3. \A v \in Workers \ {w} : worker'[v] = worker[v]
    BY <1>1, <1>4 DEF Start, Close, StopLoop, Crash, StateError, CheckPaused, ClaimNothing, EndForward
  <2>4. Carried(w)
    <3>1. CASE Close(w)
      <4>1. worker'[w] = [worker[w] EXCEPT !.stopping = TRUE]
        BY <1>1, <3>1 DEF Close
      <4> QED
        BY <1>1, <2>1, <4>1 DEF Loops, Busy, IInv, ClaimInv, ClaimOK
    <3>2. CASE ~Close(w)
      <4>1. worker'[w].pc \in {"down", "polling", "claiming"}
        BY <1>1, <1>4, <3>2 DEF Start, StopLoop, Crash, StateError, CheckPaused, ClaimNothing,
                                EndForward, Idle, Down, Loops
      <4> QED
        BY <4>1 DEF Busy
    <3> QED
      BY <3>1, <3>2
  <2>5. \A v \in Workers : Carried(v)
    BY <1>2, <2>1, <2>3, <2>4
  <2> QED
    BY <1>1, <1>3, <2>1, <2>2, <2>5, IInvFrame
<1>5. CASE Claim(w)
  BY <1>1, <1>5, RowsClaim, ClaimsOnClaim, IInvFrame DEF Claim, ClaimNext, history
<1>6. CASE Submit(w)
  <2>1. /\ UNCHANGED <<row, ledger, acked, decided>>
        /\ worker' = [worker EXCEPT ![w] =
                        [worker[w] EXCEPT !.pc = "submitting",
                                  !.left = IF Timely THEN Timeout ELSE 0]]
        /\ submitted' = submitted \cup {worker[w].claim.sequence}
        /\ Busy(w)
    BY <1>6 DEF Submit, Busy
  <2>2. RowsStep
    BY <2>1, RowsUnchanged
  <2>3. ASSUME NEW v \in Workers
        PROVE  Carried(v)
    <3>1. CASE v = w
      BY <1>1, <2>1, <3>1 DEF Busy, Loops
    <3>2. CASE v # w
      BY <1>1, <1>2, <2>1, <3>2
    <3> QED
      BY <3>1, <3>2
  <2>4. worker[w].claim.sequence \in DOMAIN ledger /\ PriorDecided(worker[w].claim.sequence)
    BY <2>1 DEF IInv, ClaimInv, ClaimOK
  <2>5. LedgerInv' /\ AckInv' /\ OrderInv'
    BY <2>1, <2>2, <2>4, LedgerFrame
  <2> QED
    BY <1>1, <1>3, <2>2, <2>3, <2>5 DEF IInv, RowsStep
<1>7. ASSUME NEW a \in Answers, Decide(w, a) \/ FailToDecide(w, a)
      PROVE  IInv'
  <2>1. /\ UNCHANGED <<row, ledger, acked, submitted>>
        /\ decided \subseteq decided'
        /\ a \in {"accepted", "terminal_rejection"} => worker[w].claim.sequence \in decided'
        /\ worker' = [worker EXCEPT ![w] =
                        [worker[w] EXCEPT !.pc = "answered", !.answer = a, !.left = 0]]
        /\ Busy(w)
    BY <1>7 DEF Decide, FailToDecide, Answer, Busy, history
  <2>2. RowsStep
    BY <2>1, RowsUnchanged
  <2>3. ASSUME NEW v \in Workers
        PROVE  Carried(v)
    <3>1. CASE v = w
      BY <1>1, <2>1, <3>1 DEF Busy, Loops
    <3>2. CASE v # w
      BY <1>1, <1>2, <2>1, <3>2
    <3> QED
      BY <3>1, <3>2
  <2> QED
    BY <1>1, <1>3, <2>1, <2>2, <2>3, IInvFrame
<1>8. ASSUME MarkFinished(w) \/ \E r \in 0..MaxRetryDelay : MarkRetry(w, r)
      PROVE  IInv'
  <2>1. /\ UNCHANGED <<ledger, acked, submitted, decided>>
        /\ worker' = [worker EXCEPT ![w] = Idle(worker[w].stopping)]
    BY <1>8 DEF MarkFinished, MarkRetry, Finish, Retry, EndForward, history
  <2>2. RowsStep
    BY <1>8, RowsFinish, RowsRetry
  <2>3. ASSUME NEW v \in Workers
        PROVE  Carried(v)
    <3>1. CASE v = w
      BY <1>1, <2>1, <3>1 DEF Busy, Idle
    <3>2. CASE v # w
      BY <1>1, <1>2, <2>1, <3>2
    <3> QED
      BY <3>1, <3>2
  <2> QED
    BY <1>1, <1>3, <2>1, <2>2, <2>3, IInvFrame
<1> QED
  BY <1>4, <1>5, <1>6, <1>7, <1>8 DEF Loop

(* A step of the owner's administration or of the clock. *)
LEMMA IInvAdmin ==
  ASSUME IInv,
         \/ \E w \in Workers : Waiting(w) \/ PauseTimesOut(w)
         \/ \E h \in Holders, e \in 0..MaxRevision : Admin(h, e)
         \/ Tick
  PROVE  IInv'
<1>1. TypeOK' /\ worker \in [Workers -> Loops]
  BY TypeAdmin DEF IInv, TypeOK
<1>2. UNCHANGED <<ledger, acked, submitted, decided>>
  BY DEF Waiting, SeeIdle, ReportDrained, KeepWaiting, PauseTimesOut, Admin, PauseAndWait,
         Pause, ResumeDelivery, Resume, RetryDeadLetters, RetryDead, Tick, history
<1>3. RowsStep
  <2>1. CASE Tick
    BY <2>1, RowsTick
  <2>2. CASE \E h \in Holders, e \in 0..MaxRevision : RetryDeadLetters(h, e)
    BY <2>2, RowsRequeue
  <2>3. CASE row' = row
    BY <1>2, <2>3, RowsUnchanged
  <2> QED
    BY <2>1, <2>2, <2>3 DEF Waiting, SeeIdle, ReportDrained, KeepWaiting, PauseTimesOut, Admin,
         PauseAndWait, Pause, ResumeDelivery, Resume
<1>4. ASSUME NEW w \in Workers
      PROVE  /\ worker'[w].pc = worker[w].pc /\ worker'[w].claim = worker[w].claim
             /\ worker'[w].answer = worker[w].answer
  <2>1. CASE Tick
    <3>1. worker'[w] = [worker[w] EXCEPT !.left = Elapse(worker[w].left)]
      BY <2>1 DEF Tick
    <3>2. worker[w] \in Loops
      BY <1>1
    <3> QED
      BY <3>1, <3>2 DEF Loops
  <2>2. CASE ~Tick
    BY <2>2 DEF Waiting, SeeIdle, ReportDrained, KeepWaiting, PauseTimesOut, Admin,
         PauseAndWait, ResumeDelivery, RetryDeadLetters
  <2> QED
    BY <2>1, <2>2
<1>5. ASSUME NEW w \in Workers, Busy(w)'
      PROVE  /\ Busy(w)
             /\ worker'[w].claim = worker[w].claim
             /\ worker'[w].pc = "answered"
                  => /\ worker'[w].answer \in Answers
                     /\ worker'[w].answer \in {"accepted", "terminal_rejection"}
                          => worker[w].claim.sequence \in decided'
  BY <1>2, <1>4, <1>5 DEF Busy, IInv, ClaimInv, ClaimOK
<1>6. ClaimInv' /\ DistinctClaims'
  BY <1>1, <1>3, <1>5, ClaimsCarried DEF RowsStep
<1> QED
  BY <1>1, <1>2, <1>3, <1>6, IInvFrame

(* The strengthened invariant is inductive. *)
LEMMA IInvStep == IInv /\ [Next]_vars => IInv'
<1> SUFFICES ASSUME IInv, [Next]_vars PROVE IInv'
  OBVIOUS
<1>1. CASE UNCHANGED vars
  BY <1>1 DEF vars, IInv, TypeOK, RowInv, RowOK, LedgerInv, Kept, AckInv, ClaimInv, ClaimOK,
     Busy, DistinctClaims, OrderInv, ThreadOrder, PriorDecided, SameThread
<1>2. CASE Next
  BY <1>2, IInvAccept, IInvLoop, IInvAdmin DEF Next
<1> QED
  BY <1>1, <1>2

(* It holds in every reachable state. *)
THEOREM InductiveInvariant == Spec => []IInv
BY InitIInv, IInvStep, PTL DEF Spec

(* Type correctness of the database rows, the gate and the processes. *)
THEOREM SpoolTypes == Spec => []TypeOK
<1>1. IInv => TypeOK
  BY DEF IInv
<1> QED
  BY <1>1, InductiveInvariant, PTL

(* The ACK boundary of enqueue: an accepted event is never lost, for any   *)
(* number of processes, crashes, stalls and redeliveries.                  *)
THEOREM AcceptedNeverLost == Spec => []NoLoss
<1>1. IInv => NoLoss
  BY DEF IInv, NoLoss, AckInv, LedgerInv
<1> QED
  BY <1>1, InductiveInvariant, PTL

(* The NOT EXISTS of claim_next keeps the replies of a thread in order.    *)
THEOREM RepliesInThreadOrder == Spec => []ThreadOrder
<1>1. IInv => ThreadOrder
  BY DEF IInv, OrderInv
<1> QED
  BY <1>1, InductiveInvariant, PTL

(* The lease fence: two processes never both hold a delivery.              *)
THEOREM LeasesFence == Spec => []SingleHolder
<1>1. IInv => SingleHolder
  BY DEF IInv, DistinctClaims, SingleHolder, Holds
<1> QED
  BY <1>1, InductiveInvariant, PTL

(* No UPDATE of the spool trips a CHECK constraint of its schema. *)
THEOREM SchemaHolds == Spec => []SchemaChecks
<1>1. IInv => SchemaChecks
  <2> SUFFICES ASSUME IInv, NEW d \in Deliveries, row[d].state # "absent"
               PROVE  /\ row[d].state = "leased" <=> row[d].lease_id # NoLease
                      /\ row[d].state \in Unconfirmed <=> row[d].body # NoBody
    BY DEF SchemaChecks, Stored
  <2>1. RowOK(d) /\ TypeOK /\ RowInv /\ row[d] \in Rows
    BY DEF IInv, RowInv, TypeOK
  <2>2. row[d].sequence \in DOMAIN ledger /\ row[d].sequence # 0
    <3>1. row[d].sequence \in DOMAIN ledger /\ ledger \in Seq(Entries)
      BY <2>1 DEF RowOK, TypeOK
    <3> QED
      BY <3>1
  <2>3. row[d].state = "leased" <=> row[d].lease_id # NoLease
    BY <2>1, <2>2 DEF RowOK, NoLease
  <2>4. row[d].state \in Unconfirmed => row[d].body # NoBody
    BY <2>1, UnconfirmedBody, SpoolAssumption
  <2>5. row[d].state \in Unconfirmed \cup Finished
    BY <2>1 DEF Rows, RowStates, Unconfirmed, Finished
  <2> QED
    BY <2>1, <2>3, <2>4, <2>5 DEF RowOK
<1> QED
  BY <1>1, InductiveInvariant, PTL

-----------------------------------------------------------------------------
(* The pause gate. *)

(* Every change of the gate was asked for at the revision it found. *)
FlipInv ==
  /\ Len(flips) = gate.revision
  /\ \A i \in DOMAIN flips : flips[i].expected = i - 1

(* One change of the gate keeps the record of changes in step with it. *)
LEMMA FlipAppended ==
  ASSUME TypeOK, FlipInv, NEW op \in {"pause", "resume"}, NEW h \in Holders, NEW e \in Nat,
         e = gate.revision, gate'.revision = gate.revision + 1,
         flips' = Append(flips, Request(op, h, e))
  PROVE  FlipInv'
<1>1. Request(op, h, e) \in Flips /\ Request(op, h, e).expected = e
  BY DEF Request, Flips
<1>2. flips \in Seq(Flips)
  BY DEF TypeOK
<1>3. /\ Len(flips') = Len(flips) + 1
      /\ \A i \in DOMAIN flips' :
           flips'[i] = IF i <= Len(flips) THEN flips[i] ELSE Request(op, h, e)
      /\ DOMAIN flips' = 1..(Len(flips) + 1) /\ DOMAIN flips = 1..Len(flips)
  BY <1>1, <1>2
<1> QED
  BY <1>1, <1>2, <1>3 DEF FlipInv

(* The compare-and-swap on the revision makes pause and resume requests    *)
(* safe to delay and to repeat.                                            *)
THEOREM GateReplaySafe == Spec => []ReplaySafe
<1>1. Init => FlipInv
  BY DEF Init, InitSpool, FlipInv
<1>2. TypeOK /\ FlipInv /\ [Next]_vars => FlipInv'
  <2> SUFFICES ASSUME TypeOK, FlipInv, [Next]_vars PROVE FlipInv'
    OBVIOUS
  <2>1. CASE UNCHANGED <<flips, gate>>
    BY <2>1 DEF FlipInv
  <2>2. ASSUME NEW h \in Holders, NEW e \in 0..MaxRevision, NEW w \in Workers,
               PauseAndWait(w, h, e)
        PROVE  FlipInv'
    <3>1. e \in Nat
      BY SpoolAssumption
    <3>2. CASE Pause(h, e) /\ flips' = Append(flips, Request("pause", h, e))
      BY <3>1, <3>2, FlipAppended DEF Pause, PauseApplies
    <3> QED
      BY <2>1, <2>2, <3>2 DEF PauseAndWait
  <2>3. ASSUME NEW h \in Holders, NEW e \in 0..MaxRevision, ResumeDelivery(h, e)
        PROVE  FlipInv'
    <3>1. e \in Nat
      BY SpoolAssumption
    <3> QED
      BY <2>3, <3>1, FlipAppended DEF ResumeDelivery, Resume, ResumeApplies
  <2>4. ASSUME NEW d \in Deliveries, NEW b \in Bodies, Accept(d, b)
        PROVE  FlipInv'
    BY <2>1, <2>4 DEF Accept, Enqueue, EnqueueNew, EnqueueDuplicate
  <2>5. ASSUME NEW w \in Workers,
               Start(w) \/ Close(w) \/ StopLoop(w) \/ Crash(w) \/ StateError(w)
        PROVE  FlipInv'
    BY <2>1, <2>5 DEF Start, Close, StopLoop, Crash, StateError, history
  <2>6. ASSUME NEW w \in Workers, Loop(w)
        PROVE  FlipInv'
    BY <2>1, <2>6 DEF Loop, CheckPaused, Claim, ClaimNext, ClaimNothing, Submit, Decide,
       FailToDecide, MarkFinished, Finish, MarkRetry, Retry, history
  <2>7. ASSUME NEW w \in Workers, Waiting(w) \/ PauseTimesOut(w)
        PROVE  FlipInv'
    BY <2>1, <2>7 DEF Waiting, SeeIdle, ReportDrained, KeepWaiting, PauseTimesOut, history
  <2>8. ASSUME NEW h \in Holders, NEW e \in 0..MaxRevision, RetryDeadLetters(h, e)
        PROVE  FlipInv'
    BY <2>1, <2>8 DEF RetryDeadLetters, RetryDead, history
  <2>9. CASE Tick
    BY <2>1, <2>9 DEF Tick, history
  <2> QED
    BY <2>1, <2>2, <2>3, <2>4, <2>5, <2>6, <2>7, <2>8, <2>9 DEF Next, Admin, vars
<1>3. TypeOK /\ FlipInv => ReplaySafe
  <2> SUFFICES ASSUME TypeOK, FlipInv, NEW i \in DOMAIN flips, NEW j \in DOMAIN flips,
                      flips[i] = flips[j]
               PROVE  i = j
    BY DEF ReplaySafe
  <2>1. i \in Int /\ j \in Int
    BY DEF TypeOK
  <2>2. i - 1 = flips[i].expected /\ j - 1 = flips[j].expected
    BY DEF FlipInv
  <2>3. i - 1 = j - 1
    BY <2>2, Zenon
  <2> QED
    BY <2>1, <2>3
<1> QED
  BY <1>1, <1>2, <1>3, SpoolTypes, PTL DEF Spec

-----------------------------------------------------------------------------
(* pause_and_wait. *)

(* The time a process may still take until its answer is marked: what is left *)
(* of the stage it is in, and the submission when that has not begun.         *)
Spare(w) == worker[w].left + (IF worker[w].pc = "claimed" THEN Timeout ELSE 0)

(* A process at work holds its lease, for longer than it may still take. *)
LeaseOK(w) ==
  Busy(w) => /\ Holds(worker[w].claim)
             /\ row[worker[w].claim.delivery_id].timer > Spare(w)

LeaseInv == \A w \in Workers : LeaseOK(w)

(* A pause reported as drained is one that stands or stood. *)
DrainInv == drained <= gate.revision /\ PauseDrained

(* A step keeps the lease of a process whose row it leaves alone and whose    *)
(* time it does not extend.                                                   *)
LEMMA LeaseCarried ==
  ASSUME IInv, TypeOK', LeaseInv, NEW v \in Workers,
         Busy(v)' => /\ Busy(v)
                     /\ worker'[v].claim = worker[v].claim
                     /\ row'[worker[v].claim.delivery_id] = row[worker[v].claim.delivery_id]
                     /\ Spare(v)' <= Spare(v)
  PROVE  LeaseOK(v)'
<1> SUFFICES ASSUME Busy(v)'
             PROVE  /\ Holds(worker[v].claim)'
                    /\ row'[worker'[v].claim.delivery_id].timer > Spare(v)'
  BY DEF LeaseOK
<1>1. /\ worker'[v].claim = worker[v].claim
      /\ row'[worker[v].claim.delivery_id] = row[worker[v].claim.delivery_id]
      /\ Holds(worker[v].claim)
      /\ row[worker[v].claim.delivery_id].timer > Spare(v) /\ Spare(v)' <= Spare(v)
  BY DEF LeaseInv, LeaseOK
<1>2. row[worker[v].claim.delivery_id].timer \in Nat
  <2>1. worker[v].claim.delivery_id \in Deliveries
    BY <1>1, HeldRow
  <2> QED
    BY <2>1 DEF IInv, TypeOK, Rows
<1>3. Spare(v) \in Nat /\ Spare(v)' \in Nat
  BY WorkerAssumption DEF Spare, IInv, TypeOK, Loops
<1>4. row[worker[v].claim.delivery_id].timer > Spare(v)'
  BY <1>1, <1>2, <1>3
<1> QED
  BY <1>1, <1>4 DEF Holds

(* A leased row outlives a new event; the purge takes finished rows only. *)
LEMMA LeaseAccept ==
  ASSUME IInv, TypeOK', LeaseInv, NEW d \in Deliveries, NEW b \in Bodies, Accept(d, b)
  PROVE  LeaseInv'
<1> SUFFICES ASSUME NEW v \in Workers, Busy(v) PROVE LeaseOK(v)'
  BY DEF LeaseInv, LeaseOK, Accept, Busy
<1> DEFINE e == worker[v].claim.delivery_id
<1>1. worker' = worker /\ e \in Deliveries /\ row[e].state = "leased"
  BY HeldRow DEF Accept, LeaseInv, LeaseOK
<1>2. PurgeExpired[e] = row[e] /\ PurgeExpired[e].state # "absent"
  BY <1>1 DEF PurgeExpired, Finished
<1>3. row'[e] = row[e]
  <2>1. CASE EnqueueDuplicate(d, b)
    BY <1>2, <2>1 DEF EnqueueDuplicate
  <2>2. CASE EnqueueNew(d, b)
    BY <1>1, <1>2, <2>2 DEF EnqueueNew, PurgeExpired
  <2> QED
    BY <2>1, <2>2 DEF Accept, Enqueue
<1>4. Spare(v) \in Nat /\ Spare(v)' = Spare(v)
  BY <1>1, WorkerAssumption DEF Spare, IInv, TypeOK, Loops
<1> QED
  BY <1>1, <1>3, <1>4, LeaseCarried

(* claim_next takes a row whose lease is over, so one that no timely process  *)
(* is at work on, and its lease covers the slack and the submission.          *)
LEMMA LeaseClaim ==
  ASSUME Timely, IInv, TypeOK', LeaseInv, NEW w \in Workers, Claim(w)
  PROVE  LeaseInv'
<1>1. PICK d \in Deliveries :
        /\ ClaimNext(d, LeaseSeconds)
        /\ worker' = [worker EXCEPT ![w] =
                       [worker[w] EXCEPT !.pc = "claimed", !.claim = ClaimOf(d), !.left = StartSlack]]
  BY DEF Claim
<1>2. worker \in [Workers -> Loops] /\ row \in [Deliveries -> Rows]
  BY DEF IInv, TypeOK
<1>3. ASSUME NEW v \in Workers, v # w PROVE LeaseOK(v)'
  <2>1. worker'[v] = worker[v] /\ Spare(v)' = Spare(v) /\ Spare(v) \in Nat
    BY <1>1, <1>2, <1>3, WorkerAssumption DEF Spare, Loops
  <2>2. ASSUME Busy(v)
        PROVE  row'[worker[v].claim.delivery_id] = row[worker[v].claim.delivery_id]
    <3>1. row[worker[v].claim.delivery_id].timer > Spare(v) /\ worker[v].claim.delivery_id \in Deliveries
      BY <2>2, HeldRow DEF LeaseInv, LeaseOK
    <3>2. row[d].timer = 0
      BY <1>1 DEF ClaimNext, IsNext, Claimable, Due
    <3>3. worker[v].claim.delivery_id # d
      BY <2>1, <3>1, <3>2
    <3> QED
      BY <1>1, <1>2, <3>1, <3>3 DEF ClaimNext
  <2> QED
    BY <2>1, <2>2, LeaseCarried DEF Busy
<1>4. LeaseOK(w)'
  <2>1. worker'[w].claim = ClaimOf(d) /\ worker'[w].pc = "claimed" /\ worker'[w].left = StartSlack
    BY <1>1, <1>2 DEF Loops
  <2>2. /\ row'[d].state = "leased" /\ row'[d].lease_id = ClaimOf(d).lease_id
        /\ row'[d].lease_epoch = ClaimOf(d).lease_epoch /\ row'[d].timer = LeaseSeconds
    BY <1>1, <1>2 DEF ClaimNext, Rows
  <2>3. ClaimOf(d).delivery_id = d
    BY DEF ClaimOf
  <2>4. LeaseSeconds > StartSlack + Timeout
    BY LeaseNat, WorkerAssumption
  <2> QED
    BY <2>1, <2>2, <2>3, <2>4 DEF LeaseOK, Holds, Spare
<1> QED
  BY <1>3, <1>4 DEF LeaseInv

(* A process ends its own forward; the rows of the others stay.               *)
LEMMA LeaseMark ==
  ASSUME IInv, TypeOK', LeaseInv, NEW w \in Workers,
         MarkFinished(w) \/ \E r \in 0..MaxRetryDelay : MarkRetry(w, r)
  PROVE  LeaseInv'
<1>1. /\ worker' = [worker EXCEPT ![w] = Idle(worker[w].stopping)] /\ Busy(w)
      /\ worker \in [Workers -> Loops] /\ row \in [Deliveries -> Rows]
  BY DEF MarkFinished, MarkRetry, EndForward, IInv, TypeOK, Busy
<1>2. ~Busy(w)'
  BY <1>1 DEF Busy, Idle
<1>3. ASSUME NEW v \in Workers, v # w PROVE LeaseOK(v)'
  <2>1. worker'[v] = worker[v] /\ Spare(v)' = Spare(v) /\ Spare(v) \in Nat
    BY <1>1, <1>3, WorkerAssumption DEF Spare, Loops
  <2>2. ASSUME Busy(v)
        PROVE  row'[worker[v].claim.delivery_id] = row[worker[v].claim.delivery_id]
    <3>1. worker[v].claim.delivery_id \in Deliveries /\ Holds(worker[v].claim)
      BY <2>2, HeldRow DEF LeaseInv, LeaseOK
    <3>2. worker[w].claim.delivery_id # worker[v].claim.delivery_id \/ ~Holds(worker[w].claim)
      BY <1>1, <1>3, <2>2, <3>1 DEF IInv, DistinctClaims, Holds
    <3>3. \A e \in Deliveries : e # worker[w].claim.delivery_id \/ ~Holds(worker[w].claim) => row'[e] = row[e]
      BY <1>1 DEF MarkFinished, MarkRetry, Finish, Retry
    <3> QED
      BY <3>1, <3>2, <3>3
  <2> QED
    BY <2>1, <2>2, LeaseCarried DEF Busy
<1> QED
  BY <1>2, <1>3 DEF LeaseInv, LeaseOK

(* The other steps of a process keep its row and use up its time. *)
LEMMA LeaseLoop ==
  ASSUME Timely, IInv, TypeOK', LeaseInv, NEW w \in Workers,
         Start(w) \/ Close(w) \/ StopLoop(w) \/ Crash(w) \/ StateError(w) \/ Loop(w)
  PROVE  LeaseInv'
<1>1. worker \in [Workers -> Loops] /\ worker[w] \in Loops /\ Timeout \in Nat
  BY WorkerAssumption DEF IInv, TypeOK
<1>2. \A v \in Workers : Spare(v) \in Nat
  BY <1>1 DEF Spare, Loops
<1>3. ASSUME row' = row, \A v \in Workers \ {w} : worker'[v] = worker[v],
             Busy(w)' => Busy(w) /\ worker'[w].claim = worker[w].claim /\ Spare(w)' <= Spare(w)
      PROVE  LeaseInv'
  <2>1. ASSUME NEW v \in Workers \ {w} PROVE LeaseOK(v)'
    <3>1. worker'[v] = worker[v] /\ Spare(v)' = Spare(v) /\ Spare(v) \in Nat
      BY <1>2, <1>3 DEF Spare
    <3> QED
      BY <1>3, <3>1, LeaseCarried DEF Busy
  <2>2. LeaseOK(w)'
    BY <1>3, LeaseCarried
  <2> QED
    BY <2>1, <2>2 DEF LeaseInv
<1>4. CASE Start(w) \/ StopLoop(w) \/ Crash(w) \/ StateError(w) \/ CheckPaused(w) \/ ClaimNothing(w)
  <2>1. row' = row /\ \A v \in Workers \ {w} : worker'[v] = worker[v]
    BY <1>1, <1>4 DEF Start, StopLoop, Crash, StateError, CheckPaused, ClaimNothing, EndForward
  <2>2. worker'[w].pc \in {"down", "polling", "claiming"}
    BY <1>1, <1>4 DEF Start, StopLoop, Crash, StateError, CheckPaused, ClaimNothing,
                      EndForward, Idle, Down, Loops
  <2>3. ~Busy(w)'
    BY <2>2 DEF Busy
  <2> QED
    BY <1>3, <2>1, <2>3
<1>5. CASE Close(w)
  <2>1. row' = row /\ worker' = [worker EXCEPT ![w] = [worker[w] EXCEPT !.stopping = TRUE]]
    BY <1>5 DEF Close
  <2>2. /\ worker'[w].pc = worker[w].pc /\ worker'[w].claim = worker[w].claim
        /\ worker'[w].left = worker[w].left
    BY <1>1, <2>1 DEF Loops
  <2>3. Spare(w)' = Spare(w) /\ (Busy(w)' => Busy(w))
    BY <2>2 DEF Spare, Busy
  <2> QED
    BY <1>1, <1>2, <1>3, <2>1, <2>2, <2>3
<1>6. CASE Submit(w)
  <2>1. /\ row' = row /\ worker[w].pc = "claimed"
        /\ worker' = [worker EXCEPT ![w] = [worker[w] EXCEPT !.pc = "submitting", !.left = Timeout]]
    BY <1>6 DEF Submit
  <2>2. worker'[w].pc = "submitting" /\ worker'[w].claim = worker[w].claim /\ worker'[w].left = Timeout
    BY <1>1, <2>1 DEF Loops
  <2>3. Spare(w)' <= Spare(w) /\ Busy(w)
    BY <1>1, <2>1, <2>2 DEF Spare, Busy, Loops
  <2> QED
    BY <1>1, <1>3, <2>1, <2>2, <2>3
<1>7. ASSUME NEW a \in Answers, Decide(w, a) \/ FailToDecide(w, a)
      PROVE  LeaseInv'
  <2>1. /\ row' = row /\ worker[w].pc = "submitting"
        /\ worker' = [worker EXCEPT ![w] = [worker[w] EXCEPT !.pc = "answered", !.answer = a, !.left = 0]]
    BY <1>7 DEF Decide, FailToDecide, Answer
  <2>2. worker'[w].pc = "answered" /\ worker'[w].claim = worker[w].claim /\ worker'[w].left = 0
    BY <1>1, <2>1 DEF Loops
  <2>3. Spare(w)' <= Spare(w) /\ Busy(w)
    BY <1>1, <2>1, <2>2 DEF Spare, Busy, Loops
  <2> QED
    BY <1>1, <1>3, <2>1, <2>2, <2>3
<1> QED
  BY <1>4, <1>5, <1>6, <1>7, LeaseClaim, LeaseMark DEF Loop

(* Time runs for the lease and for the process alike, and waits for a process *)
(* that has used up its time.                                                 *)
LEMMA LeaseTick ==
  ASSUME Timely, IInv, LeaseInv, Tick
  PROVE  LeaseInv'
<1> SUFFICES ASSUME NEW w \in Workers, Busy(w)'
             PROVE  /\ Holds(worker[w].claim)'
                    /\ row'[worker'[w].claim.delivery_id].timer > Spare(w)'
  BY DEF LeaseInv, LeaseOK
<1>1. worker[w] \in Loops /\ Timeout \in Nat
      /\ worker'[w] = [worker[w] EXCEPT !.left = Elapse(worker[w].left)]
  BY WorkerAssumption DEF Tick, IInv, TypeOK
<1>2. /\ worker'[w].pc = worker[w].pc /\ worker'[w].claim = worker[w].claim
      /\ worker'[w].left = Elapse(worker[w].left) /\ worker[w].left \in Nat
  BY <1>1 DEF Loops
<1>3. Busy(w)
  BY <1>2 DEF Busy
<1>4. worker[w].left > 0 /\ worker'[w].left = worker[w].left - 1
  BY <1>2, <1>3 DEF Tick, Elapse
<1>5. PICK d \in Deliveries : d = worker[w].claim.delivery_id
  BY <1>3, HeldRow DEF LeaseInv, LeaseOK
<1>6. Holds(worker[w].claim) /\ row[d].timer > Spare(w)
  BY <1>3, <1>5 DEF LeaseInv, LeaseOK
<1>7. row[d] \in Rows /\ row'[d] = [row[d] EXCEPT !.timer = Elapse(row[d].timer)]
  BY DEF Tick, RowsElapsed, IInv, TypeOK
<1>8. /\ row'[d].state = row[d].state /\ row'[d].lease_id = row[d].lease_id
      /\ row'[d].lease_epoch = row[d].lease_epoch
      /\ row'[d].timer = Elapse(row[d].timer) /\ row[d].timer \in Nat
  BY <1>7 DEF Rows
<1>9. Spare(w) \in Nat /\ Spare(w) > 0 /\ Spare(w)' = Spare(w) - 1
  BY <1>1, <1>2, <1>4 DEF Spare
<1>10. row'[d].timer > Spare(w)'
  BY <1>6, <1>8, <1>9 DEF Elapse
<1> QED
  BY <1>2, <1>5, <1>6, <1>8, <1>10 DEF Holds

(* Every step of timely processes keeps the leases. *)
LEMMA LeaseStep ==
  ASSUME Timely, IInv, LeaseInv, [Next]_vars
  PROVE  LeaseInv'
<1>1. TypeOK'
  BY IInvStep DEF IInv
<1>2. CASE UNCHANGED <<row, worker>>
  BY <1>2 DEF LeaseInv, LeaseOK, Busy, Holds, Spare
<1>3. ASSUME NEW w \in Workers, Waiting(w) \/ PauseTimesOut(w)
      PROVE  LeaseInv'
  BY <1>2, <1>3 DEF Waiting, SeeIdle, ReportDrained, KeepWaiting, PauseTimesOut
<1>4. ASSUME NEW h \in Holders, NEW e \in 0..MaxRevision, NEW w \in Workers, PauseAndWait(w, h, e)
      PROVE  LeaseInv'
  BY <1>2, <1>4 DEF PauseAndWait, Pause
<1>5. ASSUME NEW h \in Holders, NEW e \in 0..MaxRevision, ResumeDelivery(h, e)
      PROVE  LeaseInv'
  BY <1>2, <1>5 DEF ResumeDelivery, Resume
<1>6. ASSUME NEW h \in Holders, NEW e \in 0..MaxRevision, RetryDeadLetters(h, e)
      PROVE  LeaseInv'
  <2> SUFFICES ASSUME NEW v \in Workers, Busy(v) PROVE LeaseOK(v)'
    BY <1>6 DEF LeaseInv, LeaseOK, RetryDeadLetters, Busy
  <2>1. worker' = worker /\ worker[v].claim.delivery_id \in Deliveries
        /\ row[worker[v].claim.delivery_id].state = "leased"
    BY <1>6, HeldRow DEF RetryDeadLetters, LeaseInv, LeaseOK
  <2>2. row'[worker[v].claim.delivery_id] = row[worker[v].claim.delivery_id]
    BY <1>6, <2>1 DEF RetryDeadLetters, RetryDead
  <2>3. Spare(v) \in Nat /\ Spare(v)' = Spare(v)
    BY <2>1, WorkerAssumption DEF Spare, IInv, TypeOK, Loops
  <2> QED
    BY <1>1, <2>1, <2>2, <2>3, LeaseCarried
<1>7. ASSUME NEW d \in Deliveries, NEW b \in Bodies, Accept(d, b)
      PROVE  LeaseInv'
  BY <1>1, <1>7, LeaseAccept
<1>8. ASSUME NEW w \in Workers,
             Start(w) \/ Close(w) \/ StopLoop(w) \/ Crash(w) \/ StateError(w) \/ Loop(w)
      PROVE  LeaseInv'
  BY <1>1, <1>8, LeaseLoop
<1> QED
  BY <1>2, <1>3, <1>4, <1>5, <1>6, <1>7, <1>8, LeaseTick DEF Next, Admin, vars

(* Only a claim, which needs an open gate, makes a process busy. *)
LEMMA BusyByClaim ==
  ASSUME IInv, NEW w \in Workers, NEW v \in Workers, Busy(v)', ~Busy(v),
         Start(w) \/ Close(w) \/ StopLoop(w) \/ Crash(w) \/ StateError(w) \/ Loop(w)
  PROVE  ~gate.paused /\ gate' = gate
<1>1. worker \in [Workers -> Loops] /\ worker[w] \in Loops
  BY DEF IInv, TypeOK
<1>2. CASE Claim(w)
  BY <1>2 DEF Claim, ClaimNext
<1>3. CASE Start(w) \/ StopLoop(w) \/ Crash(w) \/ StateError(w) \/ CheckPaused(w) \/ ClaimNothing(w)
           \/ MarkFinished(w) \/ \E r \in 0..MaxRetryDelay : MarkRetry(w, r)
  <2>1. \A u \in Workers \ {w} : worker'[u] = worker[u]
    BY <1>1, <1>3 DEF Start, StopLoop, Crash, StateError, CheckPaused, ClaimNothing, MarkFinished,
                      MarkRetry, EndForward
  <2>2. worker'[w].pc \in {"down", "polling", "claiming"}
    BY <1>1, <1>3 DEF Start, StopLoop, Crash, StateError, CheckPaused, ClaimNothing, MarkFinished,
                      MarkRetry, EndForward, Idle, Down, Loops
  <2> QED
    BY <2>1, <2>2 DEF Busy
<1>4. CASE Close(w) \/ Submit(w) \/ \E a \in Answers : Decide(w, a) \/ FailToDecide(w, a)
  <2>1. \A u \in Workers \ {w} : worker'[u] = worker[u]
    BY <1>1, <1>4 DEF Close, Submit, Decide, FailToDecide, Answer
  <2>2. Busy(w) \/ worker'[w].pc = worker[w].pc
    BY <1>1, <1>4 DEF Close, Submit, Decide, FailToDecide, Busy, Loops
  <2> QED
    BY <2>1, <2>2 DEF Busy
<1> QED
  BY <1>2, <1>3, <1>4 DEF Loop

(* A reported pause stays drained until the gate changes. *)
LEMMA DrainStep ==
  ASSUME Timely, IInv, LeaseInv, DrainInv, [Next]_vars
  PROVE  DrainInv'
<1>1. gate.revision \in Nat /\ drained \in Int
  BY DEF IInv, TypeOK, Gates
<1>2. ASSUME UNCHANGED <<gate, drained>>, \A w \in Workers : Busy(w)' => Busy(w) \/ ~gate.paused
      PROVE  DrainInv'
  BY <1>2 DEF DrainInv, PauseDrained
<1>3. ASSUME UNCHANGED <<gate, drained, worker>> PROVE DrainInv'
  BY <1>2, <1>3 DEF Busy
<1>4. ASSUME drained' = drained, gate'.revision = gate.revision + 1 PROVE DrainInv'
  BY <1>1, <1>4 DEF DrainInv, PauseDrained
<1>5. ASSUME NEW w \in Workers, ReportDrained(w) PROVE DrainInv'
  <2>1. \A v \in Workers : ~Busy(v)
    <3> SUFFICES ASSUME NEW v \in Workers, Busy(v) PROVE FALSE
      OBVIOUS
    <3>1. PICK d \in Deliveries : d = worker[v].claim.delivery_id
      BY HeldRow DEF LeaseInv, LeaseOK
    <3>2. row[d].state = "leased" /\ row[d].timer > Spare(v)
      BY <3>1, HeldRow DEF LeaseInv, LeaseOK
    <3>3. row[d].timer \in Nat /\ Spare(v) \in Nat
      BY WorkerAssumption DEF Spare, IInv, TypeOK, Loops, Rows
    <3>4. d \in ActiveDeliveries
      BY <3>2, <3>3 DEF ActiveDeliveries
    <3> QED
      BY <1>5, <3>4 DEF ReportDrained
  <2>2. gate' = gate /\ worker' = worker /\ drained' \in {drained, gate.revision}
    BY <1>5 DEF ReportDrained
  <2> QED
    BY <1>1, <2>1, <2>2 DEF DrainInv, PauseDrained, Busy
<1>6. ASSUME NEW w \in Workers, SeeIdle(w) \/ KeepWaiting(w) \/ PauseTimesOut(w)
      PROVE  DrainInv'
  BY <1>3, <1>6 DEF SeeIdle, KeepWaiting, PauseTimesOut, history
<1>7. ASSUME NEW h \in Holders, NEW e \in 0..MaxRevision, NEW w \in Workers, PauseAndWait(w, h, e)
      PROVE  DrainInv'
  BY <1>3, <1>4, <1>7 DEF PauseAndWait, Pause
<1>8. ASSUME NEW h \in Holders, NEW e \in 0..MaxRevision, ResumeDelivery(h, e)
      PROVE  DrainInv'
  BY <1>4, <1>8 DEF ResumeDelivery, Resume
<1>9. ASSUME NEW h \in Holders, NEW e \in 0..MaxRevision, RetryDeadLetters(h, e)
      PROVE  DrainInv'
  BY <1>3, <1>9 DEF RetryDeadLetters, RetryDead, history
<1>10. ASSUME NEW d \in Deliveries, NEW b \in Bodies, Accept(d, b)
       PROVE  DrainInv'
  BY <1>3, <1>10 DEF Accept, Enqueue, EnqueueNew, EnqueueDuplicate
<1>11. ASSUME NEW w \in Workers,
              Start(w) \/ Close(w) \/ StopLoop(w) \/ Crash(w) \/ StateError(w) \/ Loop(w)
       PROVE  DrainInv'
  <2>1. UNCHANGED <<gate, drained>>
    BY <1>11 DEF Start, Close, StopLoop, Crash, StateError, Loop, CheckPaused, Claim, ClaimNext,
       ClaimNothing, Submit, Decide, FailToDecide, MarkFinished, Finish, MarkRetry, Retry, history
  <2> QED
    BY <1>2, <1>11, <2>1, BusyByClaim
<1>12. CASE Tick
  <2>1. ASSUME NEW w \in Workers, Busy(w)' PROVE Busy(w)
    <3>1. worker[w] \in Loops /\ worker'[w] = [worker[w] EXCEPT !.left = Elapse(worker[w].left)]
      BY <1>12 DEF Tick, IInv, TypeOK
    <3> QED
      BY <2>1, <3>1 DEF Loops, Busy
  <2> QED
    BY <1>2, <1>12, <2>1 DEF Tick, history
<1>13. CASE UNCHANGED vars
  BY <1>3, <1>13 DEF vars
<1> QED
  BY <1>5, <1>6, <1>7, <1>8, <1>9, <1>10, <1>11, <1>12, <1>13 DEF Next, Admin, Waiting

(* A pause that pause_and_wait reported as drained is one during which no     *)
(* process forwards anything, when every claim is submitted, answered and     *)
(* marked in time: the lease of 2 * timeout + 1 covers the window between the *)
(* commit of a claim and _idle.clear().                                       *)
THEOREM DrainedIsQuiet ==
  ASSUME Timely
  PROVE  Spec => []PauseDrained
<1>1. Init => LeaseInv /\ DrainInv
  BY DEF Init, InitSpool, LeaseInv, LeaseOK, DrainInv, PauseDrained, Busy, Down, Idle
<1>2. IInv /\ LeaseInv /\ DrainInv /\ [Next]_vars => LeaseInv' /\ DrainInv'
  BY LeaseStep, DrainStep
<1>3. DrainInv => PauseDrained
  BY DEF DrainInv
<1> QED
  BY <1>1, <1>2, <1>3, InductiveInvariant, PTL DEF Spec

-----------------------------------------------------------------------------
(* The size of the table. *)

(* The size of a body, an erased one included, is a natural number. *)
LEMMA BodyBytesNat ==
  ASSUME NEW t \in [Deliveries -> Rows], NEW d \in Deliveries
  PROVE  BodyBytes(t)[d] \in Nat
<1>1. t[d].body \in Bodies \cup {NoBody}
  BY DEF Rows
<1> QED
  BY <1>1, SpoolAssumption DEF BodyBytes

(* A table with fewer rows, some of their bodies erased, holds no more bytes. *)
LEMMA SmallerTable ==
  ASSUME NEW t \in [Deliveries -> Rows], NEW u,
         IsFiniteSet({d \in Deliveries : t[d].state # "absent"}),
         \A d \in Deliveries : u[d].state # "absent" =>
            t[d].state # "absent" /\ u[d].body \in {t[d].body, NoBody}
  PROVE  /\ StoredBytes(u) <= StoredBytes(t)
         /\ StoredBytes(u) \in Nat /\ StoredBytes(t) \in Nat
<1> DEFINE S == {d \in Deliveries : t[d].state # "absent"}
           U == {d \in Deliveries : u[d].state # "absent"}
           f == BodyBytes(u)
           g == BodyBytes(t)
<1>1. U \in SUBSET S
  OBVIOUS
<1>2. \A d \in S : g[d] \in Nat
  BY BodyBytesNat
<1>3. \A d \in U : f[d] \in {0, g[d]}
  BY DEF BodyBytes
<1>4. \A d \in U : f[d] \in Nat /\ f[d] <= g[d]
  BY <1>1, <1>2, <1>3
<1>5. StoredBytes(u) = SumFunctionOnSet(f, U) /\ StoredBytes(t) = SumFunctionOnSet(g, S)
  BY DEF StoredBytes
<1>6. IsFiniteSet(S) /\ IsFiniteSet(U)
  BY <1>1, FS_Subset
<1> HIDE DEF S, U, f, g
<1>7. SumFunctionOnSet(f, U) <= SumFunctionOnSet(g, S)
  BY <1>1, <1>2, <1>4, <1>6, SumMonotone
<1>8. SumFunctionOnSet(f, U) \in Nat /\ SumFunctionOnSet(g, S) \in Nat
  BY <1>2, <1>4, <1>6, SumType
<1> QED
  BY <1>5, <1>7, <1>8

(* A row put where there was none adds the size of its body. *)
LEMMA RowAdded ==
  ASSUME NEW t \in [Deliveries -> Rows], NEW u \in [Deliveries -> Rows], NEW d \in Deliveries,
         IsFiniteSet({e \in Deliveries : t[e].state # "absent"}),
         t[d].state = "absent", u[d].state # "absent",
         \A e \in Deliveries \ {d} : u[e] = t[e]
  PROVE  StoredBytes(u) = StoredBytes(t) + BodyBytes(u)[d]
<1> DEFINE S == {e \in Deliveries : t[e].state # "absent"}
           U == {e \in Deliveries : u[e].state # "absent"}
           f == BodyBytes(u)
           g == BodyBytes(t)
<1>1. U = S \cup {d} /\ d \notin S /\ d \in U /\ U \ {d} = S
  OBVIOUS
<1>2. \A e \in U : f[e] \in Nat
  BY BodyBytesNat
<1>3. \A e \in S : g[e] \in Nat
  BY BodyBytesNat
<1>4. \A e \in S : f[e] = g[e]
  BY <1>1 DEF BodyBytes
<1>5. StoredBytes(u) = SumFunctionOnSet(f, U) /\ StoredBytes(t) = SumFunctionOnSet(g, S)
  BY DEF StoredBytes
<1>6. IsFiniteSet(S)
  OBVIOUS
<1> HIDE DEF S, U, f, g
<1>7. IsFiniteSet(U)
  BY <1>1, <1>6, FS_AddElement
<1>8. SumFunctionOnSet(f, U) = f[d] + SumFunctionOnSet(f, S)
  BY <1>1, <1>2, <1>7, SumTakeOut
<1>9. \A e \in S : f[e] \in Nat /\ f[e] <= g[e] /\ g[e] <= f[e]
  BY <1>3, <1>4
<1>10. SumFunctionOnSet(f, S) <= SumFunctionOnSet(g, S)
  BY <1>3, <1>9, <1>6, SumMonotone
<1>11. SumFunctionOnSet(g, S) <= SumFunctionOnSet(f, S)
  BY <1>3, <1>9, <1>6, SumMonotone
<1>12. SumFunctionOnSet(f, S) \in Nat /\ SumFunctionOnSet(g, S) \in Nat /\ f[d] \in Nat
  BY <1>1, <1>2, <1>3, <1>9, <1>6, SumType
<1> QED
  BY <1>5, <1>8, <1>10, <1>11, <1>12 DEF f

(* Only the insertion of an event stores a row or a body, and it looks for    *)
(* room first.                                                                *)
LEMMA StoredStep ==
  ASSUME IInv, IInv', Bounded, [Next]_vars
  PROVE  Bounded'
<1>1. row \in [Deliveries -> Rows] /\ MaxRows \in Nat
  BY SpoolAssumption DEF IInv, TypeOK
<1>2. /\ row' \in [Deliveries -> Rows]
      /\ IsFiniteSet(Stored) /\ Cardinality(Stored) <= MaxRows
      /\ StoredBytes(row) <= MaxBytes /\ MaxBytes \in Nat
      /\ Stored = {d \in Deliveries : row[d].state # "absent"}
  BY SpoolAssumption DEF IInv, TypeOK, Bounded, RowsBounded, Stored
<1>3. ASSUME \A d \in Deliveries : row'[d].state # "absent" =>
                row[d].state # "absent" /\ row'[d].body \in {row[d].body, NoBody}
      PROVE  Bounded'
  <2>1. Stored' \subseteq Stored
    BY <1>3 DEF Stored
  <2>2. /\ IsFiniteSet(Stored') /\ Cardinality(Stored') <= Cardinality(Stored)
        /\ Cardinality(Stored') \in Nat /\ Cardinality(Stored) \in Nat
    BY <1>2, <2>1, FS_Subset, FS_CardinalityType
  <2>3. /\ StoredBytes(row') <= StoredBytes(row)
        /\ StoredBytes(row') \in Nat /\ StoredBytes(row) \in Nat
    BY <1>1, <1>2, <1>3, SmallerTable
  <2>4. StoredBytes(row') <= MaxBytes /\ Cardinality(Stored') <= MaxRows
    BY <1>1, <1>2, <2>2, <2>3
  <2> QED
    BY <2>2, <2>4 DEF Bounded, RowsBounded
<1>4. ASSUME row' = row PROVE Bounded'
  BY <1>3, <1>4
<1>5. ASSUME NEW d \in Deliveries, NEW b \in Bodies, EnqueueNew(d, b)
      PROVE  Bounded'
  <2> DEFINE S == {e \in Deliveries : PurgeExpired[e].state # "absent"}
  <2>1. S \subseteq Stored
    BY DEF Stored, PurgeExpired, NoRow
  <2>2. IsFiniteSet(S) /\ Cardinality(S) \in Nat /\ Cardinality(S) < MaxRows
    BY <1>2, <1>5, <2>1, FS_Subset, FS_CardinalityType DEF EnqueueNew, Room
  <2>3. Stored' = S \cup {d} /\ d \notin S
    <3>1. ASSUME NEW e \in Deliveries \ {d} PROVE row'[e] = PurgeExpired[e]
      BY <1>5, <3>1 DEF EnqueueNew
    <3>2. row'[d].state = "queued" /\ PurgeExpired[d].state = "absent"
      BY <1>5 DEF EnqueueNew, NoRow, PurgeExpired
    <3> QED
      BY <3>1, <3>2 DEF Stored
  <2>4. IsFiniteSet(Stored') /\ Cardinality(Stored') = Cardinality(S) + 1
    <3> HIDE DEF S
    <3> QED
      BY <2>2, <2>3, FS_AddElement
  <2>5. /\ PurgeExpired \in [Deliveries -> Rows]
        /\ PurgeExpired[d].state = "absent" /\ row'[d].state # "absent"
        /\ \A e \in Deliveries \ {d} : row'[e] = PurgeExpired[e]
        /\ row'[d].body = b
    <3>1. NoRow \in Rows
      BY DEF NoRow, Rows, NoLease, LeaseIds
    <3>2. PurgeExpired \in [Deliveries -> Rows]
      BY <1>1, <3>1 DEF PurgeExpired
    <3> QED
      BY <1>5, <3>2 DEF EnqueueNew, NoRow
  <2>6. StoredBytes(row') = StoredBytes(PurgeExpired) + BodyBytes(row')[d]
    BY <1>2, <2>2, <2>5, RowAdded
  <2>7. BodyBytes(row')[d] = BodySize[b]
    BY <2>5, SpoolAssumption DEF BodyBytes
  <2>8. StoredBytes(row') <= MaxBytes
    BY <1>5, <2>6, <2>7 DEF EnqueueNew, Room
  <2>9. IsFiniteSet(Stored') /\ Cardinality(Stored') <= MaxRows
    BY <1>1, <2>2, <2>4
  <2> QED
    BY <2>8, <2>9 DEF Bounded, RowsBounded
<1>6. ASSUME NEW d \in Deliveries, NEW b \in Bodies, Accept(d, b)
      PROVE  Bounded'
  <2>1. CASE EnqueueDuplicate(d, b)
    BY <1>3, <2>1 DEF EnqueueDuplicate, PurgeExpired, NoRow
  <2> QED
    BY <1>5, <1>6, <2>1 DEF Accept, Enqueue
<1>7. ASSUME NEW w \in Workers, Claim(w) PROVE Bounded'
  <2>1. PICK d \in Deliveries : ClaimNext(d, LeaseSeconds)
    BY <1>7 DEF Claim
  <2>2. row[d].state # "absent" /\ \A e \in Deliveries \ {d} : row'[e] = row[e]
    BY <1>1, <2>1 DEF ClaimNext, IsNext, Claimable, Due
  <2>3. row'[d].body = row[d].body
    BY <1>1, <2>1 DEF ClaimNext, Rows
  <2> QED
    BY <1>3, <2>2, <2>3
<1>8. ASSUME NEW w \in Workers, MarkFinished(w) \/ \E r \in 0..MaxRetryDelay : MarkRetry(w, r)
      PROVE  Bounded'
  <2>1. \A e \in Deliveries : e # worker[w].claim.delivery_id \/ ~Holds(worker[w].claim) => row'[e] = row[e]
    BY <1>1, <1>8 DEF MarkFinished, MarkRetry, Finish, Retry
  <2>2. Holds(worker[w].claim) => row[worker[w].claim.delivery_id].state # "absent"
    BY DEF Holds
  <2>3. \A e \in Deliveries : row'[e].body \in {row[e].body, NoBody}
    <3> DEFINE c == worker[w].claim
    <3>1. CASE MarkFinished(w)
      <4>1. PICK s : Finish(c, s)
        BY <3>1 DEF MarkFinished
      <4> QED
        BY <1>1, <4>1 DEF Finish, Rows
    <3>2. ASSUME NEW r \in 0..MaxRetryDelay, MarkRetry(w, r)
          PROVE  \A e \in Deliveries : row'[e].body = row[e].body
      <4>1. Retry(c, r)
        BY <3>2 DEF MarkRetry
      <4> QED
        BY <1>1, <4>1 DEF Retry, Rows
    <3> QED
      BY <1>8, <3>1, <3>2
  <2> QED
    BY <1>3, <2>1, <2>2, <2>3
<1>9. ASSUME NEW h \in Holders, NEW e \in 0..MaxRevision, RetryDeadLetters(h, e)
      PROVE  Bounded'
  <2>1. \A d \in Deliveries : row[d].state = "dead" \/ row'[d] = row[d]
    BY <1>9 DEF RetryDeadLetters, RetryDead
  <2>2. \A d \in Deliveries : row'[d].body = row[d].body
    BY <1>1, <1>9 DEF RetryDeadLetters, RetryDead, Rows
  <2> QED
    BY <1>3, <2>1, <2>2
<1>10. CASE Tick
  <2>1. \A d \in Deliveries : row'[d].state = row[d].state /\ row'[d].body = row[d].body
    BY <1>1, <1>10 DEF Tick, RowsElapsed, Rows
  <2> QED
    BY <1>3, <2>1
<1>11. ASSUME NEW w \in Workers,
              \/ Start(w) \/ Close(w) \/ StopLoop(w) \/ Crash(w) \/ StateError(w)
              \/ CheckPaused(w) \/ ClaimNothing(w) \/ Submit(w)
              \/ \E a \in Answers : Decide(w, a) \/ FailToDecide(w, a)
       PROVE  Bounded'
  BY <1>4, <1>11 DEF Start, Close, StopLoop, Crash, StateError, CheckPaused, ClaimNothing, Submit,
                     Decide, FailToDecide
<1>12. ASSUME NEW w \in Workers, Waiting(w) \/ PauseTimesOut(w) PROVE Bounded'
  BY <1>4, <1>12 DEF Waiting, SeeIdle, ReportDrained, KeepWaiting, PauseTimesOut
<1>13. ASSUME NEW h \in Holders, NEW e \in 0..MaxRevision,
              ResumeDelivery(h, e) \/ \E w \in Workers : PauseAndWait(w, h, e)
       PROVE  Bounded'
  BY <1>4, <1>13 DEF ResumeDelivery, Resume, PauseAndWait, Pause
<1>14. CASE UNCHANGED vars
  BY <1>4, <1>14 DEF vars
<1> QED
  BY <1>6, <1>7, <1>8, <1>9, <1>10, <1>11, <1>12, <1>13, <1>14 DEF Next, Loop, Admin

(* The table never has more than max_rows rows nor more than max_bytes bytes  *)
(* of bodies, dead letters and rows kept for their retention included.        *)
THEOREM TableBounded == Spec => []Bounded
<1>1. Init => Bounded
  <2> SUFFICES ASSUME Init PROVE Bounded
    OBVIOUS
  <2>1. Stored = {} /\ {d \in Deliveries : row[d].state # "absent"} = {}
    BY DEF Init, InitSpool, Stored, NoRow
  <2>2. StoredBytes(row) = 0
    BY <2>1, SumOfNone DEF StoredBytes
  <2> QED
    BY <2>1, <2>2, FS_EmptySet, SpoolAssumption DEF Bounded, RowsBounded
<1>2. IInv /\ IInv' /\ Bounded /\ [Next]_vars => Bounded'
  BY StoredStep
<1> QED
  BY <1>1, <1>2, InductiveInvariant, PTL DEF Spec

-----------------------------------------------------------------------------
(* The spool implements the outbox. *)

(* A body that Navigator answers, or has answered, was sent. *)
SentInv ==
  \A w \in Workers :
    worker[w].pc \in {"submitting", "answered"} => worker[w].claim.sequence \in submitted

(* Nothing is answered that was not sent. *)
LEMMA SentStep ==
  ASSUME IInv, SentInv, [Next]_vars
  PROVE  SentInv'
<1>1. worker \in [Workers -> Loops]
  BY DEF IInv, TypeOK
<1>2. ASSUME submitted' = submitted,
             \A w \in Workers : worker'[w].pc \in {"submitting", "answered"} =>
               worker[w].pc \in {"submitting", "answered"} /\ worker'[w].claim = worker[w].claim
      PROVE  SentInv'
  BY <1>2 DEF SentInv
<1>3. CASE UNCHANGED <<worker, submitted>>
  BY <1>2, <1>3
<1>4. ASSUME NEW w \in Workers, UNCHANGED submitted,
             worker'[w].pc \in {"submitting", "answered"} =>
               worker[w].pc \in {"submitting", "answered"} /\ worker'[w].claim = worker[w].claim,
             \A v \in Workers \ {w} : worker'[v] = worker[v]
      PROVE  SentInv'
  BY <1>2, <1>4
<1>5. ASSUME NEW w \in Workers,
             \/ Start(w) \/ StopLoop(w) \/ Crash(w) \/ StateError(w) \/ CheckPaused(w)
             \/ ClaimNothing(w) \/ MarkFinished(w) \/ \E r \in 0..MaxRetryDelay : MarkRetry(w, r)
      PROVE  SentInv'
  <2>1. submitted' = submitted /\ \A v \in Workers \ {w} : worker'[v] = worker[v]
    BY <1>1, <1>5 DEF Start, StopLoop, Crash, StateError, CheckPaused, ClaimNothing, MarkFinished,
                      MarkRetry, EndForward, history
  <2>2. worker'[w].pc \in {"down", "polling", "claiming"}
    BY <1>1, <1>5 DEF Start, StopLoop, Crash, StateError, CheckPaused, ClaimNothing, MarkFinished,
                      MarkRetry, EndForward, Idle, Down, Loops
  <2> QED
    BY <1>4, <2>1, <2>2
<1>6. ASSUME NEW w \in Workers, Claim(w) PROVE SentInv'
  <2>1. submitted' = submitted /\ \A v \in Workers \ {w} : worker'[v] = worker[v]
    BY <1>1, <1>6 DEF Claim, history
  <2>2. worker'[w].pc = "claimed"
    BY <1>1, <1>6 DEF Claim, Loops
  <2> QED
    BY <1>4, <2>1, <2>2
<1>7. ASSUME NEW w \in Workers, Close(w) PROVE SentInv'
  <2>1. submitted' = submitted /\ \A v \in Workers \ {w} : worker'[v] = worker[v]
    BY <1>1, <1>7 DEF Close, history
  <2>2. worker'[w].pc = worker[w].pc /\ worker'[w].claim = worker[w].claim
    BY <1>1, <1>7 DEF Close, Loops
  <2> QED
    BY <1>4, <2>1, <2>2
<1>8. ASSUME NEW w \in Workers, NEW a \in Answers, Decide(w, a) \/ FailToDecide(w, a) PROVE SentInv'
  <2>1. submitted' = submitted /\ \A v \in Workers \ {w} : worker'[v] = worker[v]
    BY <1>1, <1>8 DEF Decide, FailToDecide, Answer, history
  <2>2. worker[w].pc = "submitting" /\ worker'[w].claim = worker[w].claim
    BY <1>1, <1>8 DEF Decide, FailToDecide, Answer, Loops
  <2> QED
    BY <1>4, <2>1, <2>2
<1>9. ASSUME NEW w \in Workers, Submit(w) PROVE SentInv'
  <2>1. /\ submitted' = submitted \cup {worker[w].claim.sequence}
        /\ \A v \in Workers \ {w} : worker'[v] = worker[v]
    BY <1>1, <1>9 DEF Submit
  <2>2. worker'[w].claim = worker[w].claim
    BY <1>1, <1>9 DEF Submit, Loops
  <2> QED
    BY <2>1, <2>2 DEF SentInv
<1>10. CASE Tick
  <2>1. ASSUME NEW w \in Workers PROVE worker'[w].pc = worker[w].pc /\ worker'[w].claim = worker[w].claim
    BY <1>1, <1>10 DEF Tick, Loops
  <2> QED
    BY <1>2, <1>10, <2>1 DEF Tick, history
<1>11. ASSUME NEW d \in Deliveries, NEW b \in Bodies, Accept(d, b) PROVE SentInv'
  BY <1>3, <1>11 DEF Accept
<1>12. ASSUME NEW w \in Workers, Waiting(w) \/ PauseTimesOut(w) PROVE SentInv'
  BY <1>3, <1>12 DEF Waiting, SeeIdle, ReportDrained, KeepWaiting, PauseTimesOut, history
<1>13. ASSUME NEW h \in Holders, NEW e \in 0..MaxRevision, Admin(h, e) PROVE SentInv'
  BY <1>3, <1>13 DEF Admin, PauseAndWait, ResumeDelivery, RetryDeadLetters, history
<1>14. CASE UNCHANGED vars
  BY <1>3, <1>14 DEF vars
<1>15. CASE Next
  BY <1>5, <1>6, <1>7, <1>8, <1>9, <1>10, <1>11, <1>12, <1>13, <1>15 DEF Next, Loop
<1> QED
  BY <1>14, <1>15

(* What may still be forwarded depends on the unconfirmed rows only. *)
LEMMA SpoolKeeps ==
  ASSUME \A d \in Deliveries :
           /\ row'[d].state \in Unconfirmed <=> row[d].state \in Unconfirmed
           /\ row[d].state \in Unconfirmed =>
                row'[d].sequence = row[d].sequence /\ row'[d].body = row[d].body
  PROVE  InSpool' = InSpool
BY DEF InSpool

(* enqueue adds the new row to it, whatever it purges. *)
LEMMA OutboxAccepts ==
  ASSUME IInv, NEW d0 \in Deliveries, NEW b \in Bodies, Accept(d0, b)
  PROVE  Outbox!Next \/ UNCHANGED <<ledger, InSpool, submitted, decided>>
<1>1. row \in [Deliveries -> Rows] /\ UNCHANGED <<submitted, decided>>
  BY DEF IInv, TypeOK, Accept
<1>2. \A d \in Deliveries :
        /\ PurgeExpired[d].state \in Unconfirmed <=> row[d].state \in Unconfirmed
        /\ row[d].state \in Unconfirmed => PurgeExpired[d] = row[d]
  BY DEF PurgeExpired, Unconfirmed, Finished, NoRow
<1>3. CASE EnqueueDuplicate(d0, b)
  <2>1. InSpool' = InSpool
    BY <1>2, <1>3, SpoolKeeps DEF EnqueueDuplicate
  <2> QED
    BY <1>1, <1>3, <2>1 DEF EnqueueDuplicate
<1>4. CASE EnqueueNew(d0, b)
  <2> DEFINE n == [NoRow EXCEPT !.state = "queued", !.sequence = Len(ledger) + 1,
                                !.body_sha256 = b, !.body = b]
  <2>1. /\ row'[d0] = n /\ row[d0].state \notin Unconfirmed
        /\ \A d \in Deliveries : d # d0 => row'[d] = PurgeExpired[d]
    BY <1>2, <1>4 DEF EnqueueNew, PurgeExpired, Unconfirmed
  <2>2. n.state = "queued" /\ n.sequence = Len(ledger) + 1 /\ n.body = b
    BY DEF NoRow
  <2> HIDE DEF n
  <2>3. row'[d0].state \in Unconfirmed /\ row'[d0].sequence = Len(ledger) + 1 /\ row'[d0].body = b
    BY <2>1, <2>2 DEF Unconfirmed
  <2>4. \A d \in Deliveries : d # d0 =>
          /\ row'[d].state \in Unconfirmed <=> row[d].state \in Unconfirmed
          /\ row[d].state \in Unconfirmed => row'[d] = row[d]
    BY <1>2, <2>1
  <2>5. InSpool' = InSpool \cup {<<Len(ledger) + 1, b>>}
    BY <2>1, <2>3, <2>4 DEF InSpool
  <2>6. ledger' = Append(ledger, [delivery_id |-> d0, body |-> b])
    BY <1>4 DEF EnqueueNew
  <2>7. Outbox!Accept([delivery_id |-> d0, body |-> b])
    BY <1>1, <2>5, <2>6 DEF Outbox!Accept
  <2> QED
    BY <2>7 DEF Outbox!Next
<1> QED
  BY <1>3, <1>4 DEF Accept, Enqueue

(* A body is sent in the turn of its thread, and decided once sent. *)
LEMMA OutboxForwards ==
  ASSUME IInv, SentInv, NEW w \in Workers, Submit(w) \/ \E a \in Answers : Decide(w, a)
  PROVE  Outbox!Next
<1> DEFINE n == worker[w].claim.sequence
<1>1. Busy(w)
  BY DEF Submit, Decide, Busy
<1>2. n \in DOMAIN ledger /\ PriorDecided(n)
  BY <1>1 DEF IInv, ClaimInv, ClaimOK
<1>3. n \in 1..Len(ledger) /\ Len(ledger) \in Nat /\ DOMAIN ledger = 1..Len(ledger)
  BY <1>2 DEF IInv, TypeOK
<1>4. UNCHANGED <<row, ledger>>
  BY DEF Submit, Decide
<1>5. InSpool' = InSpool
  BY <1>4 DEF InSpool
<1> HIDE DEF n
<1>6. CASE Submit(w)
  <2>1. \A m \in 1..(n - 1) :
          ThreadOf[ledger[m].delivery_id] = ThreadOf[ledger[n].delivery_id] => m \in decided
    BY <1>2, <1>3 DEF PriorDecided, SameThread
  <2>2. submitted' = submitted \cup {n} /\ decided' = decided
    BY <1>6 DEF Submit, n
  <2>3. Outbox!Forward(n)
    BY <1>4, <1>5, <2>1, <2>2 DEF Outbox!Forward
  <2> QED
    BY <1>3, <2>3 DEF Outbox!Next
<1>7. ASSUME NEW a \in Answers, Decide(w, a) PROVE Outbox!Next
  <2>1. n \in submitted /\ decided' = decided \cup {n} /\ submitted' = submitted
    BY <1>7 DEF Decide, SentInv, n
  <2>2. Outbox!Decide(n)
    BY <1>4, <1>5, <2>1 DEF Outbox!Decide
  <2> QED
    BY <1>3, <2>2 DEF Outbox!Next
<1> QED
  BY <1>6, <1>7

(* Two unconfirmed rows do not share a number. *)
LEMMA OneRowANumber ==
  ASSUME IInv, NEW d \in Deliveries, NEW e \in Deliveries,
         row[d].state # "absent", row[e].state # "absent", row[d].sequence = row[e].sequence
  PROVE  d = e
<1>1. RowOK(d) /\ RowOK(e)
  BY DEF IInv, RowInv
<1>2. /\ ledger[row[d].sequence] = [delivery_id |-> d, body |-> row[d].body_sha256]
      /\ ledger[row[e].sequence] = [delivery_id |-> e, body |-> row[e].body_sha256]
  BY <1>1 DEF RowOK
<1>3. ledger[row[d].sequence].delivery_id = d /\ ledger[row[e].sequence].delivery_id = e
  BY <1>2
<1> QED
  BY <1>3

(* _finish_sync gives up a decided event, its own, or nothing. *)
LEMMA OutboxForgets ==
  ASSUME IInv, NEW w \in Workers, MarkFinished(w)
  PROVE  Outbox!Next \/ UNCHANGED <<ledger, InSpool, submitted, decided>>
<1> DEFINE c == worker[w].claim
           d0 == c.delivery_id
<1>1. Busy(w) /\ ClaimOK(w) /\ UNCHANGED <<ledger, submitted, decided>>
  BY DEF MarkFinished, Busy, IInv, ClaimInv, history, Finish
<1>2. PICK s \in {"delivered", "rejected", "dead"} :
        Finish(c, s) /\ (s \in Finished => c.sequence \in decided)
  BY <1>1 DEF MarkFinished, ClaimOK, Finished
<1>3. row \in [Deliveries -> Rows] /\ c.sequence \in 1..Len(ledger)
  BY <1>1 DEF IInv, TypeOK, ClaimOK
<1>4. CASE ~Holds(c)
  <2>1. row' = row
    BY <1>2, <1>4 DEF Finish
  <2> QED
    BY <1>1, <2>1 DEF InSpool
<1>5. CASE Holds(c)
  <2>1. d0 \in Deliveries /\ row[d0].state = "leased" /\ row[d0].sequence = c.sequence
    BY <1>1, <1>5, HeldRow
  <2>2. row'[d0] = [row[d0] EXCEPT !.state = s,
                      !.body = IF s \in Finished THEN NoBody ELSE row[d0].body,
                      !.lease_id = NoLease, !.timer = Retention(s)]
    BY <1>2, <1>3, <1>5, <2>1 DEF Finish
  <2>3. \A d \in Deliveries : d # d0 => row'[d] = row[d]
    BY <1>2, <1>3, <1>5 DEF Finish
  <2>4. row[d0] \in Rows
    BY <1>3, <2>1
  <2> HIDE DEF c, d0
  <2>5. /\ row'[d0].state = s /\ row'[d0].sequence = row[d0].sequence
        /\ s \notin Finished => row'[d0].body = row[d0].body
    BY <2>2, <2>4 DEF Rows
  <2>6. CASE s = "dead"
    <3>1. InSpool' = InSpool
      BY <2>1, <2>3, <2>5, <2>6, SpoolKeeps DEF Unconfirmed, Finished
    <3> QED
      BY <1>1, <3>1
  <2>7. CASE s \in Finished
    <3>1. row'[d0].state \notin Unconfirmed /\ row[d0].state \in Unconfirmed
      BY <2>1, <2>5, <2>7 DEF Unconfirmed, Finished
    <3>2. \A d \in Deliveries : d # d0 /\ row[d].state \in Unconfirmed => row[d].sequence # c.sequence
      BY <2>1, OneRowANumber DEF Unconfirmed
    <3>3. \A d \in Deliveries :
            row'[d].state \in Unconfirmed <=> row[d].state \in Unconfirmed /\ row[d].sequence # c.sequence
      BY <2>1, <2>3, <3>1, <3>2
    <3>4. \A d \in Deliveries : row'[d].state \in Unconfirmed => row'[d] = row[d]
      BY <2>3, <3>1
    <3>5. InSpool' = {h \in InSpool : h[1] # c.sequence}
      BY <3>3, <3>4 DEF InSpool
    <3>6. Outbox!Forget(c.sequence)
      BY <1>1, <1>2, <2>7, <3>5 DEF Outbox!Forget
    <3> QED
      BY <1>3, <3>6 DEF Outbox!Next
  <2> QED
    BY <2>6, <2>7 DEF Finished
<1> QED
  BY <1>4, <1>5

(* Claims, retries, requeued dead letters and time leave what may still be *)
(* forwarded as it is.                                                     *)
LEMMA OutboxWaits ==
  ASSUME IInv,
         \/ \E w \in Workers : Claim(w) \/ \E r \in 0..MaxRetryDelay : MarkRetry(w, r)
         \/ \E h \in Holders, e \in 0..MaxRevision : RetryDeadLetters(h, e)
         \/ Tick
  PROVE  UNCHANGED <<ledger, InSpool, submitted, decided>>
<1>1. row \in [Deliveries -> Rows]
  BY DEF IInv, TypeOK
<1>2. UNCHANGED <<ledger, submitted, decided>>
  BY DEF Claim, ClaimNext, MarkRetry, Retry, RetryDeadLetters, RetryDead, Tick, history
<1>3. ASSUME NEW w \in Workers, Claim(w) PROVE InSpool' = InSpool
  <2>1. PICK d0 \in Deliveries : ClaimNext(d0, LeaseSeconds)
    BY <1>3 DEF Claim
  <2>2. row[d0].state \in Unconfirmed
    BY <2>1 DEF ClaimNext, IsNext, Claimable, Due, Unconfirmed
  <2>3. row'[d0].state = "leased" /\ row'[d0].sequence = row[d0].sequence /\ row'[d0].body = row[d0].body
    BY <1>1, <2>1 DEF ClaimNext, Rows
  <2>4. \A d \in Deliveries : d # d0 => row'[d] = row[d]
    BY <1>1, <2>1 DEF ClaimNext
  <2> QED
    BY <2>2, <2>3, <2>4, SpoolKeeps DEF Unconfirmed
<1>4. ASSUME NEW w \in Workers, NEW r \in 0..MaxRetryDelay, MarkRetry(w, r) PROVE InSpool' = InSpool
  <2> DEFINE c == worker[w].claim
             d0 == c.delivery_id
  <2>1. Busy(w) /\ Retry(c, r)
    BY <1>4 DEF MarkRetry, Busy
  <2>2. CASE ~Holds(c)
    <3>1. row' = row
      BY <2>1, <2>2 DEF Retry
    <3> QED
      BY <3>1 DEF InSpool
  <2>3. CASE Holds(c)
    <3>1. d0 \in Deliveries /\ row[d0].state = "leased"
      BY <2>1, <2>3, HeldRow
    <3>2. row'[d0] = [row[d0] EXCEPT !.state = "queued", !.lease_id = NoLease,
                        !.timer = RetryDelay(c.attempt, r)]
      BY <1>1, <2>1, <2>3, <3>1 DEF Retry
    <3>3. \A d \in Deliveries : d # d0 => row'[d] = row[d]
      BY <1>1, <2>1, <2>3 DEF Retry
    <3>4. row[d0] \in Rows
      BY <1>1, <3>1
    <3> HIDE DEF c, d0
    <3>5. row'[d0].state = "queued" /\ row'[d0].sequence = row[d0].sequence /\ row'[d0].body = row[d0].body
      BY <3>2, <3>4 DEF Rows
    <3> QED
      BY <3>1, <3>3, <3>5, SpoolKeeps DEF Unconfirmed
  <2> QED
    BY <2>2, <2>3
<1>5. ASSUME NEW h \in Holders, NEW e \in 0..MaxRevision, RetryDeadLetters(h, e) PROVE InSpool' = InSpool
  <2>1. ASSUME NEW d \in Deliveries
        PROVE  /\ row'[d].state \in Unconfirmed <=> row[d].state \in Unconfirmed
               /\ row'[d].sequence = row[d].sequence /\ row'[d].body = row[d].body
    <3>1. row'[d] = IF row[d].state = "dead"
                    THEN [row[d] EXCEPT !.state = "queued", !.attempts = 0, !.timer = 0]
                    ELSE row[d]
      BY <1>5 DEF RetryDeadLetters, RetryDead
    <3> QED
      BY <1>1, <3>1 DEF Rows, Unconfirmed
  <2> QED
    BY <2>1, SpoolKeeps
<1>6. CASE Tick
  <2>1. ASSUME NEW d \in Deliveries
        PROVE  /\ row'[d].state \in Unconfirmed <=> row[d].state \in Unconfirmed
               /\ row'[d].sequence = row[d].sequence /\ row'[d].body = row[d].body
    <3>1. row'[d] = [row[d] EXCEPT !.timer = Elapse(row[d].timer)]
      BY <1>6 DEF Tick, RowsElapsed
    <3> QED
      BY <1>1, <3>1 DEF Rows
  <2> QED
    BY <1>2, <2>1, SpoolKeeps
<1> QED
  BY <1>2, <1>3, <1>4, <1>5, <1>6

(* To Teams and Navigator the spool is one outbox: however many processes    *)
(* share the table, stall, crash and mark late, a row stops being forwarded  *)
(* only when its own body has been decided, never comes back, and is         *)
(* forwarded in the order of its thread.                                     *)
THEOREM ImplementsOutbox == Spec => OutboxSpec
<1>1. Init => Outbox!Init /\ SentInv
  <2> SUFFICES ASSUME Init PROVE Outbox!Init /\ SentInv
    OBVIOUS
  <2>1. \A d \in Deliveries : row[d].state = "absent"
    BY DEF Init, InitSpool, NoRow
  <2>2. InSpool = {}
    BY <2>1 DEF InSpool, Unconfirmed
  <2>3. Outbox!Init
    BY <2>2 DEF Init, InitSpool, Outbox!Init
  <2>4. SentInv
    BY DEF Init, Down, Idle, SentInv
  <2> QED
    BY <2>3, <2>4
<1>2. IInv /\ SentInv /\ [Next]_vars => SentInv'
  BY SentStep
<1>3. IInv /\ SentInv /\ [Next]_vars => [Outbox!Next]_<<ledger, InSpool, submitted, decided>>
  <2> SUFFICES ASSUME IInv, SentInv, [Next]_vars
               PROVE  Outbox!Next \/ UNCHANGED <<ledger, InSpool, submitted, decided>>
    OBVIOUS
  <2>1. CASE UNCHANGED <<row, ledger, submitted, decided>>
    BY <2>1 DEF InSpool
  <2>2. CASE UNCHANGED vars
    BY <2>1, <2>2 DEF vars
  <2>3. ASSUME NEW w \in Workers,
               \/ Start(w) \/ Close(w) \/ StopLoop(w) \/ Crash(w) \/ StateError(w)
               \/ CheckPaused(w) \/ ClaimNothing(w) \/ \E a \in Answers : FailToDecide(w, a)
               \/ Waiting(w) \/ PauseTimesOut(w)
        PROVE  UNCHANGED <<row, ledger, submitted, decided>>
    BY <2>3 DEF Start, Close, StopLoop, Crash, StateError, CheckPaused, ClaimNothing, FailToDecide,
                Waiting, SeeIdle, ReportDrained, KeepWaiting, PauseTimesOut, history
  <2>4. ASSUME NEW h \in Holders, NEW e \in 0..MaxRevision, Admin(h, e)
        PROVE  Outbox!Next \/ UNCHANGED <<ledger, InSpool, submitted, decided>>
    <3>1. CASE RetryDeadLetters(h, e)
      BY <3>1, OutboxWaits
    <3>2. CASE ~RetryDeadLetters(h, e)
      <4>1. UNCHANGED <<row, ledger, submitted, decided>>
        BY <2>4, <3>2 DEF Admin, PauseAndWait, Pause, ResumeDelivery, Resume
      <4> QED
        BY <2>1, <4>1
    <3> QED
      BY <3>1, <3>2
  <2>5. ASSUME NEW w \in Workers, Loop(w)
        PROVE  Outbox!Next \/ UNCHANGED <<ledger, InSpool, submitted, decided>>
    BY <2>1, <2>3, <2>5, OutboxForwards, OutboxForgets, OutboxWaits DEF Loop
  <2>6. CASE Next
    BY <2>1, <2>3, <2>4, <2>5, <2>6, OutboxAccepts, OutboxWaits DEF Next
  <2> QED
    BY <2>2, <2>6
<1> QED
  BY <1>1, <1>2, <1>3, InductiveInvariant, PTL DEF Spec, OutboxSpec, Outbox!Spec

=============================================================================
