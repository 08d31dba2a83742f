------------------------- MODULE WorkspaceConnector -------------------------
(***************************************************************************)
(* The workspace connector (runtime/rust/cyrene-workspace-connector): one  *)
(* worker that claims Authority-approved invocations, dispatches each to a *)
(* local product and submits the result, writing every stage to an         *)
(* append-only journal before it acts on it.                               *)
(*                                                                         *)
(* The journal is modelled by what recover() reads back from it: disk is   *)
(* the latest readable record of each invocation, tail says whether the    *)
(* file ends in a torn frame, or has one with further frames behind it.    *)
(* Everything between two awaits or two journal writes is one step.  A     *)
(* credential that binds another call, workspace or component, or another  *)
(* digest than the journaled one, is an error like a failed redemption.    *)
(***************************************************************************)
EXTENDS Integers, FiniteSets

CONSTANTS
  Invocations,  \* invocation ids
  Idempotent,   \* those whose target has a key and idempotency semantics
  FaultKinds,   \* the faults the environment inflicts
  MaxFaults     \* bound of the model: how many of them

AllFaults == {"crash", "rpc", "io", "torn", "ack_refused", "result_refused", "expiry"}

ASSUME ConnectorAssumption ==
  /\ Idempotent \subseteq Invocations
  /\ FaultKinds \subseteq AllFaults
  /\ MaxFaults \in Nat

VARIABLES
  disk,       \* what recover() restores, by invocation id
  tail,       \* the end of the journal file: clean, torn or buried
  latest,     \* DurableJournal.latest
  proc,       \* the worker: where it is and its local variables
  ready,      \* the readiness flag
  approved,   \* Authority: invocations approved for this device
  expired,    \* Authority: invocations whose credential has expired
  acked,      \* Authority: invocations whose delivery it recorded
  accepted,   \* Authority: the outcome it accepted for each invocation
  refused,    \* Authority: invocations whose Success it refused
  ran,        \* the product: invocations it executed
  faults,     \* faults inflicted so far
  minted,     \* receipts generated so far
  synced,     \* history: the last record a persist() call confirmed
  dispatches, \* history: times each invocation was sent to the product
  shown       \* history: receipts of each invocation the Authority saw

journal == <<disk, tail, latest>>
authority == <<approved, expired, acked, accepted, refused>>
history == <<synced, dispatches, shown>>
vars == <<disk, tail, latest, proc, ready, approved, expired, acked, accepted, refused,
          ran, faults, minted, synced, dispatches, shown>>

Stages == {"Claimed", "Acknowledging", "Acknowledged", "Dispatching",
           "ResultReady", "UnknownResult", "Submitted"}
Outcomes == {"unspecified", "success", "failed", "unknown"}

NoEntry == [stage |-> "none", outcome |-> "unspecified", receipt |-> 0]
Entries == [stage : Stages \cup {"none"}, outcome : Outcomes, receipt : Nat]
EmptyJournal == [i \in Invocations |-> NoEntry]

PCs == {"down", "idle", "recovering", "serving", "redeem", "persist", "ack",
        "dispatch", "in_flight", "submit"}

Resting(pc) ==
  [pc |-> pc, mode |-> "recover", todo |-> {}, id |-> "none",
   entry |-> NoEntry, attempt |-> 0]

Init ==
  /\ disk = EmptyJournal /\ tail = "clean" /\ latest = EmptyJournal
  /\ proc = Resting("down") /\ ready = FALSE
  /\ approved = {} /\ expired = {} /\ acked = {}
  /\ accepted = [i \in Invocations |-> "none"]
  /\ ran = {} /\ faults = 0 /\ minted = 0
  /\ synced = EmptyJournal
  /\ dispatches = [i \in Invocations |-> 0]
  /\ shown = [i \in Invocations |-> {}]
  /\ refused = {}

Fault(kind) ==
  kind \in FaultKinds /\ faults < MaxFaults /\ faults' = faults + 1

-----------------------------------------------------------------------------
(* The journal. *)

(* Mutant of AppendFrame: the frame stays in a buffer. *)
AppendBuffered(i, e) == UNCHANGED <<disk, tail>>

(* A frame written behind a torn one is never read back. *)
AppendFrame(i, e) ==
  IF tail = "clean"
  THEN disk' = [disk EXCEPT ![i] = e] /\ UNCHANGED tail
  ELSE tail' = "buried" /\ UNCHANGED disk

Tear ==
  /\ tail' = IF tail = "clean" THEN "torn" ELSE "buried"
  /\ UNCHANGED disk

(* recover() cuts the file at the first incomplete frame.  With frames     *)
(* behind it, the torn frame may also be completed by their bytes and fail *)
(* its checksum: then the connector does not start, and there is no step.  *)
Open ==
  /\ proc.pc = "down"
  /\ latest' = disk /\ tail' = "clean"
  /\ proc' = Resting("idle")
  /\ UNCHANGED <<disk, ready, authority, ran, faults, minted, history>>

-----------------------------------------------------------------------------
(* process_batch and recover_pending.  A failed negotiation changes        *)
(* nothing: it only happens before the first batch, when ready is FALSE.   *)

(* Mutant of BeginBatch: results that are ready are not submitted again. *)
BeginBatchForgetting ==
  /\ proc.pc = "idle"
  /\ ready' = FALSE
  /\ proc' = [Resting("recovering") EXCEPT
                !.todo = {i \in Invocations :
                            latest[i].stage \notin {"none", "ResultReady", "Submitted"}}]
  /\ UNCHANGED <<journal, authority, ran, faults, minted, history>>

BeginBatch ==
  /\ proc.pc = "idle"
  /\ ready' = FALSE
  /\ proc' = [Resting("recovering") EXCEPT
                !.todo = {i \in Invocations : latest[i].stage \notin {"none", "Submitted"}}]
  /\ UNCHANGED <<journal, authority, ran, faults, minted, history>>

(* Mutant of Recovery: an interrupted dispatch starts again. *)
RecoveryRepeating(e) ==
  CASE e.stage = "Dispatching" -> [pc |-> "redeem", entry |-> [e EXCEPT !.stage = "Acknowledged"]]
    [] e.stage \in {"UnknownResult", "ResultReady"} -> [pc |-> "submit", entry |-> e]
    [] OTHER -> [pc |-> "redeem", entry |-> e]

(* A dispatch that was interrupted is never repeated: its result is        *)
(* unknown.                                                                *)
Recovery(e) ==
  CASE e.stage = "Dispatching" ->
         [pc |-> "persist", entry |-> [e EXCEPT !.stage = "UnknownResult", !.outcome = "unknown"]]
    [] e.stage \in {"UnknownResult", "ResultReady"} -> [pc |-> "submit", entry |-> e]
    [] OTHER -> [pc |-> "redeem", entry |-> e]

RecoverNext(i) ==
  /\ proc.pc = "recovering" /\ i \in proc.todo
  /\ proc' = [proc EXCEPT !.id = i, !.attempt = 0,
                          !.pc = Recovery(latest[i]).pc, !.entry = Recovery(latest[i]).entry]
  /\ UNCHANGED <<journal, ready, authority, ran, faults, minted, history>>

(* The Authority offers at least what it has no delivery recorded for, and *)
(* may offer again what it has.                                            *)
Claim(batch) ==
  /\ proc.pc = "recovering" /\ proc.todo = {}
  /\ approved \ acked \subseteq batch /\ batch \subseteq approved
  /\ ready' = TRUE
  /\ proc' = [Resting("serving") EXCEPT !.mode = "serve", !.todo = batch]
  /\ UNCHANGED <<journal, authority, ran, faults, minted, history>>

ClaimLost ==
  /\ proc.pc = "recovering" /\ proc.todo = {}
  /\ Fault("rpc")
  /\ proc' = Resting("idle")
  /\ UNCHANGED <<journal, ready, authority, ran, minted, history>>

(* Mutant of ServeNext: the journal is not consulted. *)
ServeNextAfresh(i) ==
  /\ proc.pc = "serving" /\ i \in proc.todo
  /\ proc' = [proc EXCEPT !.id = i, !.attempt = 0, !.pc = "redeem", !.entry = NoEntry]
  /\ UNCHANGED <<journal, ready, authority, ran, faults, minted, history>>

ServeNext(i) ==
  /\ proc.pc = "serving" /\ i \in proc.todo
  /\ proc' = [proc EXCEPT !.id = i, !.attempt = 0, !.pc = "redeem", !.entry = latest[i]]
  /\ UNCHANGED <<journal, ready, authority, ran, faults, minted, history>>

EndBatch ==
  /\ proc.pc = "serving" /\ proc.todo = {}
  /\ proc' = Resting("idle")
  /\ UNCHANGED <<journal, ready, authority, ran, faults, minted, history>>

-----------------------------------------------------------------------------
(* execute_validated, for the invocation proc.id.                          *)

NextItem ==
  [Resting(IF proc.mode = "recover" THEN "recovering" ELSE "serving") EXCEPT
     !.mode = proc.mode, !.todo = proc.todo \ {proc.id}]

(* An error of a claimed invocation is logged; in recover_pending it ends  *)
(* the batch.                                                              *)
AfterError == IF proc.mode = "recover" THEN Resting("idle") ELSE NextItem

Goto(pc, e) == [proc EXCEPT !.pc = pc, !.entry = e]

Stage(e, stage) == [e EXCEPT !.stage = stage]

Resolved(e, stage, outcome) == [e EXCEPT !.stage = stage, !.outcome = outcome]

Redeem ==
  /\ proc.pc = "redeem" /\ proc.id \notin expired
  /\ LET e == proc.entry IN
     CASE e.stage = "none" ->
            /\ minted' = minted + 1
            /\ proc' = Goto("persist", [NoEntry EXCEPT !.stage = "Claimed", !.receipt = minted + 1])
       [] e.stage = "Submitted" ->
            proc' = NextItem /\ UNCHANGED minted
       [] e.stage \in {"Claimed", "Acknowledging"} ->
            proc' = Goto("persist", Stage(e, "Acknowledging")) /\ UNCHANGED minted
       [] e.stage = "Acknowledged" ->
            proc' = Goto("persist", Stage(e, "Dispatching")) /\ UNCHANGED minted
       [] OTHER ->
            proc' = Goto("submit", e) /\ UNCHANGED minted
  /\ UNCHANGED <<journal, ready, authority, ran, faults, history>>

RedeemFails ==
  /\ proc.pc = "redeem"
  /\ \/ proc.id \in expired /\ UNCHANGED faults
     \/ Fault("rpc")
  /\ proc' = AfterError
  /\ UNCHANGED <<journal, ready, authority, ran, minted, history>>

(* What follows the write of a stage. *)
AfterPersist(e) ==
  CASE e.stage = "Claimed"       -> Goto("persist", Stage(e, "Acknowledging"))
    [] e.stage = "Acknowledging" -> Goto("ack", e)
    [] e.stage = "Acknowledged"  -> Goto("persist", Stage(e, "Dispatching"))
    [] e.stage = "Dispatching"   -> Goto("dispatch", e)
    [] e.stage = "Submitted"     -> NextItem
    [] OTHER                     -> Goto("submit", e)

Persist ==
  /\ proc.pc = "persist"
  /\ AppendFrame(proc.id, proc.entry)
  /\ latest' = [latest EXCEPT ![proc.id] = proc.entry]
  /\ synced' = [synced EXCEPT ![proc.id] = proc.entry]
  /\ proc' = AfterPersist(proc.entry)
  /\ UNCHANGED <<ready, authority, ran, faults, minted, dispatches, shown>>

(* write_all or sync_all fails: nothing, all or a part of the frame is in  *)
(* the file, and latest keeps the earlier record.                          *)
PersistFails ==
  /\ proc.pc = "persist"
  /\ \/ Fault("io") /\ UNCHANGED <<disk, tail>>
     \/ Fault("io") /\ AppendFrame(proc.id, proc.entry)
     \/ Fault("torn") /\ Tear
  /\ proc' = AfterError
  /\ UNCHANGED <<latest, ready, authority, ran, minted, history>>

Shown == shown' = [shown EXCEPT ![proc.id] = shown[proc.id] \cup {proc.entry.receipt}]

Acknowledge ==
  /\ proc.pc = "ack"
  /\ acked' = acked \cup {proc.id} /\ Shown
  /\ proc' = Goto("persist", Stage(proc.entry, "Acknowledged"))
  /\ UNCHANGED <<journal, ready, approved, expired, accepted, ran, faults, minted,
                 synced, dispatches, refused>>

(* Mutant of AcknowledgeRefused: the answer is not looked at. *)
AcknowledgeUnread ==
  /\ proc.pc = "ack"
  /\ Fault("ack_refused") /\ Shown
  /\ proc' = Goto("persist", Stage(proc.entry, "Acknowledged"))
  /\ UNCHANGED <<journal, ready, authority, ran, minted, synced, dispatches>>

AcknowledgeRefused ==
  /\ proc.pc = "ack"
  /\ Fault("ack_refused") /\ Shown
  /\ proc' = NextItem
  /\ UNCHANGED <<journal, ready, authority, ran, minted, synced, dispatches>>

(* The request or its answer is lost. *)
AcknowledgeLost ==
  /\ proc.pc = "ack"
  /\ Fault("rpc")
  /\ \/ UNCHANGED <<acked, shown>>
     \/ acked' = acked \cup {proc.id} /\ Shown
  /\ proc' = AfterError
  /\ UNCHANGED <<journal, ready, approved, expired, accepted, ran, minted,
                 synced, dispatches, refused>>

(* InvalidTarget and InvalidInvocation: refused before anything is sent. *)
RefuseDispatch ==
  /\ proc.pc = "dispatch"
  /\ proc' = Goto("persist", Resolved(proc.entry, "ResultReady", "failed"))
  /\ UNCHANGED <<journal, ready, authority, ran, faults, minted, history>>

(* The request leaves; the product runs it or never gets it. *)
Send ==
  /\ proc.pc = "dispatch"
  /\ dispatches' = [dispatches EXCEPT ![proc.id] = dispatches[proc.id] + 1]
  /\ ran' = ran \/ ran' = ran \cup {proc.id}
  /\ proc' = Goto("in_flight", proc.entry)
  /\ UNCHANGED <<journal, ready, authority, faults, minted, synced, shown>>

Respond ==
  /\ proc.pc = "in_flight" /\ proc.id \in ran
  /\ proc' = Goto("persist", Resolved(proc.entry, "ResultReady", "success"))
  /\ UNCHANGED <<journal, ready, authority, ran, faults, minted, history>>

(* Mutant of Uncertain: a lost answer is a failure. *)
UncertainFails(i, e) == Resolved(e, "ResultReady", "failed")

(* Timeout and Network. *)
Uncertain(i, e) ==
  IF i \in Idempotent
  THEN Resolved(e, "ResultReady", "failed")
  ELSE Resolved(e, "UnknownResult", "unknown")

RespondLost ==
  /\ proc.pc = "in_flight"
  /\ \/ proc.id \notin ran /\ UNCHANGED faults
     \/ Fault("rpc")
  /\ proc' = Goto("persist", Uncertain(proc.id, proc.entry))
  /\ UNCHANGED <<journal, ready, authority, ran, minted, history>>

-----------------------------------------------------------------------------
(* submit_journaled.  The Authority keeps the first result it accepts,     *)
(* accepts the same one again, and does not change its mind about a        *)
(* product response it refused.                                            *)

Acceptable ==
  \/ accepted[proc.id] = proc.entry.outcome
  \/ /\ accepted[proc.id] = "none"
     /\ ~(proc.id \in refused /\ proc.entry.outcome = "success")

Accept == accepted' = [accepted EXCEPT ![proc.id] = proc.entry.outcome]

Submit ==
  /\ proc.pc = "submit" /\ Acceptable
  /\ Accept /\ Shown
  /\ proc' = Goto("persist", Stage(proc.entry, "Submitted"))
  /\ UNCHANGED <<journal, ready, approved, expired, acked, ran, faults, minted,
                 synced, dispatches, refused>>

(* Mutant of SubmitRefused: every refusal is tried again. *)
SubmitRefusedAgain ==
  /\ proc.pc = "submit"
  /\ \/ ~Acceptable /\ UNCHANGED faults
     \/ accepted[proc.id] = "none" /\ Fault("result_refused")
  /\ Shown
  /\ proc' = [Goto("persist", Resolved(proc.entry, "ResultReady", "failed"))
                EXCEPT !.attempt = proc.attempt + 1]
  /\ refused' = refused \cup {proc.id}
  /\ UNCHANGED <<journal, ready, approved, expired, acked, accepted, ran, minted,
                 synced, dispatches>>

(* A Success refused at the first attempt is turned into Failed and        *)
(* submitted once more.                                                    *)
SubmitRefused ==
  /\ proc.pc = "submit"
  /\ \/ ~Acceptable /\ UNCHANGED faults
     \/ accepted[proc.id] = "none" /\ Fault("result_refused")
  /\ Shown
  /\ IF proc.attempt = 0 /\ proc.entry.outcome = "success"
     THEN /\ proc' = [Goto("persist", Resolved(proc.entry, "ResultReady", "failed"))
                        EXCEPT !.attempt = 1]
          /\ refused' = refused \cup {proc.id}
     ELSE proc' = AfterError /\ UNCHANGED refused
  /\ UNCHANGED <<journal, ready, approved, expired, acked, accepted, ran, minted,
                 synced, dispatches>>

(* Mutant of SubmitLost: a lost answer is taken for a refusal. *)
SubmitLostRefused ==
  /\ proc.pc = "submit"
  /\ Fault("rpc")
  /\ \/ UNCHANGED <<accepted, shown>>
     \/ Acceptable /\ Accept /\ Shown
  /\ proc' = Goto("persist", Resolved(proc.entry, "ResultReady", "failed"))
  /\ UNCHANGED <<journal, ready, approved, expired, acked, refused, ran, minted,
                 synced, dispatches>>

SubmitLost ==
  /\ proc.pc = "submit"
  /\ Fault("rpc")
  /\ \/ UNCHANGED <<accepted, shown>>
     \/ Acceptable /\ Accept /\ Shown
  /\ proc' = AfterError
  /\ UNCHANGED <<journal, ready, approved, expired, acked, ran, minted,
                 synced, dispatches, refused>>

-----------------------------------------------------------------------------
(* The environment. *)

(* The process dies; a write under way leaves nothing, a torn frame or a   *)
(* whole one.                                                              *)
Crash ==
  /\ proc.pc # "down"
  /\ Fault("crash")
  /\ \/ UNCHANGED <<disk, tail>>
     \/ proc.pc = "persist" /\ (AppendFrame(proc.id, proc.entry) \/ Tear)
  /\ latest' = EmptyJournal
  /\ proc' = Resting("down") /\ ready' = FALSE
  /\ UNCHANGED <<authority, ran, minted, history>>

Approve(i) ==
  /\ i \notin approved
  /\ approved' = approved \cup {i}
  /\ UNCHANGED <<journal, proc, ready, expired, acked, accepted, refused, ran, faults, minted, history>>

Expire(i) ==
  /\ i \in approved \ expired
  /\ Fault("expiry")
  /\ expired' = expired \cup {i}
  /\ UNCHANGED <<journal, proc, ready, approved, acked, accepted, refused, ran, minted, history>>

Batch ==
  \/ BeginBatch \/ ClaimLost \/ EndBatch
  \/ \E i \in Invocations : RecoverNext(i) \/ ServeNext(i)
  \/ \E batch \in SUBSET Invocations : Claim(batch)

Execute ==
  \/ Redeem \/ RedeemFails \/ Persist \/ PersistFails
  \/ Acknowledge \/ AcknowledgeRefused \/ AcknowledgeLost
  \/ RefuseDispatch \/ Send \/ Respond \/ RespondLost
  \/ Submit \/ SubmitRefused \/ SubmitLost

Next ==
  \/ Open \/ Batch \/ Execute \/ Crash
  \/ \E i \in Invocations : Approve(i) \/ Expire(i)

Spec == Init /\ [][Next]_vars

(* systemd restarts the connector and tokio runs its only task.  Nothing   *)
(* is asked of the Authority's approvals or of the faults.                 *)
FairSpec == Spec /\ WF_vars(Open) /\ WF_vars(Batch \/ Execute)

-----------------------------------------------------------------------------
Procs == [pc : PCs, mode : {"recover", "serve"}, todo : SUBSET Invocations,
          id : Invocations \cup {"none"}, entry : Entries, attempt : {0, 1}]

(* The shape of the journal, the worker and the Authority's records. *)
TypeOK ==
  /\ disk \in [Invocations -> Entries] /\ latest \in [Invocations -> Entries]
  /\ tail \in {"clean", "torn", "buried"}
  /\ proc \in Procs /\ ready \in BOOLEAN
  /\ approved \in SUBSET Invocations /\ expired \in SUBSET Invocations
  /\ acked \in SUBSET Invocations
  /\ accepted \in [Invocations -> Outcomes \cup {"none"}]
  /\ ran \in SUBSET Invocations
  /\ faults \in Nat /\ minted \in Nat
  /\ synced \in [Invocations -> Entries]
  /\ dispatches \in [Invocations -> Nat]
  /\ shown \in [Invocations -> SUBSET Nat]
  /\ refused \in SUBSET Invocations

(* A product is never sent the same invocation twice, whatever crashes,    *)
(* failed writes, lost answers and repeated claims happen around the       *)
(* dispatch (the Dispatching stage and its recovery).                      *)
AtMostOnce == \A i \in Invocations : dispatches[i] <= 1

(* Nothing is dispatched before the Authority recorded its delivery.       *)
AckBeforeDispatch == \A i \in Invocations : dispatches[i] > 0 => i \in acked

(* What the Authority accepts is what happened.  Success: the product ran  *)
(* the call.  Failed for a call the product did run: only when the call    *)
(* may safely be repeated, or its Success was refused.  And no outcome is  *)
(* left unspecified.                                                       *)
HonestOutcome ==
  \A i \in Invocations :
     /\ accepted[i] = "success" => i \in ran
     /\ accepted[i] = "failed" /\ i \in ran => i \in Idempotent \/ i \in refused
     /\ accepted[i] # "unspecified"

(* The receipt written with the Claimed stage is the only one the          *)
(* Authority ever sees for an invocation.                                  *)
OneReceipt == \A i \in Invocations : Cardinality(shown[i]) <= 1

(* A result is never submitted again with another outcome than the one the *)
(* Authority holds: no answer that was lost turns into a contradiction.    *)
NoContradiction ==
  proc.pc = "submit" /\ accepted[proc.id] # "none"
    => accepted[proc.id] = proc.entry.outcome

Rank(stage) ==
  CASE stage = "none" -> 0
    [] stage = "Claimed" -> 1
    [] stage = "Acknowledging" -> 2
    [] stage = "Acknowledged" -> 3
    [] stage = "Dispatching" -> 4
    [] stage \in {"UnknownResult", "ResultReady"} -> 5
    [] stage = "Submitted" -> 6

(* DurableJournal::open "restores the latest complete state for each       *)
(* call": a running connector knows every stage that persist() confirmed.  *)
RestoresLatest ==
  proc.pc # "down" =>
    \A i \in Invocations : Rank(latest[i].stage) >= Rank(synced[i].stage)

(* The journaled stage of an invocation never moves backwards.             *)
StagesAdvance ==
  [][\A i \in Invocations : Rank(synced[i].stage) <= Rank(synced'[i].stage)]_vars

(* Every approved invocation gets a result the Authority accepts, unless a  *)
(* credential expires: then recovery may fail for good (EventuallyClaimed). *)
EventuallyReported ==
  \A i \in Invocations : (i \in approved) ~> (accepted[i] # "none" \/ expired # {})

(* process_batch "recovers durable unfinished records, then claims and     *)
(* processes one outbox batch": an approved invocation whose credential    *)
(* stays valid is taken up.                                                *)
EventuallyClaimed ==
  \A i \in Invocations : (i \in approved) ~> (i \in expired \/ synced[i].stage # "none")
=============================================================================
