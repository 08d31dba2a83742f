--------------------------- MODULE ConnectorProofs ---------------------------
(***************************************************************************)
(* Theorems about the workspace connector for every set of invocations and *)
(* every number of faults.  Types hold whatever fails; the safety          *)
(* properties hold for a journal whose failed writes leave no partial      *)
(* frame in a file that stays in use ("torn" is not among the faults; a    *)
(* frame torn by a crash is cut off by the next Open).                     *)
(***************************************************************************)
EXTENDS WorkspaceConnector, FiniteSetTheorems, TLAPS

-----------------------------------------------------------------------------
(* The inductive invariant. *)

Early    == {"none", "Claimed", "Acknowledging", "Acknowledged", "Dispatching"}
Answered == {"ResultReady", "UnknownResult"}
Late     == Answered \cup {"Submitted"}
Busy     == {"redeem", "persist", "ack", "dispatch", "in_flight", "submit"}

(* What a record of invocation i, wherever it is kept, says of the world. *)
Truthful(i, e) ==
  /\ e.stage \in Early => e.outcome = "unspecified"
  /\ e.stage \in Late => e.outcome \in Outcomes \ {"unspecified"}
  /\ e.stage = "UnknownResult" => e.outcome = "unknown"
  /\ e.stage \in Late \cup {"Acknowledged", "Dispatching"} => i \in acked
  /\ dispatches[i] > 0 => e.stage \in Late \cup {"Dispatching"}
  /\ e.stage \in {"none", "Claimed"} => shown[i] = {}
  /\ shown[i] \subseteq {e.receipt}
  /\ accepted[i] # "none" => e.stage \in Late /\ e.outcome = accepted[i]
  /\ e.stage = "Submitted" => accepted[i] = e.outcome
  /\ e.outcome = "success" => i \in ran
  /\ e.outcome = "failed" /\ i \in ran => i \in Idempotent \/ i \in refused

(* The record f may be written for invocation i when e is the latest. *)
Follows(i, e, f) ==
  \/ e.stage = "none" /\ f.stage = "Claimed"
  \/ /\ f.receipt = e.receipt
     /\ \/ e.stage \in {"Claimed", "Acknowledging"} /\ f.stage = "Acknowledging"
        \/ e.stage = "Acknowledging" /\ f.stage = "Acknowledged"
        \/ e.stage = "Acknowledged" /\ f.stage = "Dispatching"
        \/ e.stage = "Dispatching" /\ f.stage \in Answered
        \/ /\ e.stage = "ResultReady" /\ e.outcome = "success"
           /\ f.stage = "ResultReady" /\ f.outcome = "failed" /\ i \in refused
        \/ e.stage \in Answered /\ f.stage = "Submitted" /\ f.outcome = e.outcome

(* The file holds the latest record of a running connector, or the next one *)
(* from a write that failed; only a connector that is down has a torn file. *)
JournalInv ==
  /\ tail = "clean" \/ (tail = "torn" /\ proc.pc = "down")
  /\ \A i \in Invocations :
       /\ Truthful(i, disk[i])
       /\ Rank(synced[i].stage) <= Rank(disk[i].stage)
       /\ proc.pc # "down" =>
            /\ Truthful(i, latest[i])
            /\ Rank(synced[i].stage) <= Rank(latest[i].stage)
            /\ disk[i] = latest[i] \/ Follows(i, latest[i], disk[i])

(* A worker that executes has an invocation to execute. *)
Addressed == proc.pc \in Busy => proc.id \in Invocations

(* The worker acts on what the journal says, and nobody dispatches again. *)
WorkerInv ==
  /\ proc.pc = "redeem" => proc.entry = latest[proc.id] /\ proc.entry.stage # "Dispatching"
  /\ proc.pc = "persist" =>
       Truthful(proc.id, proc.entry) /\ Follows(proc.id, latest[proc.id], proc.entry)
  /\ proc.pc \in {"ack", "dispatch", "in_flight"} =>
       /\ proc.entry = latest[proc.id] /\ proc.entry = disk[proc.id]
       /\ proc.entry.stage = IF proc.pc = "ack" THEN "Acknowledging" ELSE "Dispatching"
  /\ proc.pc = "dispatch" => dispatches[proc.id] = 0
  /\ proc.pc = "submit" => proc.entry = latest[proc.id] /\ proc.entry.stage \in Answered

(* An interrupted dispatch is in the hands of the recovery until it has     *)
(* been turned into an unknown result; serving never meets one.             *)
TodoInv ==
  /\ proc.pc = "recovering" => proc.mode = "recover"
  /\ proc.pc = "serving" => proc.mode = "serve"
  /\ proc.pc \in Busy => proc.id \in proc.todo
  /\ proc.pc \notin {"down", "idle"} /\ proc.mode = "recover" =>
       \A i \in Invocations : latest[i].stage = "Dispatching" => i \in proc.todo
  /\ proc.pc \notin {"down", "idle"} /\ proc.mode = "serve" =>
       \A i \in proc.todo : latest[i].stage = "Dispatching" =>
         proc.id = i /\ proc.pc \in {"persist", "dispatch", "in_flight"}

(* The product runs what it was sent, and it was sent at most once. *)
ProductInv ==
  \A i \in Invocations : dispatches[i] <= 1 /\ (i \in ran => dispatches[i] > 0)

IInv == TypeOK /\ Addressed /\ JournalInv /\ WorkerInv /\ TodoInv /\ ProductInv

-----------------------------------------------------------------------------
(* Types. *)

(* The worker between two items, and the entry of no invocation. *)
LEMMA RestingTyped ==
  ASSUME NEW pc \in PCs
  PROVE  Resting(pc) \in Procs /\ NoEntry \in Entries
BY DEF Resting, Procs, NoEntry, Entries, Outcomes

(* The updates of a journal entry keep it an entry. *)
LEMMA EntryTyped ==
  ASSUME NEW e \in Entries, NEW stage \in Stages, NEW outcome \in Outcomes
  PROVE  Stage(e, stage) \in Entries /\ Resolved(e, stage, outcome) \in Entries
BY Zenon DEF Stage, Resolved, Entries

(* The record a new invocation starts with is an entry. *)
LEMMA ClaimedTyped ==
  ASSUME NEW n \in Nat
  PROVE  [NoEntry EXCEPT !.stage = "Claimed", !.receipt = n] \in Entries
BY DEF NoEntry, Entries, Stages, Outcomes

(* Adding a receipt to what the Authority saw keeps its type. *)
LEMMA ShownTyped ==
  ASSUME NEW S, NEW f \in [S -> SUBSET Nat], NEW a, NEW k \in Nat
  PROVE  [f EXCEPT ![a] = f[a] \cup {k}] \in [S -> SUBSET Nat]
<1> DEFINE g == [f EXCEPT ![a] = f[a] \cup {k}]
<1>1. \A i \in S : f[i] \cup {k} \in SUBSET Nat
  OBVIOUS
<1>2. \A i \in S : g[i] \in SUBSET Nat
  BY <1>1, Zenon
<1>3. g = [i \in S |-> g[i]]
  OBVIOUS
<1> HIDE DEF g
<1>4. g \in [S -> SUBSET Nat]
  BY <1>2, <1>3
<1> QED
  BY <1>4 DEF g

(* The moves of the worker keep it typed. *)
LEMMA GotoTyped ==
  ASSUME TypeOK, NEW pc \in PCs, NEW e \in Entries
  PROVE  Goto(pc, e) \in Procs
<1>1. proc \in Procs
  BY DEF TypeOK
<1> QED
  BY <1>1, Zenon DEF Goto, Procs

(* So do the ways to leave an invocation. *)
LEMMA NextItemTyped ==
  ASSUME TypeOK
  PROVE  NextItem \in Procs /\ AfterError \in Procs
<1>1. proc \in Procs
  BY DEF TypeOK
<1>2. proc.mode \in {"recover", "serve"} /\ proc.todo \ {proc.id} \in SUBSET Invocations
  BY <1>1 DEF Procs
<1>3. "recovering" \in PCs /\ "serving" \in PCs /\ "idle" \in PCs
  BY DEF PCs
<1>4. NextItem \in Procs
  BY <1>2, <1>3, RestingTyped DEF NextItem, Resting, Procs
<1> QED
  BY <1>3, <1>4, RestingTyped DEF AfterError

(* A step of the batch loop keeps the types. *)
LEMMA TypeBatch ==
  ASSUME TypeOK, Batch
  PROVE  TypeOK'
<1> USE DEF TypeOK, journal, authority, history, Fault
<1>1. /\ Resting("idle") \in Procs /\ Resting("recovering") \in Procs
      /\ Resting("serving") \in Procs
  BY RestingTyped DEF PCs
<1>2. CASE BeginBatch
  BY <1>1, <1>2 DEF BeginBatch, Procs
<1>3. CASE ClaimLost
  BY <1>1, <1>3 DEF ClaimLost
<1>4. CASE EndBatch
  BY <1>1, <1>4 DEF EndBatch
<1>5. ASSUME NEW i \in Invocations, RecoverNext(i)
      PROVE  TypeOK'
  <2>1. Recovery(latest[i]).pc \in PCs /\ Recovery(latest[i]).entry \in Entries
    BY DEF Recovery, PCs, Entries, Stages, Outcomes
  <2> QED
    BY <1>5, <2>1 DEF RecoverNext, Procs
<1>6. ASSUME NEW i \in Invocations, ServeNext(i)
      PROVE  TypeOK'
  BY <1>6 DEF ServeNext, Procs, PCs
<1>7. ASSUME NEW batch \in SUBSET Invocations, Claim(batch)
      PROVE  TypeOK'
  BY <1>1, <1>7 DEF Claim, Procs
<1> QED
  BY <1>2, <1>3, <1>4, <1>5, <1>6, <1>7 DEF Batch

(* So does a step that executes one invocation. *)
LEMMA TypeExecute ==
  ASSUME TypeOK, Addressed, Execute
  PROVE  TypeOK'
<1> USE DEF journal, authority, history
<1>a. proc.pc \in Busy => proc.id \in Invocations
  BY DEF Addressed
<1>1. NextItem \in Procs /\ AfterError \in Procs
  BY NextItemTyped
<1>2. proc.entry \in Entries /\ proc.entry.outcome \in Outcomes /\ proc.entry.receipt \in Nat
  BY DEF TypeOK, Procs, Entries
<1>3. ASSUME NEW stage \in Stages, NEW outcome \in Outcomes, NEW pc \in PCs
      PROVE  /\ Goto(pc, Stage(proc.entry, stage)) \in Procs
             /\ Goto(pc, Resolved(proc.entry, stage, outcome)) \in Procs
             /\ Goto(pc, proc.entry) \in Procs
  BY <1>2, EntryTyped, GotoTyped
<1>4. AppendFrame(proc.id, proc.entry) => disk' \in [Invocations -> Entries] /\ tail' \in {"clean", "torn", "buried"}
  BY <1>2 DEF AppendFrame, TypeOK
<1>5. Shown => shown' \in [Invocations -> SUBSET Nat]
  <2>1. shown \in [Invocations -> SUBSET Nat]
    BY DEF TypeOK
  <2>2. proc.entry.receipt \in Nat
    BY <1>2
  <2>3. [shown EXCEPT ![proc.id] = shown[proc.id] \cup {proc.entry.receipt}] \in [Invocations -> SUBSET Nat]
    BY <2>1, <2>2, ShownTyped, Zenon
  <2> QED
    BY <2>3, Zenon DEF Shown
<1>6. CASE Redeem
  <2>1. Goto("persist", [NoEntry EXCEPT !.stage = "Claimed", !.receipt = minted + 1]) \in Procs
    <3>1. minted + 1 \in Nat
      BY DEF TypeOK
    <3> QED
      BY <3>1, ClaimedTyped, GotoTyped DEF PCs
  <2>2. proc' \in Procs /\ minted' \in Nat
    <3>1. /\ Goto("persist", Stage(proc.entry, "Acknowledging")) \in Procs
          /\ Goto("persist", Stage(proc.entry, "Dispatching")) \in Procs
          /\ Goto("submit", proc.entry) \in Procs
      <4>1. "Acknowledging" \in Stages /\ "Dispatching" \in Stages /\ "persist" \in PCs /\ "submit" \in PCs
        BY DEF Stages, PCs
      <4> QED
        BY <1>2, <1>3, <4>1
    <3>2. minted \in Nat /\ minted + 1 \in Nat
      BY DEF TypeOK
    <3>3. /\ minted' \in {minted, minted + 1}
          /\ proc' \in {Goto("persist", [NoEntry EXCEPT !.stage = "Claimed", !.receipt = minted + 1]), NextItem,
                        Goto("persist", Stage(proc.entry, "Acknowledging")),
                        Goto("persist", Stage(proc.entry, "Dispatching")), Goto("submit", proc.entry)}
      BY <1>6 DEF Redeem
    <3> QED
      BY <1>1, <2>1, <3>1, <3>2, <3>3
  <2> QED
    BY <1>6, <2>2 DEF Redeem, TypeOK
<1>7. CASE RedeemFails
  BY <1>1, <1>7 DEF RedeemFails, TypeOK, Fault
<1>8. CASE Persist
  <2>1. AfterPersist(proc.entry) \in Procs
    BY <1>1, <1>3 DEF AfterPersist, Stages, Outcomes, PCs
  <2> QED
    BY <1>2, <1>4, <1>8, <2>1 DEF Persist, TypeOK
<1>9. CASE PersistFails
  BY <1>1, <1>4, <1>9 DEF PersistFails, TypeOK, Fault, Tear
<1>10. CASE Acknowledge
  <2>1. proc' \in Procs
    BY <1>3, <1>10 DEF Acknowledge, Stages, Outcomes, PCs
  <2> QED
    BY <1>a, <1>5, <1>10, <2>1 DEF Acknowledge, TypeOK, Busy
<1>11. CASE AcknowledgeRefused
  BY <1>1, <1>5, <1>11 DEF AcknowledgeRefused, TypeOK, Fault
<1>12. CASE AcknowledgeLost
  BY <1>a, <1>1, <1>5, <1>12 DEF AcknowledgeLost, TypeOK, Fault, Busy
<1>13. CASE RefuseDispatch \/ Respond
  BY <1>3, <1>13 DEF RefuseDispatch, Respond, TypeOK, Stages, Outcomes, PCs
<1>14. CASE Send
  <2>1. proc' \in Procs
    BY <1>3, <1>14 DEF Send, Stages, Outcomes, PCs
  <2> QED
    BY <1>a, <1>14, <2>1 DEF Send, TypeOK, Busy
<1>15. CASE RespondLost
  BY <1>3, <1>15 DEF RespondLost, Uncertain, TypeOK, Fault, Stages, Outcomes, PCs
<1>16. CASE Submit
  BY <1>2, <1>3, <1>5, <1>16 DEF Submit, Accept, TypeOK, Stages, Outcomes, PCs
<1>17. CASE SubmitRefused
  <2>1. Goto("persist", Resolved(proc.entry, "ResultReady", "failed")) \in Procs
    BY <1>3 DEF Stages, Outcomes, PCs
  <2>2. \A p \in Procs : [p EXCEPT !.attempt = 1] \in Procs
    BY DEF Procs
  <2> QED
    BY <1>a, <1>1, <1>5, <1>17, <2>1, <2>2 DEF SubmitRefused, TypeOK, Fault, Busy
<1>18. CASE SubmitLost
  BY <1>1, <1>2, <1>5, <1>18 DEF SubmitLost, Accept, TypeOK, Fault
<1> QED
  BY <1>6, <1>7, <1>8, <1>9, <1>10, <1>11, <1>12, <1>13, <1>14, <1>15, <1>16, <1>17, <1>18 DEF Execute

(* The worker has an invocation whenever it needs one. *)
LEMMA AddressedNext ==
  ASSUME TypeOK, Addressed, [Next]_vars
  PROVE  Addressed'
<1> USE DEF Addressed, Busy
<1>a. proc \in Procs
  BY DEF TypeOK
<1>b. /\ ~ \E pc \in {"idle", "down", "recovering", "serving"} : pc \in Busy
      /\ \A pc \in PCs : Resting(pc).pc = pc
      /\ NextItem.pc \in {"recovering", "serving"} /\ AfterError.pc \in {"recovering", "serving", "idle"}
  BY DEF Resting, PCs, NextItem, AfterError
<1>c. \A pc \in PCs, e \in Entries : Goto(pc, e).id = proc.id
  BY <1>a DEF Goto, Procs
<1>1. CASE Open \/ Crash
  BY <1>b, <1>1 DEF Open, Crash, PCs
<1>2. CASE Batch
  <2>1. CASE BeginBatch \/ ClaimLost \/ EndBatch
    BY <1>a, <1>b, <2>1 DEF BeginBatch, ClaimLost, EndBatch, PCs, Resting, Procs
  <2>2. ASSUME NEW i \in Invocations, RecoverNext(i) \/ ServeNext(i)
        PROVE  Addressed'
    BY <1>a, <1>b, <2>2 DEF RecoverNext, ServeNext, Procs
  <2>3. ASSUME NEW batch \in SUBSET Invocations, Claim(batch)
        PROVE  Addressed'
    <3>1. proc'.pc = "serving"
      BY <2>3 DEF Claim, Resting
    <3> QED
      BY <1>b, <3>1
  <2> QED
    BY <1>2, <2>1, <2>2, <2>3 DEF Batch
<1>3. CASE Execute
  <2>1. CASE Redeem \/ RedeemFails
    BY <1>a, <1>b, <2>1 DEF Redeem, RedeemFails, Goto, Procs
  <2>2. CASE Persist \/ PersistFails
    BY <1>a, <1>b, <2>2 DEF Persist, PersistFails, AfterPersist, Goto, Procs
  <2>3. CASE Acknowledge \/ AcknowledgeRefused \/ AcknowledgeLost
    BY <1>a, <1>b, <2>3 DEF Acknowledge, AcknowledgeRefused, AcknowledgeLost, Goto, Procs
  <2>4. CASE RefuseDispatch \/ Send \/ Respond \/ RespondLost
    BY <1>a, <1>b, <2>4 DEF RefuseDispatch, Send, Respond, RespondLost, Goto, Procs
  <2>5. CASE Submit \/ SubmitRefused \/ SubmitLost
    BY <1>a, <1>b, <2>5 DEF Submit, SubmitRefused, SubmitLost, Goto, Procs
  <2> QED
    BY <1>3, <2>1, <2>2, <2>3, <2>4, <2>5 DEF Execute
<1>4. CASE UNCHANGED vars \/ \E i \in Invocations : Approve(i) \/ Expire(i)
  BY <1>4 DEF vars, Approve, Expire
<1> QED
  BY <1>1, <1>2, <1>3, <1>4 DEF Next

(* Every step keeps the types. *)
LEMMA TypeNext ==
  ASSUME TypeOK, Addressed, [Next]_vars
  PROVE  TypeOK'
<1> USE DEF TypeOK, journal, authority, history, Fault
<1>1. /\ Resting("idle") \in Procs /\ Resting("down") \in Procs
      /\ EmptyJournal \in [Invocations -> Entries]
  BY RestingTyped DEF PCs, EmptyJournal
<1>2. CASE Open
  BY <1>1, <1>2 DEF Open
<1>3. CASE Crash
  <2>1. proc.entry \in Entries
    BY DEF Procs
  <2>2. disk' \in [Invocations -> Entries] /\ tail' \in {"clean", "torn", "buried"}
    BY <1>3, <2>1 DEF Crash, AppendFrame, Tear
  <2>3. faults' \in Nat
    BY <1>3 DEF Crash
  <2> QED
    BY <1>1, <1>3, <2>2, <2>3, Zenon DEF Crash
<1>4. ASSUME NEW i \in Invocations, Approve(i) \/ Expire(i)
      PROVE  TypeOK'
  BY <1>4 DEF Approve, Expire
<1>5. CASE UNCHANGED vars
  BY <1>5 DEF vars
<1> QED
  BY <1>2, <1>3, <1>4, <1>5, TypeBatch, TypeExecute DEF Next

(* THEOREM ConnectorTypes: the journal, the worker and the Authority's     *)
(* records keep their shape, with every fault the model knows.             *)
THEOREM ConnectorTypes == Spec => []TypeOK
<1>1. Init => TypeOK /\ Addressed
  <2>1. Resting("down") \in Procs /\ NoEntry \in Entries /\ Resting("down").pc = "down"
    BY RestingTyped DEF PCs, Resting
  <2>0. 0 \in Nat /\ "down" \notin Busy /\ "clean" \in {"clean", "torn", "buried"}
    BY DEF Busy
  <2>2. [i \in Invocations |-> {}] \in [Invocations -> SUBSET Nat]
    BY Zenon
  <2>3. /\ EmptyJournal \in [Invocations -> Entries]
        /\ [i \in Invocations |-> "none"] \in [Invocations -> Outcomes \cup {"none"}]
        /\ [i \in Invocations |-> 0] \in [Invocations -> Nat]
    BY <2>1 DEF EmptyJournal
  <2> QED
    BY <2>0, <2>1, <2>2, <2>3, Zenon DEF Init, TypeOK, Addressed
<1>2. TypeOK /\ Addressed /\ [Next]_vars => (TypeOK /\ Addressed)'
  BY TypeNext, AddressedNext
<1> QED
  BY <1>1, <1>2, PTL DEF Spec

-----------------------------------------------------------------------------
(* Safety. *)

(* The fields of a worker at rest, before its next item and at its next step. *)
LEMMA WorkerFields ==
  ASSUME TypeOK
  PROVE  /\ \A pc \in PCs : /\ Resting(pc).pc = pc /\ Resting(pc).mode = "recover"
                            /\ Resting(pc).todo = {}
         /\ \A p \in Procs, todo \in SUBSET Invocations :
              /\ [p EXCEPT !.todo = todo].pc = p.pc
              /\ [p EXCEPT !.todo = todo].mode = p.mode
              /\ [p EXCEPT !.todo = todo].todo = todo
         /\ \A p \in Procs, todo \in SUBSET Invocations, mode \in {"recover", "serve"} :
              /\ [p EXCEPT !.mode = mode, !.todo = todo].pc = p.pc
              /\ [p EXCEPT !.mode = mode, !.todo = todo].mode = mode
              /\ [p EXCEPT !.mode = mode, !.todo = todo].todo = todo
         /\ \A pc \in PCs, e \in Entries :
              /\ Goto(pc, e).pc = pc /\ Goto(pc, e).entry = e
              /\ Goto(pc, e).id = proc.id /\ Goto(pc, e).mode = proc.mode
              /\ Goto(pc, e).todo = proc.todo
         /\ NextItem.pc = IF proc.mode = "recover" THEN "recovering" ELSE "serving"
         /\ NextItem.mode = proc.mode /\ NextItem.todo = proc.todo \ {proc.id}
<1>a. proc \in Procs
  BY DEF TypeOK
<1>1. \A pc \in PCs : /\ Resting(pc).pc = pc /\ Resting(pc).mode = "recover"
                     /\ Resting(pc).todo = {}
  BY DEF Resting
<1>2. \A p \in Procs, todo \in SUBSET Invocations :
              /\ [p EXCEPT !.todo = todo].pc = p.pc
              /\ [p EXCEPT !.todo = todo].mode = p.mode
              /\ [p EXCEPT !.todo = todo].todo = todo
  BY DEF Procs
<1>3. \A p \in Procs, todo \in SUBSET Invocations, mode \in {"recover", "serve"} :
              /\ [p EXCEPT !.mode = mode, !.todo = todo].pc = p.pc
              /\ [p EXCEPT !.mode = mode, !.todo = todo].mode = mode
              /\ [p EXCEPT !.mode = mode, !.todo = todo].todo = todo
  BY DEF Procs
<1>4. \A pc \in PCs, e \in Entries :
              /\ Goto(pc, e).pc = pc /\ Goto(pc, e).entry = e
              /\ Goto(pc, e).id = proc.id /\ Goto(pc, e).mode = proc.mode
              /\ Goto(pc, e).todo = proc.todo
  BY <1>a DEF Goto, Procs
<1>5. /\ NextItem.pc = IF proc.mode = "recover" THEN "recovering" ELSE "serving"
      /\ NextItem.mode = proc.mode /\ NextItem.todo = proc.todo \ {proc.id}
  BY DEF NextItem, Resting
<1> QED
  BY <1>1, <1>2, <1>3, <1>4, <1>5

(* Steps of the batch loop touch the worker only. *)
LEMMA InvBatch ==
  ASSUME IInv, Batch
  PROVE  JournalInv' /\ WorkerInv' /\ TodoInv' /\ ProductInv'
<1> USE DEF journal, authority, history, IInv
<1>a. proc \in Procs /\ latest \in [Invocations -> Entries] /\ TypeOK
  BY DEF TypeOK
<1>b. UNCHANGED <<disk, tail, latest, acked, accepted, refused, ran, synced, dispatches, shown>>
  BY DEF Batch, BeginBatch, ClaimLost, EndBatch, RecoverNext, ServeNext, Claim
<1>f. ASSUME NEW pc \in {"idle", "recovering", "serving"}, proc'.pc = pc, proc.pc # "down",
             pc # "idle" => TodoInv'
      PROVE  JournalInv' /\ WorkerInv' /\ TodoInv' /\ ProductInv'
  BY <1>b, <1>f DEF JournalInv, ProductInv, WorkerInv, TodoInv, Truthful, Follows, Busy
<1>g. /\ Resting("idle").pc = "idle"
      /\ \A todo \in SUBSET Invocations :
           /\ [Resting("recovering") EXCEPT !.todo = todo].pc = "recovering"
           /\ [Resting("recovering") EXCEPT !.todo = todo].mode = "recover"
           /\ [Resting("recovering") EXCEPT !.todo = todo].todo = todo
           /\ [Resting("serving") EXCEPT !.mode = "serve", !.todo = todo].pc = "serving"
           /\ [Resting("serving") EXCEPT !.mode = "serve", !.todo = todo].mode = "serve"
           /\ [Resting("serving") EXCEPT !.mode = "serve", !.todo = todo].todo = todo
  BY DEF Resting
<1>3. CASE BeginBatch
  <2>1. proc'.pc = "recovering" /\ proc'.todo = {i \in Invocations : latest[i].stage \notin {"none", "Submitted"}}
        /\ proc'.mode = "recover" /\ proc.pc = "idle"
    BY <1>g, <1>3 DEF BeginBatch
  <2>2. TodoInv'
    BY <1>b, <2>1 DEF TodoInv, Busy
  <2> QED
    BY <1>f, <2>1, <2>2
<1>4. CASE ClaimLost \/ EndBatch
  <2>1. proc'.pc = "idle" /\ proc.pc # "down"
    BY <1>g, <1>4 DEF ClaimLost, EndBatch
  <2> QED
    BY <1>f, <2>1
<1>5. ASSUME NEW batch \in SUBSET Invocations, Claim(batch)
      PROVE  JournalInv' /\ WorkerInv' /\ TodoInv' /\ ProductInv'
  <2>1. proc'.pc = "serving" /\ proc'.todo = batch /\ proc'.mode = "serve" /\ proc.pc = "recovering"
        /\ proc.todo = {}
    BY <1>g, <1>5 DEF Claim
  <2>2. TodoInv'
    BY <1>b, <2>1 DEF TodoInv, Busy
  <2> QED
    BY <1>f, <2>1, <2>2
<1>6. ASSUME NEW i \in Invocations, RecoverNext(i)
      PROVE  JournalInv' /\ WorkerInv' /\ TodoInv' /\ ProductInv'
  <2>1. /\ proc'.id = i /\ proc'.pc = Recovery(latest[i]).pc /\ proc'.entry = Recovery(latest[i]).entry
        /\ proc'.mode = proc.mode /\ proc'.todo = proc.todo /\ proc.pc = "recovering"
    BY <1>a, <1>6 DEF RecoverNext, Procs
  <2>2. latest[i] \in Entries /\ Truthful(i, latest[i])
    BY <1>a, <2>1 DEF JournalInv
  <2>3. JournalInv' /\ ProductInv'
    BY <1>b, <2>1 DEF JournalInv, ProductInv, Truthful, Follows, Recovery
  <2>4. CASE latest[i].stage = "Dispatching"
    <3>1. /\ proc'.pc = "persist" /\ proc'.entry.stage = "UnknownResult"
          /\ proc'.entry.outcome = "unknown" /\ proc'.entry.receipt = latest[i].receipt
      BY <2>1, <2>2, <2>4 DEF Recovery, Entries
    <3>2. Truthful(i, proc'.entry)
      BY <2>2, <2>4, <3>1 DEF Truthful, Early, Late, Answered, Outcomes
    <3>3. Follows(i, latest[i], proc'.entry)
      BY <2>4, <3>1 DEF Follows, Answered
    <3>4. WorkerInv'
      BY <1>b, <2>1, <3>1, <3>2, <3>3 DEF WorkerInv, Truthful, Follows
    <3> QED
      BY <1>b, <1>6, <2>1, <2>3, <3>1, <3>4 DEF TodoInv, RecoverNext
  <2>5. CASE latest[i].stage \in Answered
    <3>1. proc'.pc = "submit" /\ proc'.entry = latest[i]
      BY <2>1, <2>5 DEF Recovery, Answered
    <3> QED
      BY <1>b, <1>6, <2>1, <2>3, <2>5, <3>1 DEF TodoInv, WorkerInv, RecoverNext
  <2>6. CASE latest[i].stage \notin Answered \cup {"Dispatching"}
    <3>1. proc'.pc = "redeem" /\ proc'.entry = latest[i]
      BY <2>1, <2>6 DEF Recovery, Answered
    <3> QED
      BY <1>b, <1>6, <2>1, <2>3, <2>6, <3>1 DEF TodoInv, WorkerInv, RecoverNext
  <2> QED
    BY <2>4, <2>5, <2>6
<1>7. ASSUME NEW i \in Invocations, ServeNext(i)
      PROVE  JournalInv' /\ WorkerInv' /\ TodoInv' /\ ProductInv'
  <2>1. /\ proc'.id = i /\ proc'.pc = "redeem" /\ proc'.entry = latest[i] /\ i \in proc.todo
        /\ proc'.mode = proc.mode /\ proc'.todo = proc.todo /\ proc.pc = "serving"
    BY <1>a, <1>7 DEF ServeNext, Procs
  <2>2. JournalInv' /\ ProductInv'
    BY <1>b, <2>1 DEF JournalInv, ProductInv, Truthful, Follows
  <2>3. \A k \in proc.todo : latest[k].stage # "Dispatching"
    BY <2>1 DEF TodoInv
  <2> QED
    BY <1>b, <2>1, <2>2, <2>3 DEF TodoInv, WorkerInv
<1> QED
  BY <1>3, <1>4, <1>5, <1>6, <1>7 DEF Batch

(* The worker leaves its invocation: nothing is left half done. *)
LEMMA Leave ==
  ASSUME IInv, proc.pc \in Busy,
         \/ proc' = AfterError
         \/ proc' = NextItem /\ latest'[proc.id].stage # "Dispatching",
         \A k \in Invocations \ {proc.id} : latest'[k] = latest[k]
  PROVE  WorkerInv' /\ TodoInv' /\ proc'.pc \in {"idle", "recovering", "serving"}
<1>a. TypeOK /\ TodoInv /\ proc \in Procs /\ Addressed
  BY DEF IInv, TypeOK
<1>b. proc.id \in Invocations /\ proc.mode \in {"recover", "serve"} /\ proc.pc \notin {"down", "idle"}
      /\ proc.todo \in SUBSET Invocations
  BY <1>a DEF Addressed, Procs, Busy
<1>c. "idle" \in PCs /\ \A pc \in {"idle", "recovering", "serving"} : pc \notin Busy \cup {"down"}
  BY DEF PCs, Busy
<1>1. CASE proc' = Resting("idle")
  <2>1. proc'.pc = "idle"
    BY <1>a, <1>c, <1>1, WorkerFields
  <2> QED
    BY <1>c, <2>1 DEF WorkerInv, TodoInv
<1>2. CASE /\ proc' = NextItem
           /\ proc.mode = "serve" \/ latest'[proc.id].stage # "Dispatching"
  <2>1. /\ proc'.pc = IF proc.mode = "recover" THEN "recovering" ELSE "serving"
        /\ proc'.mode = proc.mode /\ proc'.todo = proc.todo \ {proc.id}
    BY <1>a, <1>2, WorkerFields
  <2>2. WorkerInv'
    BY <1>c, <2>1 DEF WorkerInv
  <2>3. TodoInv'
    BY <1>a, <1>b, <1>c, <1>2, <2>1 DEF TodoInv
  <2> QED
    BY <2>1, <2>2, <2>3
<1> QED
  BY <1>b, <1>1, <1>2 DEF AfterError

(* The worker goes on with its invocation. *)
LEMMA GoOn ==
  ASSUME IInv, proc.pc \in Busy, proc'.pc \in Busy, proc'.id = proc.id,
         proc'.mode = proc.mode, proc'.todo = proc.todo,
         \A k \in Invocations \ {proc.id} : latest'[k] = latest[k],
         latest'[proc.id].stage = "Dispatching" => proc'.pc \in {"persist", "dispatch", "in_flight"}
  PROVE  TodoInv'
<1>a. TodoInv /\ proc \in Procs /\ Addressed
  BY DEF IInv, TypeOK
<1>b. proc.todo \in SUBSET Invocations /\ proc.pc \notin {"down", "idle"}
  BY <1>a DEF Procs, Busy
<1> QED
  BY <1>a, <1>b DEF TodoInv, Busy

(* The world is the same for every invocation but i. *)
Elsewhere(i) ==
  \A k \in Invocations \ {i} :
    /\ k \in acked' <=> k \in acked
    /\ k \in ran' <=> k \in ran
    /\ k \in refused' <=> k \in refused
    /\ accepted'[k] = accepted[k] /\ dispatches'[k] = dispatches[k] /\ shown'[k] = shown[k]

(* A step about invocation i that leaves the journal alone keeps it truthful. *)
LEMMA JournalKept ==
  ASSUME IInv, NEW i \in Invocations, proc.pc # "down", proc'.pc # "down",
         UNCHANGED <<disk, tail, latest, synced>>, Elsewhere(i), refused \subseteq refused',
         Truthful(i, disk[i])', Truthful(i, latest[i])'
  PROVE  JournalInv'
<1>a. JournalInv /\ TypeOK
  BY DEF IInv
<1>1. \A k \in Invocations \ {i} : /\ Truthful(k, disk[k])' /\ Truthful(k, latest[k])'
  BY <1>a DEF JournalInv, Truthful, Elsewhere
<1>2. \A k \in Invocations : Follows(k, latest[k], disk[k]) => Follows(k, latest[k], disk[k])'
  BY DEF Follows
<1> QED
  BY <1>a, <1>1, <1>2 DEF JournalInv

(* A step that leaves the world alone. *)
LEMMA WorldKept ==
  ASSUME IInv, UNCHANGED <<acked, accepted, refused, ran, dispatches, shown>>
  PROVE  /\ ProductInv' /\ \A i \in Invocations : Elsewhere(i)
         /\ \A i, e : Truthful(i, e) => Truthful(i, e)'
BY DEF IInv, ProductInv, Elsewhere, Truthful

(* What the worker holds when it executes. *)
LEMMA Holding ==
  ASSUME IInv, proc.pc \in Busy
  PROVE  /\ TypeOK /\ proc \in Procs /\ proc.id \in Invocations /\ proc.entry \in Entries
         /\ proc.pc \notin {"down", "idle"} /\ tail = "clean"
         /\ latest[proc.id] \in Entries /\ disk[proc.id] \in Entries
         /\ Truthful(proc.id, latest[proc.id]) /\ Truthful(proc.id, disk[proc.id])
         /\ disk[proc.id] = latest[proc.id] \/ Follows(proc.id, latest[proc.id], disk[proc.id])
         /\ dispatches[proc.id] \in Nat
<1>1. TypeOK /\ proc \in Procs /\ proc.id \in Invocations /\ proc.pc \notin {"down", "idle"}
  BY DEF IInv, TypeOK, Addressed, Busy
<1>2. proc.entry \in Entries /\ dispatches[proc.id] \in Nat
  BY <1>1 DEF TypeOK, Procs
<1>3. latest[proc.id] \in Entries /\ disk[proc.id] \in Entries
  BY <1>1 DEF TypeOK
<1> QED
  BY <1>1, <1>2, <1>3 DEF IInv, JournalInv

(* The worker is about to write a record that says what is the case. *)
LEMMA WriteNext ==
  ASSUME IInv, proc.pc \in Busy, NEW i \in Invocations, i = proc.id, NEW f \in Entries,
         proc' = Goto("persist", f) \/ proc' = [Goto("persist", f) EXCEPT !.attempt = 1],
         UNCHANGED latest, Truthful(i, f)', Follows(i, latest[i], f)'
  PROVE  WorkerInv' /\ TodoInv' /\ proc'.pc # "down"
<1>1. Goto("persist", f) \in Procs
  BY GotoTyped DEF PCs, IInv
<1>2. /\ Goto("persist", f).pc = "persist" /\ Goto("persist", f).entry = f
      /\ Goto("persist", f).id = i /\ Goto("persist", f).mode = proc.mode
      /\ Goto("persist", f).todo = proc.todo
  BY WorkerFields DEF PCs, IInv
<1>3. \A p \in Procs : LET q == [p EXCEPT !.attempt = 1] IN
        q.pc = p.pc /\ q.entry = p.entry /\ q.id = p.id /\ q.mode = p.mode /\ q.todo = p.todo
  BY DEF Procs
<1>4. /\ proc'.pc = "persist" /\ proc'.entry = f /\ proc'.id = i /\ proc'.mode = proc.mode
      /\ proc'.todo = proc.todo
  BY <1>1, <1>2, <1>3
<1>5. TodoInv'
  BY <1>4, GoOn DEF Busy
<1>6. WorkerInv'
  BY <1>4 DEF WorkerInv, Busy
<1> QED
  BY <1>4, <1>5, <1>6

(* execute_validated up to the write of the next stage. *)
LEMMA InvRedeem ==
  ASSUME IInv, Redeem
  PROVE  JournalInv' /\ WorkerInv' /\ TodoInv' /\ ProductInv'
<1> DEFINE e == proc.entry
<1> USE DEF journal, authority, history
<1>a. proc.pc = "redeem" /\ proc.pc \in Busy
  BY DEF Redeem, Busy
<1>i. PICK i \in Invocations : i = proc.id
  BY <1>a, Holding
<1>b. e = latest[i] /\ e.stage # "Dispatching"
  BY <1>a, <1>i DEF IInv, WorkerInv
<1>c. UNCHANGED <<disk, tail, latest, synced, acked, accepted, refused, ran, dispatches, shown>>
  BY DEF Redeem
<1>d. e \in Entries /\ Truthful(i, e) /\ i \in Invocations /\ TypeOK /\ Truthful(i, disk[i])
  BY <1>a, <1>b, <1>i, Holding
<1>e. proc'.pc # "down" => JournalInv' /\ ProductInv'
  BY <1>a, <1>c, <1>d, <1>b, WorldKept, JournalKept
<1>1. ASSUME NEW f \in Entries, proc' = Goto("persist", f), Truthful(i, f), Follows(i, latest[i], f)
      PROVE  JournalInv' /\ WorkerInv' /\ TodoInv' /\ ProductInv'
  <2>1. Truthful(i, f)' /\ Follows(i, latest[i], f)'
    BY <1>c, <1>1 DEF Truthful, Follows, Redeem
  <2> QED
    BY <1>a, <1>c, <1>e, <1>i, <1>1, <2>1, WriteNext
<1>2. CASE e.stage = "none"
  <2> DEFINE f == [NoEntry EXCEPT !.stage = "Claimed", !.receipt = minted + 1]
  <2>1. proc' = Goto("persist", f)
    BY <1>2 DEF Redeem
  <2>2. f \in Entries
    <3>1. minted + 1 \in Nat
      BY <1>d DEF TypeOK
    <3> QED
      BY <3>1, ClaimedTyped, Zenon
  <2>3. f.stage = "Claimed" /\ f.outcome = "unspecified"
    BY DEF NoEntry
  <2> HIDE DEF f
  <2>4. Truthful(i, f) /\ Follows(i, latest[i], f)
    BY <1>b, <1>d, <1>2, <2>3 DEF Truthful, Follows, Early, Late, Answered
  <2> QED
    BY <1>1, <2>1, <2>2, <2>4
<1>3. CASE e.stage \in {"Claimed", "Acknowledging", "Acknowledged"}
  <2> DEFINE s == IF e.stage = "Acknowledged" THEN "Dispatching" ELSE "Acknowledging"
             f == Stage(e, s)
  <2>1. proc' = Goto("persist", f)
    BY <1>3 DEF Redeem
  <2>2. f \in Entries /\ f.stage = s /\ f.outcome = e.outcome /\ f.receipt = e.receipt
    BY <1>d DEF Stage, Entries, Stages
  <2> HIDE DEF f
  <2>3. Truthful(i, f) /\ Follows(i, latest[i], f)
    BY <1>b, <1>d, <1>3, <2>2 DEF Truthful, Follows, Early, Late, Answered
  <2> QED
    BY <1>1, <2>1, <2>2, <2>3
<1>4. CASE e.stage = "Submitted"
  <2>1. proc' = NextItem
    BY <1>4 DEF Redeem
  <2>2. WorkerInv' /\ TodoInv' /\ proc'.pc \in {"idle", "recovering", "serving"}
    BY <1>a, <1>b, <1>c, <1>i, <1>4, <2>1, Leave
  <2> QED
    BY <1>e, <2>2
<1>5. CASE e.stage \in Answered
  <2>1. proc' = Goto("submit", e)
    BY <1>5 DEF Redeem, Answered
  <2>2. proc'.pc = "submit" /\ proc'.entry = e /\ proc'.id = i /\ proc'.mode = proc.mode
        /\ proc'.todo = proc.todo
    BY <1>d, <1>i, <2>1, WorkerFields DEF PCs
  <2>3. TodoInv'
    BY <1>a, <1>b, <1>c, <1>i, <2>2, GoOn DEF Busy
  <2>4. WorkerInv'
    BY <1>b, <1>c, <1>5, <2>2 DEF WorkerInv
  <2> QED
    BY <1>e, <2>2, <2>3, <2>4
<1> QED
  BY <1>b, <1>d, <1>2, <1>3, <1>4, <1>5 DEF Entries, Stages, Answered

(* A failed redemption and a refused acknowledgement leave the entry as it is. *)
LEMMA InvRedeemFails ==
  ASSUME IInv, RedeemFails
  PROVE  JournalInv' /\ WorkerInv' /\ TodoInv' /\ ProductInv'
<1>a. proc.pc \in Busy /\ proc' = AfterError
  BY DEF RedeemFails, Busy
<1>b. UNCHANGED <<disk, tail, latest, synced, acked, accepted, refused, ran, dispatches, shown>>
  BY DEF RedeemFails, journal, authority, history
<1>i. PICK i \in Invocations : i = proc.id
  BY <1>a, Holding
<1>1. WorkerInv' /\ TodoInv' /\ proc'.pc \in {"idle", "recovering", "serving"}
  BY <1>a, <1>b, Leave
<1>2. Truthful(i, disk[i])' /\ Truthful(i, latest[i])'
  BY <1>a, <1>b, <1>i, Holding DEF Truthful
<1> QED
  BY <1>a, <1>b, <1>1, <1>2, Holding, WorldKept, JournalKept

(* The next record of an invocation is never behind the latest one. *)
LEMMA FollowsRank ==
  ASSUME NEW i, NEW e \in Entries, NEW f \in Entries, Follows(i, e, f)
  PROVE  Rank(e.stage) <= Rank(f.stage) /\ Rank(e.stage) \in Nat /\ Rank(f.stage) \in Nat
BY DEF Follows, Rank, Entries, Stages, Answered

(* A stage that is written makes the next step legal. *)
LEMMA InvPersist ==
  ASSUME IInv, Persist
  PROVE  JournalInv' /\ WorkerInv' /\ TodoInv' /\ ProductInv'
<1> DEFINE e == proc.entry
<1>a. proc.pc = "persist" /\ proc.pc \in Busy
  BY DEF Persist, Busy
<1>i. PICK i \in Invocations : i = proc.id
  BY <1>a, Holding
<1>b. /\ latest' = [latest EXCEPT ![i] = e] /\ synced' = [synced EXCEPT ![i] = e]
      /\ disk' = [disk EXCEPT ![i] = e] /\ tail' = tail /\ tail = "clean"
      /\ UNCHANGED <<acked, accepted, refused, ran, dispatches, shown>>
      /\ proc' = AfterPersist(e)
  BY <1>a, <1>i, Holding DEF Persist, AppendFrame, authority
<1>c. /\ TypeOK /\ JournalInv /\ e \in Entries /\ Truthful(i, e) /\ Follows(i, latest[i], e)
      /\ dispatches[i] \in Nat /\ latest[i] \in Entries
  BY <1>a, <1>i, Holding DEF IInv, WorkerInv
<1>d. /\ disk'[i] = e /\ latest'[i] = e /\ synced'[i] = e
      /\ \A k \in Invocations \ {i} :
           disk'[k] = disk[k] /\ latest'[k] = latest[k] /\ synced'[k] = synced[k]
  BY <1>b, <1>c DEF TypeOK
<1>1. proc'.pc # "down" => JournalInv'
  <2>1. \A k \in Invocations \ {i} : /\ Truthful(k, disk[k])' /\ Truthful(k, latest[k])'
    BY <1>a, <1>b, <1>c, <1>d DEF JournalInv, Truthful
  <2>2. Truthful(i, disk[i])' /\ Truthful(i, latest[i])'
    BY <1>b, <1>c, <1>d DEF Truthful
  <2>3. \A k \in Invocations \ {i} : Follows(k, latest[k], disk[k]) => Follows(k, latest[k], disk[k])'
    BY <1>b, <1>d DEF Follows
  <2>4. Rank(e.stage) <= Rank(e.stage)
    BY <1>c, FollowsRank
  <2> QED
    BY <1>a, <1>b, <1>c, <1>d, <2>1, <2>2, <2>3, <2>4 DEF JournalInv
<1>2. ProductInv'
  BY <1>b, WorldKept
<1>3. CASE e.stage = "Submitted"
  <2>1. proc' = NextItem
    BY <1>b, <1>3 DEF AfterPersist
  <2> QED
    BY <1>a, <1>d, <1>i, <1>1, <1>2, <1>3, <2>1, Leave
<1>4. CASE e.stage \in {"Claimed", "Acknowledged"}
  <2> DEFINE f == Stage(e, IF e.stage = "Claimed" THEN "Acknowledging" ELSE "Dispatching")
  <2>1. proc' = Goto("persist", f)
    BY <1>b, <1>4 DEF AfterPersist
  <2>2. /\ f \in Entries /\ f.outcome = e.outcome /\ f.receipt = e.receipt
        /\ f.stage = IF e.stage = "Claimed" THEN "Acknowledging" ELSE "Dispatching"
    BY <1>c, <1>4 DEF Stage, Entries, Stages
  <2> HIDE DEF f
  <2>3. Truthful(i, f) /\ Follows(i, e, f)
    BY <1>c, <1>4, <2>2 DEF Truthful, Follows, Early, Late, Answered
  <2>4. /\ proc'.pc = "persist" /\ proc'.entry = f /\ proc'.id = i /\ proc'.mode = proc.mode
        /\ proc'.todo = proc.todo
    BY <1>c, <1>i, <2>1, <2>2, WorkerFields DEF PCs
  <2>5. TodoInv'
    BY <1>a, <1>d, <1>i, <2>4, GoOn DEF Busy
  <2>6. WorkerInv'
    BY <1>b, <1>d, <2>3, <2>4 DEF WorkerInv, Truthful, Follows
  <2> QED
    BY <1>1, <1>2, <2>4, <2>5, <2>6
<1>5. CASE e.stage \in {"Acknowledging", "Dispatching"} \cup Answered
  <2> DEFINE pc == IF e.stage = "Acknowledging" THEN "ack"
                   ELSE IF e.stage = "Dispatching" THEN "dispatch" ELSE "submit"
  <2>1. proc' = Goto(pc, e)
    BY <1>b, <1>5 DEF AfterPersist, Answered
  <2>2. /\ proc'.pc = pc /\ proc'.entry = e /\ proc'.id = i /\ proc'.mode = proc.mode
        /\ proc'.todo = proc.todo
    BY <1>c, <1>i, <2>1, WorkerFields DEF PCs
  <2>3. TodoInv'
    BY <1>a, <1>d, <1>i, <2>2, GoOn DEF Busy
  <2>4. e.stage = "Dispatching" => dispatches[i] = 0
    <3>1. e.stage = "Dispatching" => latest[i].stage = "Acknowledged"
      BY <1>c DEF Follows, Answered
    <3>2. Truthful(i, latest[i])
      BY <1>a, <1>i, Holding
    <3> QED
      BY <1>c, <3>1, <3>2 DEF Truthful, Late, Answered
  <2>5. WorkerInv'
    BY <1>b, <1>d, <1>5, <2>2, <2>4 DEF WorkerInv, Answered
  <2> QED
    BY <1>1, <1>2, <2>2, <2>3, <2>5
<1> QED
  BY <1>c, <1>3, <1>4, <1>5 DEF Follows, Answered

(* A write that fails leaves the file as it was, or with the next record. *)
LEMMA InvPersistFails ==
  ASSUME IInv, "torn" \notin FaultKinds, PersistFails
  PROVE  JournalInv' /\ WorkerInv' /\ TodoInv' /\ ProductInv'
<1> DEFINE e == proc.entry
<1>a. proc.pc = "persist" /\ proc.pc \in Busy /\ proc' = AfterError
  BY DEF PersistFails, Busy
<1>i. PICK i \in Invocations : i = proc.id
  BY <1>a, Holding
<1>b. /\ disk' = disk \/ disk' = [disk EXCEPT ![i] = e]
      /\ tail' = tail /\ tail = "clean"
      /\ UNCHANGED <<latest, synced, acked, accepted, refused, ran, dispatches, shown>>
  BY <1>a, <1>i, Holding DEF PersistFails, AppendFrame, Fault, authority, history
<1>c. /\ TypeOK /\ JournalInv /\ e \in Entries /\ Truthful(i, e) /\ Follows(i, latest[i], e)
      /\ latest[i] \in Entries /\ synced[i] \in Entries
  BY <1>a, <1>i, Holding DEF IInv, WorkerInv, TypeOK
<1>1. WorkerInv' /\ TodoInv' /\ proc'.pc \in {"idle", "recovering", "serving"}
  BY <1>a, <1>b, Leave
<1>2. Rank(synced[i].stage) <= Rank(e.stage)
  <2>1. Rank(synced[i].stage) <= Rank(latest[i].stage) /\ Rank(latest[i].stage) <= Rank(e.stage)
    BY <1>a, <1>c, FollowsRank DEF JournalInv
  <2>2. Rank(synced[i].stage) \in Nat /\ Rank(latest[i].stage) \in Nat /\ Rank(e.stage) \in Nat
    BY <1>c DEF Rank, Entries, Stages
  <2> QED
    BY <2>1, <2>2
<1>3. \A k \in Invocations : disk'[k] = disk[k] \/ (k = i /\ disk'[k] = e)
  BY <1>b, <1>c DEF TypeOK
<1>4. \A k \in Invocations :
        /\ Truthful(k, disk[k])' /\ Truthful(k, latest[k])'
        /\ Rank(synced[k].stage) <= Rank(disk'[k].stage)
        /\ disk'[k] = latest[k] \/ Follows(k, latest[k], disk'[k])
  BY <1>a, <1>b, <1>c, <1>2, <1>3 DEF JournalInv, Truthful
<1>5. \A k \in Invocations : Follows(k, latest[k], disk'[k]) => Follows(k, latest[k], disk[k])'
  BY <1>b DEF Follows
<1>6. \A k \in Invocations : Rank(synced[k].stage) <= Rank(latest[k].stage)
  BY <1>a, <1>c DEF JournalInv
<1>7. JournalInv'
  BY <1>b, <1>4, <1>5, <1>6 DEF JournalInv
<1> QED
  BY <1>b, <1>1, <1>7, WorldKept

(* The Authority records a delivery, refuses it, or its answer is lost. *)
LEMMA InvAcknowledge ==
  ASSUME IInv, Acknowledge \/ AcknowledgeRefused \/ AcknowledgeLost
  PROVE  JournalInv' /\ WorkerInv' /\ TodoInv' /\ ProductInv'
<1> DEFINE e == proc.entry
<1> USE DEF journal, authority, history
<1>a. proc.pc = "ack" /\ proc.pc \in Busy
  BY DEF Acknowledge, AcknowledgeRefused, AcknowledgeLost, Busy
<1>i. PICK i \in Invocations : i = proc.id
  BY <1>a, Holding
<1>b. UNCHANGED <<disk, tail, latest, synced, accepted, refused, ran, dispatches>>
  BY DEF Acknowledge, AcknowledgeRefused, AcknowledgeLost
<1>c. /\ e = latest[i] /\ e = disk[i] /\ e.stage = "Acknowledging"
      /\ TypeOK /\ e \in Entries /\ Truthful(i, e)
  BY <1>a, <1>i, Holding DEF IInv, WorkerInv
<1>d. /\ acked' = acked \/ acked' = acked \cup {i}
      /\ shown' = shown \/ shown' = [shown EXCEPT ![i] = shown[i] \cup {e.receipt}]
  BY <1>i DEF Acknowledge, AcknowledgeRefused, AcknowledgeLost, Shown
<1>e. /\ shown'[i] \subseteq {e.receipt}
      /\ \A k \in Invocations \ {i} : shown'[k] = shown[k]
  BY <1>c, <1>d DEF TypeOK, Truthful
<1>1. ASSUME NEW f \in Entries, f.outcome = e.outcome, f.receipt = e.receipt,
             f.stage = "Acknowledging" \/ (f.stage = "Acknowledged" /\ i \in acked')
      PROVE  Truthful(i, f)'
  BY <1>b, <1>c, <1>e, <1>1 DEF Truthful, Early, Late, Answered
<1>2. proc'.pc # "down" => JournalInv'
  <2>1. Elsewhere(i)
    BY <1>b, <1>d, <1>e DEF Elsewhere
  <2>2. Truthful(i, disk[i])' /\ Truthful(i, latest[i])'
    <3>1. PICK d : d = disk[i] /\ d = latest[i]
      BY <1>c
    <3>2. Truthful(i, d)'
      BY <1>1, <1>c, <3>1
    <3> QED
      BY <1>b, <3>1, <3>2 DEF Truthful
  <2> QED
    BY <1>a, <1>b, <2>1, <2>2, Holding, JournalKept
<1>3. ProductInv'
  BY <1>b DEF ProductInv, IInv
<1>4. CASE Acknowledge
  <2>1. proc' = Goto("persist", Stage(e, "Acknowledged")) /\ i \in acked'
    BY <1>i, <1>4 DEF Acknowledge
  <2>2. PICK f : f = Stage(e, "Acknowledged")
    OBVIOUS
  <2>3. f \in Entries /\ f.stage = "Acknowledged" /\ f.outcome = e.outcome /\ f.receipt = e.receipt
    BY <1>c, <2>2 DEF Stage, Entries, Stages
  <2>4. Truthful(i, f)' /\ Follows(i, latest[i], f)'
    BY <1>b, <1>c, <1>1, <2>1, <2>3 DEF Follows
  <2> QED
    BY <1>a, <1>b, <1>i, <1>2, <1>3, <2>1, <2>2, <2>3, <2>4, WriteNext
<1>5. CASE AcknowledgeRefused \/ AcknowledgeLost
  <2>1. proc' = NextItem \/ proc' = AfterError
    BY <1>5 DEF AcknowledgeRefused, AcknowledgeLost
  <2>2. latest'[i].stage # "Dispatching"
    BY <1>b, <1>c
  <2> QED
    BY <1>a, <1>b, <1>i, <1>2, <1>3, <2>1, <2>2, Leave
<1> QED
  BY <1>4, <1>5

(* The product refuses, answers or goes silent: a dispatch gets its outcome. *)
LEMMA InvAnswer ==
  ASSUME IInv, RefuseDispatch \/ Respond \/ RespondLost
  PROVE  JournalInv' /\ WorkerInv' /\ TodoInv' /\ ProductInv'
<1> DEFINE e == proc.entry
<1>a. proc.pc \in {"dispatch", "in_flight"} /\ proc.pc \in Busy
  BY DEF RefuseDispatch, Respond, RespondLost, Busy
<1>i. PICK i \in Invocations : i = proc.id
  BY <1>a, Holding
<1>b. UNCHANGED <<disk, tail, latest, synced, acked, accepted, refused, ran, dispatches, shown>>
  BY DEF RefuseDispatch, Respond, RespondLost, journal, authority, history
<1>c. /\ e = latest[i] /\ e = disk[i] /\ e.stage = "Dispatching"
      /\ TypeOK /\ e \in Entries /\ Truthful(i, e) /\ dispatches[i] \in Nat
      /\ proc.pc = "dispatch" => dispatches[i] = 0
      /\ i \in ran => dispatches[i] > 0
  BY <1>a, <1>i, Holding DEF IInv, WorkerInv, ProductInv
<1>1. PICK f : /\ proc' = Goto("persist", f)
               /\ \/ f = Resolved(e, "ResultReady", "failed") /\ (i \notin ran \/ i \in Idempotent)
                  \/ f = Resolved(e, "ResultReady", "success") /\ i \in ran
                  \/ f = Resolved(e, "UnknownResult", "unknown")
  <2>1. CASE RefuseDispatch
    BY <1>c, <2>1 DEF RefuseDispatch
  <2>2. CASE Respond
    BY <1>i, <2>2 DEF Respond
  <2>3. CASE RespondLost
    BY <1>i, <2>3 DEF RespondLost, Uncertain
  <2> QED
    BY <2>1, <2>2, <2>3
<1>2. /\ f \in Entries /\ f.receipt = e.receipt
      /\ \/ f.stage = "ResultReady" /\ f.outcome = "failed" /\ (i \notin ran \/ i \in Idempotent)
         \/ f.stage = "ResultReady" /\ f.outcome = "success" /\ i \in ran
         \/ f.stage = "UnknownResult" /\ f.outcome = "unknown"
  BY <1>c, <1>1 DEF Resolved, Entries, Stages, Outcomes
<1>3. Truthful(i, f)
  BY <1>c, <1>2 DEF Truthful, Early, Late, Answered, Outcomes
<1>4. Follows(i, latest[i], f)
  BY <1>c, <1>2 DEF Follows, Answered
<1>5. Truthful(i, f)' /\ Follows(i, latest[i], f)'
  BY <1>b, <1>3, <1>4 DEF Truthful, Follows
<1>6. WorkerInv' /\ TodoInv' /\ proc'.pc # "down"
  BY <1>a, <1>b, <1>i, <1>1, <1>2, <1>5, WriteNext
<1>7. Truthful(i, disk[i])' /\ Truthful(i, latest[i])'
  BY <1>a, <1>b, <1>i, Holding DEF Truthful
<1> QED
  BY <1>a, <1>b, <1>6, <1>7, Holding, WorldKept, JournalKept

(* The request leaves for the product: the journal already says so. *)
LEMMA InvSend ==
  ASSUME IInv, Send
  PROVE  JournalInv' /\ WorkerInv' /\ TodoInv' /\ ProductInv'
<1> DEFINE e == proc.entry
<1>a. proc.pc = "dispatch" /\ proc.pc \in Busy /\ proc' = Goto("in_flight", e)
  BY DEF Send, Busy
<1>i. PICK i \in Invocations : i = proc.id
  BY <1>a, Holding
<1>b. /\ UNCHANGED <<disk, tail, latest, synced, acked, accepted, refused, shown>>
      /\ dispatches' = [dispatches EXCEPT ![i] = dispatches[i] + 1]
      /\ ran' = ran \/ ran' = ran \cup {i}
  BY <1>i DEF Send, journal, authority
<1>c. /\ e = latest[i] /\ e = disk[i] /\ e.stage = "Dispatching"
      /\ TypeOK /\ e \in Entries /\ Truthful(i, e) /\ dispatches[i] = 0
  BY <1>a, <1>i, Holding DEF IInv, WorkerInv
<1>d. /\ dispatches'[i] = 1
      /\ \A k \in Invocations \ {i} : dispatches'[k] = dispatches[k] /\ (k \in ran' <=> k \in ran)
  BY <1>b, <1>c DEF TypeOK
<1>1. /\ proc'.pc = "in_flight" /\ proc'.entry = e /\ proc'.id = i /\ proc'.mode = proc.mode
      /\ proc'.todo = proc.todo
  BY <1>a, <1>c, <1>i, WorkerFields DEF PCs
<1>2. TodoInv'
  BY <1>a, <1>b, <1>i, <1>1, GoOn DEF Busy
<1>3. WorkerInv'
  BY <1>b, <1>c, <1>1 DEF WorkerInv
<1>4. ProductInv'
  BY <1>b, <1>d DEF ProductInv, IInv
<1>5. PICK d : d = disk[i] /\ d = latest[i] /\ d.stage = "Dispatching" /\ Truthful(i, d)
  BY <1>c
<1>6. Truthful(i, d)'
  BY <1>b, <1>d, <1>5 DEF Truthful, Early, Late, Answered
<1>7. Truthful(i, disk[i])' /\ Truthful(i, latest[i])'
  BY <1>b, <1>5, <1>6 DEF Truthful
<1>8. Elsewhere(i)
  BY <1>b, <1>d DEF Elsewhere
<1> QED
  BY <1>a, <1>b, <1>1, <1>2, <1>3, <1>4, <1>7, <1>8, JournalKept

(* submit_journaled: the file holds no other outcome than one the Authority *)
(* may still accept.                                                        *)
LEMMA InvSubmit ==
  ASSUME IInv, Submit \/ SubmitRefused \/ SubmitLost
  PROVE  JournalInv' /\ WorkerInv' /\ TodoInv' /\ ProductInv'
<1> USE DEF journal
<1>a. proc.pc = "submit" /\ proc.pc \in Busy
  BY DEF Submit, SubmitRefused, SubmitLost, Busy
<1>i. PICK i \in Invocations : i = proc.id
  BY <1>a, Holding
<1>n. PICK e \in Entries : e = proc.entry /\ e = latest[i] /\ e.stage \in Answered /\ Truthful(i, e)
  BY <1>a, <1>i, Holding DEF IInv, WorkerInv
<1>m. PICK d \in Entries : d = disk[i] /\ Truthful(i, d) /\ (d = e \/ Follows(i, e, d))
  BY <1>a, <1>i, <1>n, Holding
<1>b. UNCHANGED <<disk, tail, latest, synced, acked, ran, dispatches>>
  BY DEF Submit, SubmitRefused, SubmitLost
<1>c. /\ shown' = shown \/ shown' = [shown EXCEPT ![i] = shown[i] \cup {e.receipt}]
      /\ \/ accepted' = accepted
         \/ /\ accepted' = [accepted EXCEPT ![i] = e.outcome]
            /\ \/ accepted[i] = e.outcome
               \/ accepted[i] = "none" /\ ~(i \in refused /\ e.outcome = "success")
      /\ refused' = refused \/ refused' = refused \cup {i}
  BY <1>i, <1>n DEF Submit, SubmitRefused, SubmitLost, Shown, Accept, Acceptable
<1>d. TypeOK /\ shown'[i] \subseteq {e.receipt} /\ Elsewhere(i) /\ refused \subseteq refused'
  <2>1. TypeOK /\ shown[i] \subseteq {e.receipt}
    BY <1>n DEF IInv, Truthful
  <2>2. shown'[i] \subseteq {e.receipt} /\ \A k \in Invocations \ {i} : shown'[k] = shown[k]
    BY <1>c, <2>1 DEF TypeOK
  <2>3. \A k \in Invocations \ {i} : accepted'[k] = accepted[k]
    BY <1>c, <2>1 DEF TypeOK
  <2> QED
    BY <1>b, <1>c, <2>1, <2>2, <2>3 DEF Elsewhere
<1>e. /\ d.receipt = e.receipt /\ d.stage \in Late /\ e.stage \in Late
      /\ d.outcome = e.outcome \/ (i \in refused /\ e.outcome = "success" /\ d.outcome = "failed")
      /\ d.stage = "Submitted" => d.outcome = e.outcome
  BY <1>n, <1>m DEF Follows, Late, Answered
<1>f. accepted'[i] = accepted[i] \/ (accepted'[i] = e.outcome /\ d.outcome = e.outcome)
  BY <1>c, <1>d, <1>e, <1>m DEF TypeOK, Truthful
<1>g. e.outcome \in Outcomes \ {"unspecified"}
  BY <1>e, <1>n DEF Truthful
<1>1. ASSUME NEW g \in Entries, Truthful(i, g), g.stage \in Late, g.receipt = e.receipt,
             accepted'[i] = accepted[i] \/ accepted'[i] = g.outcome
      PROVE  Truthful(i, g)'
  BY <1>b, <1>d, <1>1 DEF Truthful, Early, Late, Answered
<1>2. Truthful(i, disk[i])' /\ Truthful(i, latest[i])'
  <2>1. Truthful(i, e)' /\ Truthful(i, d)'
    BY <1>1, <1>e, <1>f, <1>m, <1>n
  <2> QED
    BY <1>b, <1>m, <1>n, <2>1 DEF Truthful
<1>3. proc'.pc # "down" => JournalInv'
  BY <1>a, <1>b, <1>d, <1>2, JournalKept
<1>4. ProductInv'
  BY <1>b DEF IInv, ProductInv
<1>5. CASE proc' = AfterError
  BY <1>a, <1>b, <1>3, <1>4, <1>5, Leave
<1>6. CASE Submit
  <2>1. PICK f : f = Stage(e, "Submitted") /\ proc' = Goto("persist", f)
    BY <1>n, <1>6 DEF Submit
  <2>2. f \in Entries /\ f.stage = "Submitted" /\ f.outcome = e.outcome /\ f.receipt = e.receipt
    BY <2>1 DEF Stage, Entries, Stages
  <2>3. accepted'[i] = e.outcome
    BY <1>d, <1>i, <1>n, <1>6 DEF Submit, Accept, TypeOK
  <2>4. Truthful(i, f)'
    BY <1>b, <1>d, <1>g, <1>n, <2>2, <2>3 DEF Truthful, Early, Late, Answered
  <2>5. Follows(i, latest[i], f)'
    BY <1>b, <1>n, <2>2 DEF Follows
  <2> QED
    BY <1>a, <1>b, <1>i, <1>3, <1>4, <2>1, <2>2, <2>4, <2>5, WriteNext
<1>7. CASE SubmitRefused /\ proc.attempt = 0 /\ e.outcome = "success"
  <2>1. PICK f : /\ f = Resolved(e, "ResultReady", "failed")
                 /\ proc' = [Goto("persist", f) EXCEPT !.attempt = 1]
    BY <1>n, <1>7 DEF SubmitRefused
  <2>2. f \in Entries /\ f.stage = "ResultReady" /\ f.outcome = "failed" /\ f.receipt = e.receipt
    BY <2>1 DEF Resolved, Entries, Stages, Outcomes
  <2>3. accepted[i] = "none" /\ accepted' = accepted /\ i \in refused'
    <3>1. accepted' = accepted /\ refused' = refused \cup {i}
      BY <1>i, <1>n, <1>7 DEF SubmitRefused
    <3>2. accepted[i] = "none" \/ accepted[i] # e.outcome
      BY <1>i, <1>n, <1>7 DEF SubmitRefused, Acceptable
    <3> QED
      BY <1>n, <3>1, <3>2 DEF Truthful
  <2>4. Truthful(i, f)'
    BY <1>b, <1>d, <1>e, <1>n, <2>2, <2>3 DEF Truthful, Early, Late, Answered, Outcomes
  <2>5. Follows(i, latest[i], f)'
    <3>1. e.stage = "ResultReady"
      BY <1>n, <1>7 DEF Answered, Truthful
    <3> QED
      BY <1>b, <1>n, <1>7, <2>2, <2>3, <3>1 DEF Follows
  <2> QED
    BY <1>a, <1>b, <1>i, <1>3, <1>4, <2>1, <2>2, <2>4, <2>5, WriteNext
<1>8. Submit \/ proc' = AfterError \/ (SubmitRefused /\ proc.attempt = 0 /\ e.outcome = "success")
  BY <1>n DEF SubmitRefused, SubmitLost
<1> QED
  BY <1>5, <1>6, <1>7, <1>8

(* A process that dies leaves the record it was writing, or a torn frame *)
(* that the next open cuts off.                                          *)
LEMMA InvRestart ==
  ASSUME IInv, Open \/ Crash
  PROVE  JournalInv' /\ WorkerInv' /\ TodoInv' /\ ProductInv'
<1> USE DEF journal, authority, history
<1>a. TypeOK /\ JournalInv /\ WorkerInv /\ proc \in Procs /\ Addressed
  BY DEF IInv, TypeOK
<1>b. UNCHANGED <<synced, acked, accepted, refused, ran, dispatches, shown>>
  BY DEF Open, Crash
<1>c. Resting("idle").pc = "idle" /\ Resting("down").pc = "down"
  BY DEF Resting
<1>d. \A i, x : Truthful(i, x) => Truthful(i, x)'
  BY <1>b, WorldKept
<1>e. ProductInv'
  BY <1>b, WorldKept
<1>1. CASE Open
  <2>1. proc'.pc = "idle" /\ disk' = disk /\ latest' = disk /\ tail' = "clean"
    BY <1>c, <1>1 DEF Open
  <2>2. \A i \in Invocations : Truthful(i, disk[i])' /\ Truthful(i, latest[i])'
    BY <1>a, <1>b, <2>1 DEF JournalInv, Truthful
  <2>3. JournalInv'
    BY <1>a, <1>b, <2>1, <2>2 DEF JournalInv
  <2> QED
    BY <1>e, <2>1, <2>3 DEF WorkerInv, TodoInv, Busy
<1>2. CASE Crash
  <2>1. proc'.pc = "down" /\ proc.pc # "down" /\ tail = "clean"
    BY <1>a, <1>c, <1>2 DEF Crash, JournalInv
  <2>2. CASE proc.pc = "persist" /\ AppendFrame(proc.id, proc.entry)
    <3>1. PICK i \in Invocations, e \in Entries :
            /\ i = proc.id /\ e = proc.entry /\ Truthful(i, e) /\ Follows(i, latest[i], e)
            /\ Rank(synced[i].stage) <= Rank(latest[i].stage)
            /\ latest[i] \in Entries /\ synced[i] \in Entries
      BY <1>a, <2>2 DEF Addressed, Busy, Procs, WorkerInv, JournalInv, TypeOK
    <3>2. Rank(synced[i].stage) <= Rank(e.stage)
      <4>1. Rank(latest[i].stage) <= Rank(e.stage)
        BY <3>1, FollowsRank
      <4>2. Rank(synced[i].stage) \in Nat /\ Rank(latest[i].stage) \in Nat /\ Rank(e.stage) \in Nat
        BY <3>1 DEF Rank, Entries, Stages
      <4> QED
        BY <3>1, <4>1, <4>2
    <3>3. disk' = [disk EXCEPT ![i] = e] /\ tail' = "clean"
      BY <2>1, <2>2, <3>1 DEF AppendFrame
    <3>4. disk'[i] = e /\ \A k \in Invocations \ {i} : disk'[k] = disk[k]
      BY <1>a, <3>3 DEF TypeOK
    <3>5. \A k \in Invocations : Truthful(k, disk[k])'
      BY <1>a, <1>b, <3>1, <3>4 DEF JournalInv, Truthful
    <3>6. \A k \in Invocations : Rank(synced[k].stage) <= Rank(disk'[k].stage)
      BY <1>a, <3>2, <3>4 DEF JournalInv
    <3>7. JournalInv'
      BY <1>b, <2>1, <3>3, <3>5, <3>6 DEF JournalInv
    <3> QED
      BY <1>e, <2>1, <3>7 DEF WorkerInv, TodoInv, Busy
  <2>3. CASE UNCHANGED disk /\ tail' \in {"clean", "torn"}
    <3>1. \A k \in Invocations : Truthful(k, disk[k])'
      BY <1>a, <1>b, <2>3 DEF JournalInv, Truthful
    <3>2. JournalInv'
      BY <1>a, <1>b, <2>1, <2>3, <3>1 DEF JournalInv
    <3> QED
      BY <1>e, <2>1, <3>2 DEF WorkerInv, TodoInv, Busy
  <2> QED
    BY <1>2, <2>1, <2>2, <2>3 DEF Crash, Tear
<1> QED
  BY <1>1, <1>2

(* What the Authority approves or lets expire is not the worker's business. *)
LEMMA InvOutside ==
  ASSUME IInv, UNCHANGED vars \/ \E i \in Invocations : Approve(i) \/ Expire(i)
  PROVE  JournalInv' /\ WorkerInv' /\ TodoInv' /\ ProductInv'
<1>1. UNCHANGED <<disk, tail, latest, proc, synced, acked, accepted, refused, ran, dispatches, shown>>
  BY DEF vars, Approve, Expire, journal, history
<1>2. \A i \in Invocations : /\ Truthful(i, disk[i])' <=> Truthful(i, disk[i])
                             /\ Truthful(i, latest[i])' <=> Truthful(i, latest[i])
                             /\ Follows(i, latest[i], disk[i])' <=> Follows(i, latest[i], disk[i])
  BY <1>1 DEF Truthful, Follows
<1>3. JournalInv'
  BY <1>1, <1>2 DEF IInv, JournalInv
<1>4. WorkerInv'
  BY <1>1 DEF IInv, WorkerInv, Truthful, Follows
<1>5. TodoInv' /\ ProductInv'
  BY <1>1 DEF IInv, TodoInv, ProductInv
<1> QED
  BY <1>3, <1>4, <1>5

(* The connector starts with an empty journal. *)
LEMMA InvInit == Init => IInv
<1> SUFFICES ASSUME Init PROVE IInv
  OBVIOUS
<1>1. Resting("down") \in Procs /\ NoEntry \in Entries /\ Resting("down").pc = "down"
      /\ NoEntry.stage = "none" /\ NoEntry.outcome = "unspecified"
  BY RestingTyped DEF PCs, Resting, NoEntry
<1>2. TypeOK
  <2>0. 0 \in Nat /\ "clean" \in {"clean", "torn", "buried"}
    OBVIOUS
  <2>2. [i \in Invocations |-> {}] \in [Invocations -> SUBSET Nat]
    BY Zenon
  <2>3. /\ EmptyJournal \in [Invocations -> Entries]
        /\ [i \in Invocations |-> "none"] \in [Invocations -> Outcomes \cup {"none"}]
        /\ [i \in Invocations |-> 0] \in [Invocations -> Nat]
    BY <1>1 DEF EmptyJournal
  <2> QED
    BY <2>0, <1>1, <2>2, <2>3, Zenon DEF Init, TypeOK
<1>3. proc.pc = "down" /\ tail = "clean"
  BY <1>1 DEF Init
<1>4. \A i \in Invocations : disk[i] = NoEntry /\ synced[i] = NoEntry /\ dispatches[i] = 0
                             /\ shown[i] = {} /\ accepted[i] = "none" /\ i \notin ran
  BY DEF Init, EmptyJournal
<1>5. \A i \in Invocations : Truthful(i, disk[i])
  BY <1>1, <1>4 DEF Truthful, Early, Late, Answered
<1>6. Rank(NoEntry.stage) <= Rank(NoEntry.stage)
  BY <1>1 DEF Rank
<1>7. JournalInv
  BY <1>3, <1>4, <1>5, <1>6 DEF JournalInv
<1>8. ProductInv
  BY <1>4 DEF ProductInv
<1> QED
  BY <1>2, <1>3, <1>7, <1>8 DEF IInv, Addressed, WorkerInv, TodoInv, Busy

(* The inductive invariant holds in every reachable state. *)
LEMMA Invariance ==
  ASSUME "torn" \notin FaultKinds
  PROVE  Spec => []IInv
<1>1. IInv /\ [Next]_vars => IInv'
  <2> SUFFICES ASSUME IInv, [Next]_vars PROVE IInv'
    OBVIOUS
  <2>1. TypeOK' /\ Addressed'
    BY TypeNext, AddressedNext DEF IInv
  <2>2. JournalInv' /\ WorkerInv' /\ TodoInv' /\ ProductInv'
    BY InvBatch, InvRedeem, InvRedeemFails, InvPersist, InvPersistFails, InvAcknowledge,
       InvAnswer, InvSend, InvSubmit, InvRestart, InvOutside DEF Next, Execute
  <2> QED
    BY <2>1, <2>2 DEF IInv
<1> QED
  BY <1>1, InvInit, PTL DEF Spec

-----------------------------------------------------------------------------
(* The properties. *)

(* THEOREM NeverTwice: the journal is written before the product is called *)
(* and an interrupted dispatch becomes an unknown result, so no crash, no  *)
(* failed write and no repeated claim sends an invocation twice.           *)
THEOREM NeverTwice ==
  ASSUME "torn" \notin FaultKinds
  PROVE  Spec => []AtMostOnce
<1>1. IInv => AtMostOnce
  BY DEF IInv, ProductInv, AtMostOnce
<1> QED
  BY <1>1, Invariance, PTL

(* THEOREM RecordedFirst: the Authority has recorded the delivery of every *)
(* invocation that was dispatched.                                         *)
THEOREM RecordedFirst ==
  ASSUME "torn" \notin FaultKinds
  PROVE  Spec => []AckBeforeDispatch
<1>1. IInv => AckBeforeDispatch
  BY DEF IInv, JournalInv, Truthful, Late, Answered, AckBeforeDispatch
<1> QED
  BY <1>1, Invariance, PTL

(* THEOREM AcceptsTruth: the outcome the Authority accepts is what         *)
(* happened at the product.                                                *)
THEOREM AcceptsTruth ==
  ASSUME "torn" \notin FaultKinds
  PROVE  Spec => []HonestOutcome
<1>1. IInv => HonestOutcome
  BY DEF IInv, JournalInv, Truthful, Late, Answered, HonestOutcome
<1> QED
  BY <1>1, Invariance, PTL

(* THEOREM SameReceipt: restarts and repeated claims show the Authority    *)
(* one receipt only.                                                       *)
THEOREM SameReceipt ==
  ASSUME "torn" \notin FaultKinds
  PROVE  Spec => []OneReceipt
<1>1. \A S, r : S \subseteq {r} => Cardinality(S) <= 1
  <2> SUFFICES ASSUME NEW S, NEW r, S \subseteq {r} PROVE Cardinality(S) <= 1
    OBVIOUS
  <2>1. S = {} \/ S = {r}
    OBVIOUS
  <2>2. Cardinality(S) = 0 \/ Cardinality(S) = 1
    BY <2>1, FS_EmptySet, FS_Singleton, Zenon
  <2> QED
    BY <2>2
<1>2. IInv => OneReceipt
  BY <1>1 DEF IInv, JournalInv, Truthful, OneReceipt
<1> QED
  BY <1>2, Invariance, PTL

(* THEOREM NoSecondOutcome: a resubmission carries the outcome the         *)
(* Authority already holds.                                                *)
THEOREM NoSecondOutcome ==
  ASSUME "torn" \notin FaultKinds
  PROVE  Spec => []NoContradiction
<1>1. IInv => NoContradiction
  BY DEF IInv, JournalInv, WorkerInv, Addressed, Busy, Truthful, NoContradiction
<1> QED
  BY <1>1, Invariance, PTL

(* THEOREM KnowsConfirmed: a running connector is never behind a record    *)
(* that persist() confirmed.                                               *)
THEOREM KnowsConfirmed ==
  ASSUME "torn" \notin FaultKinds
  PROVE  Spec => []RestoresLatest
<1>1. IInv => RestoresLatest
  <2> SUFFICES ASSUME IInv, proc.pc # "down", NEW i \in Invocations
               PROVE  Rank(latest[i].stage) >= Rank(synced[i].stage)
    BY DEF RestoresLatest
  <2>1. Rank(synced[i].stage) <= Rank(latest[i].stage)
    BY DEF IInv, JournalInv
  <2>2. latest[i] \in Entries /\ synced[i] \in Entries
    BY DEF IInv, TypeOK
  <2>3. Rank(synced[i].stage) \in Nat /\ Rank(latest[i].stage) \in Nat
    BY <2>2 DEF Rank, Entries, Stages
  <2> QED
    BY <2>1, <2>3
<1> QED
  BY <1>1, Invariance, PTL

(* THEOREM NeverBack: the confirmed stage of an invocation never moves     *)
(* backwards.                                                              *)
THEOREM NeverBack ==
  ASSUME "torn" \notin FaultKinds
  PROVE  Spec => StagesAdvance
<1> DEFINE Forward == \A i \in Invocations : Rank(synced[i].stage) <= Rank(synced'[i].stage)
<1>1. IInv /\ [Next]_vars => [Forward]_vars
  <2> SUFFICES ASSUME IInv, Next PROVE Forward
    OBVIOUS
  <2>a. TypeOK /\ synced \in [Invocations -> Entries]
    BY DEF IInv, TypeOK
  <2>b. \A e \in Entries : Rank(e.stage) \in Nat
    BY DEF Rank, Entries, Stages
  <2>1. CASE Persist
    <3>1. PICK i \in Invocations, e \in Entries :
            /\ i = proc.id /\ e = proc.entry /\ Follows(i, latest[i], e)
            /\ Rank(synced[i].stage) <= Rank(latest[i].stage) /\ latest[i] \in Entries
      BY <2>1, Holding DEF Persist, IInv, WorkerInv, JournalInv, Busy
    <3>2. synced' = [synced EXCEPT ![i] = e]
      BY <2>1, <3>1 DEF Persist
    <3>3. Rank(synced[i].stage) <= Rank(e.stage)
      <4>1. Rank(latest[i].stage) <= Rank(e.stage)
        BY <3>1, FollowsRank
      <4> QED
        BY <2>a, <2>b, <3>1, <4>1
    <3>4. \A k \in Invocations : Rank(synced[k].stage) <= Rank(synced[k].stage)
      BY <2>a, <2>b
    <3> QED
      BY <2>a, <3>2, <3>3, <3>4
  <2>2. CASE ~Persist
    <3>1. synced' = synced
      BY <2>2 DEF Next, Open, Crash, Approve, Expire, Batch, BeginBatch, ClaimLost, EndBatch,
        RecoverNext, ServeNext, Claim, Execute, Redeem, RedeemFails, PersistFails, Acknowledge,
        AcknowledgeRefused, AcknowledgeLost, RefuseDispatch, Send, Respond, RespondLost, Submit,
        SubmitRefused, SubmitLost, history
    <3>2. \A k \in Invocations : Rank(synced[k].stage) <= Rank(synced[k].stage)
      BY <2>a, <2>b
    <3> QED
      BY <3>1, <3>2
  <2> QED
    BY <2>1, <2>2
<1> QED
  BY <1>1, Invariance, PTL DEF Spec, StagesAdvance
=============================================================================
