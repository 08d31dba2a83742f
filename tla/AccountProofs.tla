--------------------------- MODULE AccountProofs ---------------------------
(***************************************************************************)
(* Theorems about a linked GitHub account for any number of threads,       *)
(* sessions, unlink commands, leases, tokens and restarts, when one        *)
(* process at a time uses the database.                                    *)
(***************************************************************************)
EXTENDS LinkedAccount, FiniteSetTheorems, TLAPS

-----------------------------------------------------------------------------
(* The inductive invariant. *)

SessionRows ==
  [status : {"none", "pending", "processing", "completed", "failed", "pruned"},
   blob : Tokens \cup {None},
   outcome : {None, "not_issued", "revoked", "failed", "unknown"}]

AccountRows ==
  [status : {"none", "active", "unlinked"},
   cred : {"ready", "refresh_pending", "reauthorization_required"},
   blob : Tokens \cup {None}, stale : BOOLEAN, revision : Nat,
   claim : Threads \cup {None}, owner : Instances \cup {None}, remote : RemoteStatus,
   remoteOwner : Instances \cup {None}, command : Unlinks \cup {None}]

Outcomes == {None, "not_issued", "revoked", "failed", "unknown"} \cup Answers

Locals ==
  [pc : ThreadPC, inst : Instances \cup {None}, key : Keys \cup Leases \cup {None},
   tok : Tokens \cup {None}, revision : Nat, outcome : Outcomes]

Phases == {"unborn", "list", "callbacks", "settle", "commands", "serving", "dead"}

Revoked == {"revoked", "failed", "unknown"}

Procs ==
  [phase : Phases, todo : SUBSET Keys, current : Sessions \cup {None}, outcome : Revoked \cup {None}]

CommandValues == {"none", "pending", "value", "error", "result_unknown"} \cup Answers

(* The tables, the locals and the history in shape. *)
Shapes ==
  /\ session \in [Sessions -> SessionRows]
  /\ account \in AccountRows
  /\ lease \in [Leases -> {"none", "open", "redeemed", "deleted"}]
  /\ command \in [Keys -> CommandValues]
  /\ minted \in 0..MaxToken /\ live \subseteq 1..minted
  /\ inst \in [Instances -> Procs]
  /\ thread \in [Threads -> Locals]
  /\ submitted \in [Tokens -> Nat]
  /\ handed \in [Leases -> Nat]
  /\ origin \in [Tokens -> Sessions \cup {None, "refresh", "rejected"}]

(* One process at a time runs, and threads run in a process that serves. *)
ProcessInv ==
  /\ \A i, j \in Instances : Running(i) /\ Running(j) => i = j
  /\ \A t \in Threads : \/ thread[t] = Idle
                        \/ /\ thread[t].pc # "idle" /\ thread[t].inst \in Instances
                           /\ inst[thread[t].inst].phase = "serving"

Creating   == {"create_session"}
Callback   == {"exchange", "persist", "verify", "insert", "revoke_minted", "settle"}
Redeeming  == {"fresh", "claim", "doomed", "refresh", "finish", "fail"}
Locking    == {"claim", "doomed", "refresh", "finish", "fail"}
Revoking   == {"revoke_remote", "set_status"}
Unlinking  == {"read", "unlink", "record_error"} \cup Revoking
Commanding == Creating \cup Unlinking
Ending     == {"unlink"} \cup Revoking

Someone(pcs, k) == \E t \in Threads : thread[t].pc \in pcs /\ thread[t].key = k
Phase(phases)   == \E i \in Instances : inst[i].phase \in phases
SomeRunning     == \E i \in Instances : Running(i)

(* The row of the account: a credential only while it is active, and one that *)
(* was never sent to GitHub while it is ready.                                *)
AccountInv ==
  /\ account.blob \in 1..minted \cup {None}
  /\ account.status # "active" => account.blob = None /\ account.cred = "ready"
  /\ account.status # "unlinked" => account.remote = None /\ account.command = None
  /\ account.status = "unlinked" => account.remote \in {"pending"} \cup Revoked
  /\ account.remote = "pending" => account.command # None
  /\ account.status = "active" /\ account.cred = "ready" => account.blob # None
  /\ account.cred = "reauthorization_required" => account.blob = None
  /\ account.status = "none" => \A k \in Tokens : submitted[k] = 0
  /\ \A k \in Tokens : /\ submitted[k] <= 1
                       /\ account.blob = k /\ account.cred = "ready" => submitted[k] = 0
                       /\ k > minted => submitted[k] = 0 /\ origin[k] = None

(* The thread in the refresh of the account: alone, with the credential the   *)
(* row has, and with the claim of the row once it took it.                    *)
LockOK(t) ==
  thread[t].pc \in Locking =>
    /\ account.status # "none" /\ thread[t].tok \in 1..minted
    /\ \A u \in Threads \ {t} : thread[u].pc \notin Locking
    /\ thread[t].pc \in {"claim", "doomed"} /\ account.status = "active" =>
         account.cred = "ready" /\ account.blob = thread[t].tok
    /\ thread[t].pc \in {"refresh", "finish", "fail"} /\ account.status = "active" =>
         HasClaim(t) /\ account.revision = thread[t].revision
    /\ thread[t].pc \in {"refresh", "finish"} => submitted[thread[t].tok] = 0
    /\ thread[t].pc = "refresh" /\ account.status = "active" => account.blob = thread[t].tok
    /\ thread[t].pc = "finish" /\ account.status = "active" => account.blob \notin live

LockInv == \A t \in Threads : LockOK(t)

(* A redeemed lease has one thread that may hand out a credential for it. *)
LeaseInv ==
  /\ \A l \in Leases :
       /\ handed[l] <= 1
       /\ lease[l] \in {"none", "open"} => handed[l] = 0
       /\ lease[l] = "open" => account.status = "active" /\ account.cred # "reauthorization_required"
  /\ \A t \in Threads : thread[t].pc \in Redeeming =>
       /\ thread[t].key \in Leases
       /\ lease[thread[t].key] \in {"redeemed", "deleted"} /\ handed[thread[t].key] = 0
       /\ \A u \in Threads \ {t} : thread[u].pc \in Redeeming => thread[u].key # thread[t].key

(* A reserved command has one thread, or a recovery that still comes. *)
CommandInv ==
  /\ \A t \in Threads : thread[t].pc \in Commanding =>
       /\ thread[t].key \in (IF thread[t].pc \in Creating THEN Sessions ELSE Unlinks)
       /\ command[thread[t].key] = "pending"
       /\ \A u \in Threads \ {t} : thread[u].pc \in Commanding => thread[u].key # thread[t].key
  /\ \A k \in Keys : command[k] = "pending" => Someone(Commanding, k) \/ ~Phase({"serving"})
  /\ \A i \in Instances : inst[i].phase = "commands" =>
       \A k \in Keys : command[k] = "pending" => k \in inst[i].todo
  /\ \A s \in Sessions : session[s].status # "none" => command[s] \notin {"none", "pending"}

(* The unlink that ended the account, and the answers that tell of it. *)
RemoteInv ==
  /\ \A k \in Unlinks : command[k] \in Answers =>
       account.status = "unlinked" /\ account.remote \in Revoked /\ AnswerOf(account.remote) = command[k]
  /\ \A t \in Threads :
       /\ thread[t].pc \in Revoking => account.status = "unlinked"
       /\ thread[t].pc \in Revoking => \A u \in Threads \ {t} : thread[u].pc \notin Revoking
       /\ thread[t].pc = "set_status" => thread[t].outcome \in Revoked
       /\ thread[t].pc = "unlink" /\ thread[t].tok = None =>
            /\ thread[t].outcome \in {"unlinked", "revocation_unknown"}
            /\ thread[t].outcome = "unlinked" => account.status = "unlinked"
  /\ account.remote = "pending" /\ SomeRunning =>
       \E t \in Threads : /\ thread[t].pc \in Revoking /\ thread[t].key = account.command
                          /\ thread[t].inst = account.remoteOwner

(* What the callback of thread t has done so far. *)
CallbackOK(t) ==
  /\ thread[t].key \in Sessions
  /\ session[thread[t].key].status \in {"processing", "pruned"}
  /\ thread[t].pc = "exchange" => \A k \in Tokens : origin[k] # thread[t].key
  /\ thread[t].pc \notin {"exchange", "settle"} =>
       thread[t].tok \in 1..minted /\ origin[thread[t].tok] = thread[t].key
  /\ thread[t].pc = "settle" =>
       /\ thread[t].outcome \in {"not_issued"} \cup Revoked
       /\ thread[t].outcome \in {"not_issued", "revoked"} =>
            \A k \in live : origin[k] # thread[t].key

(* A claimed session has one callback, which minted at most one token for it, *)
(* or a recovery that still comes.                                            *)
SessionInv ==
  /\ \A t \in Threads : thread[t].pc \in Callback =>
       /\ CallbackOK(t)
       /\ \A u \in Threads \ {t} : thread[u].pc \in Callback => thread[u].key # thread[t].key
  /\ \A s \in Sessions :
       /\ session[s].status \in {"none", "pending"} => \A k \in Tokens : origin[k] # s
       /\ session[s].status = "processing" => Someone(Callback, s) \/ ~Phase({"commands", "serving"})
       /\ \A k, m \in Tokens : origin[k] = s /\ origin[m] = s => k = m
  /\ \A i \in Instances :
       /\ inst[i].phase = "settle" =>
            /\ inst[i].current \in Sessions /\ inst[i].outcome \in Revoked
            /\ inst[i].outcome = "revoked" => \A k \in live : origin[k] # inst[i].current
       /\ \A s \in Sessions : session[s].status = "processing" =>
            /\ inst[i].phase = "list" => session[s].blob # None
            /\ inst[i].phase = "callbacks" => s \in inst[i].todo
            /\ inst[i].phase = "settle" => s \in inst[i].todo \cup {inst[i].current}

(* GitHub confirmed that the grant of the account is gone. *)
GrantGone ==
  /\ account.status = "unlinked"
  /\ \/ account.remote = "revoked"
     \/ account.remote = "pending" /\ \E t \in Threads : thread[t].pc = "set_status" /\ thread[t].outcome = "revoked"

(* Where a working token is accounted for. *)
Traced(k) ==
  \/ origin[k] = "rejected"
  \/ account.blob = k
  \/ account.cred = "reauthorization_required"
  \/ account.cred = "refresh_pending" /\ \A t \in Threads : thread[t].pc \notin {"refresh", "finish"}
  \/ account.status = "unlinked" /\ ~GrantGone
  \/ account.status = "active" /\ \E t \in Threads : thread[t].pc = "finish" /\ thread[t].tok = k
  \/ \E s \in Sessions : /\ origin[k] = s
                         /\ \/ session[s].status \in {"processing", "pruned"}
                            \/ session[s].outcome \in {"failed", "unknown"}

TraceInv ==
  /\ \A k \in live : Traced(k)
  /\ GrantGone => \A t \in Threads : thread[t].pc \in {"refresh", "finish"} => thread[t].tok \notin live

IInv ==
  /\ Shapes /\ ProcessInv /\ AccountInv /\ LockInv /\ LeaseInv /\ CommandInv /\ RemoteInv
  /\ SessionInv /\ TraceInv

-----------------------------------------------------------------------------
(* What the updates of the tables and of the locals do. *)

(* Thread t goes on with these locals, the other threads stay. *)
Moved(t, pc, i, key, tok, n, o) ==
  /\ thread' \in [Threads -> Locals]
  /\ \A u \in Threads \ {t} : thread'[u] = thread[u]
  /\ thread'[t].pc = pc /\ thread'[t].inst = i /\ thread'[t].key = key
  /\ thread'[t].tok = tok /\ thread'[t].revision = n /\ thread'[t].outcome = o

(* Thread t is done. *)
Gone(t) ==
  /\ thread' \in [Threads -> Locals]
  /\ \A u \in Threads \ {t} : thread'[u] = thread[u]
  /\ thread'[t] = Idle /\ thread'[t].pc = "idle"

(* The locals of a thread at rest. *)
LEMMA IdleTyped == Idle \in Locals /\ Idle.pc = "idle"
BY DEF Idle, Locals, ThreadPC, Outcomes

(* The ways to update a thread. *)
LEMMA ThreadMoves ==
  ASSUME thread \in [Threads -> Locals], NEW t \in Threads, NEW pc \in ThreadPC,
         NEW tok \in Tokens \cup {None}, NEW o \in Outcomes, NEW n \in Nat
  PROVE  /\ Return(t) => Gone(t)
         /\ Goto(t, pc) => Moved(t, pc, thread[t].inst, thread[t].key, thread[t].tok,
                                 thread[t].revision, thread[t].outcome)
         /\ thread' = [thread EXCEPT ![t].pc = pc, ![t].tok = tok] =>
              Moved(t, pc, thread[t].inst, thread[t].key, tok, thread[t].revision, thread[t].outcome)
         /\ thread' = [thread EXCEPT ![t].pc = pc, ![t].outcome = o] =>
              Moved(t, pc, thread[t].inst, thread[t].key, thread[t].tok, thread[t].revision, o)
         /\ thread' = [thread EXCEPT ![t].pc = pc, ![t].tok = tok, ![t].outcome = o] =>
              Moved(t, pc, thread[t].inst, thread[t].key, tok, thread[t].revision, o)
         /\ thread' = [thread EXCEPT ![t].pc = pc, ![t].revision = n] =>
              Moved(t, pc, thread[t].inst, thread[t].key, thread[t].tok, n, thread[t].outcome)
<1>a. thread[t] \in Locals
  OBVIOUS
<1>1. Return(t) => Gone(t)
  BY IdleTyped DEF Return, Gone
<1>2. Goto(t, pc) => Moved(t, pc, thread[t].inst, thread[t].key, thread[t].tok,
                                 thread[t].revision, thread[t].outcome)
  <2> DEFINE g == [thread[t] EXCEPT !.pc = pc]
  <2>1. /\ g \in Locals
        /\ g.pc = pc /\ g.inst = thread[t].inst /\ g.key = thread[t].key
        /\ g.tok = thread[t].tok /\ g.revision = thread[t].revision
        /\ g.outcome = thread[t].outcome
    BY <1>a DEF Locals
  <2>2. [thread EXCEPT ![t].pc = pc] = [thread EXCEPT ![t] = g]
    BY <1>a
  <2> HIDE DEF g
  <2> QED
    BY <2>1, <2>2 DEF Moved, Goto
<1>3. thread' = [thread EXCEPT ![t].pc = pc, ![t].tok = tok] =>
              Moved(t, pc, thread[t].inst, thread[t].key, tok, thread[t].revision, thread[t].outcome)
  <2> DEFINE g == [thread[t] EXCEPT !.pc = pc, !.tok = tok]
  <2>1. /\ g \in Locals
        /\ g.pc = pc /\ g.inst = thread[t].inst /\ g.key = thread[t].key
        /\ g.tok = tok /\ g.revision = thread[t].revision
        /\ g.outcome = thread[t].outcome
    BY <1>a DEF Locals
  <2>2. [thread EXCEPT ![t].pc = pc, ![t].tok = tok] = [thread EXCEPT ![t] = g]
    BY <1>a
  <2> HIDE DEF g
  <2> QED
    BY <2>1, <2>2 DEF Moved
<1>4. thread' = [thread EXCEPT ![t].pc = pc, ![t].outcome = o] =>
              Moved(t, pc, thread[t].inst, thread[t].key, thread[t].tok, thread[t].revision, o)
  <2> DEFINE g == [thread[t] EXCEPT !.pc = pc, !.outcome = o]
  <2>1. /\ g \in Locals
        /\ g.pc = pc /\ g.inst = thread[t].inst /\ g.key = thread[t].key
        /\ g.tok = thread[t].tok /\ g.revision = thread[t].revision
        /\ g.outcome = o
    BY <1>a DEF Locals
  <2>2. [thread EXCEPT ![t].pc = pc, ![t].outcome = o] = [thread EXCEPT ![t] = g]
    BY <1>a
  <2> HIDE DEF g
  <2> QED
    BY <2>1, <2>2 DEF Moved
<1>5. thread' = [thread EXCEPT ![t].pc = pc, ![t].tok = tok, ![t].outcome = o] =>
              Moved(t, pc, thread[t].inst, thread[t].key, tok, thread[t].revision, o)
  <2> DEFINE g == [thread[t] EXCEPT !.pc = pc, !.tok = tok, !.outcome = o]
  <2>1. /\ g \in Locals
        /\ g.pc = pc /\ g.inst = thread[t].inst /\ g.key = thread[t].key
        /\ g.tok = tok /\ g.revision = thread[t].revision
        /\ g.outcome = o
    BY <1>a DEF Locals
  <2>2. [thread EXCEPT ![t].pc = pc, ![t].tok = tok, ![t].outcome = o] = [thread EXCEPT ![t] = g]
    BY <1>a
  <2> HIDE DEF g
  <2> QED
    BY <2>1, <2>2 DEF Moved
<1>6. thread' = [thread EXCEPT ![t].pc = pc, ![t].revision = n] =>
              Moved(t, pc, thread[t].inst, thread[t].key, thread[t].tok, n, thread[t].outcome)
  <2> DEFINE g == [thread[t] EXCEPT !.pc = pc, !.revision = n]
  <2>1. /\ g \in Locals
        /\ g.pc = pc /\ g.inst = thread[t].inst /\ g.key = thread[t].key
        /\ g.tok = thread[t].tok /\ g.revision = n
        /\ g.outcome = thread[t].outcome
    BY <1>a DEF Locals
  <2>2. [thread EXCEPT ![t].pc = pc, ![t].revision = n] = [thread EXCEPT ![t] = g]
    BY <1>a
  <2> HIDE DEF g
  <2> QED
    BY <2>1, <2>2 DEF Moved
<1> QED
  BY <1>1, <1>2, <1>3, <1>4, <1>5, <1>6

(* A thread takes up a request. *)
LEMMA BeginMoves ==
  ASSUME thread \in [Threads -> Locals], NEW t \in Threads, NEW i \in Instances, NEW pc \in ThreadPC,
         NEW k \in Keys \cup Leases, Begin(t, i, pc, k)
  PROVE  Moved(t, pc, i, k, None, 0, None)
<1> DEFINE g == [Idle EXCEPT !.pc = pc, !.inst = i, !.key = k]
<1>1. /\ g \in Locals /\ g.pc = pc /\ g.inst = i /\ g.key = k
      /\ g.tok = None /\ g.revision = 0 /\ g.outcome = None
  BY DEF Idle, Locals, Outcomes
<1>2. thread' = [thread EXCEPT ![t] = g]
  BY DEF Begin
<1> HIDE DEF g
<1> QED
  BY <1>1, <1>2 DEF Moved

(* The fields of a row of the account. *)
Row(a, status, cred, blob, revision, claim, owner, remote, remoteOwner, cmd) ==
  /\ a \in AccountRows
  /\ a.status = status /\ a.cred = cred /\ a.blob = blob /\ a.revision = revision
  /\ a.claim = claim /\ a.owner = owner /\ a.remote = remote /\ a.remoteOwner = remoteOwner
  /\ a.command = cmd

(* The updates of the account's row. *)
LEMMA RowMoves ==
  ASSUME NEW a \in AccountRows, NEW t \in Threads, NEW i \in Instances \cup {None}, NEW k \in Tokens,
         NEW r \in RemoteStatus, NEW c \in Unlinks \cup {None}, NEW n \in Nat
  PROVE  /\ Row([NoAccount EXCEPT !.status = "active", !.blob = k],
                "active", "ready", k, 0, None, None, None, None, None)
         /\ Row([a EXCEPT !.cred = "refresh_pending", !.revision = n, !.claim = t, !.owner = i],
                a.status, "refresh_pending", a.blob, n, t, i, a.remote, a.remoteOwner, a.command)
         /\ Row([a EXCEPT !.cred = "ready", !.blob = k, !.stale = FALSE, !.claim = None, !.owner = None],
                a.status, "ready", k, a.revision, None, None, a.remote, a.remoteOwner, a.command)
         /\ Row([a EXCEPT !.cred = "reauthorization_required", !.blob = None, !.claim = None, !.owner = None],
                a.status, "reauthorization_required", None, a.revision, None, None,
                a.remote, a.remoteOwner, a.command)
         /\ Row([NoAccount EXCEPT !.status = "unlinked", !.remote = r, !.revision = n,
                                  !.remoteOwner = i, !.command = c],
                "unlinked", "ready", None, n, None, None, r, i, c)
         /\ Row([a EXCEPT !.remote = r, !.remoteOwner = None, !.command = None],
                a.status, a.cred, a.blob, a.revision, a.claim, a.owner, r, None, None)
         /\ Row([a EXCEPT !.stale = TRUE], a.status, a.cred, a.blob, a.revision, a.claim, a.owner,
                a.remote, a.remoteOwner, a.command)
         /\ Row([a EXCEPT !.remote = "unknown", !.remoteOwner = None],
                a.status, a.cred, a.blob, a.revision, a.claim, a.owner, "unknown", None, a.command)
         /\ Row([a EXCEPT !.command = None], a.status, a.cred, a.blob, a.revision, a.claim, a.owner,
                a.remote, a.remoteOwner, None)
         /\ Row(a, a.status, a.cred, a.blob, a.revision, a.claim, a.owner,
                a.remote, a.remoteOwner, a.command)
<1>0. NoAccount \in AccountRows
  BY DEF NoAccount, AccountRows, RemoteStatus
<1>1. Row([NoAccount EXCEPT !.status = "active", !.blob = k],
                "active", "ready", k, 0, None, None, None, None, None)
  BY DEF NoAccount, Row, AccountRows, RemoteStatus
<1>2. Row([a EXCEPT !.cred = "refresh_pending", !.revision = n, !.claim = t, !.owner = i],
                a.status, "refresh_pending", a.blob, n, t, i, a.remote, a.remoteOwner, a.command)
  BY DEF Row, AccountRows
<1>3. Row([a EXCEPT !.cred = "ready", !.blob = k, !.stale = FALSE, !.claim = None, !.owner = None],
                a.status, "ready", k, a.revision, None, None, a.remote, a.remoteOwner, a.command)
  BY DEF Row, AccountRows
<1>4. Row([a EXCEPT !.cred = "reauthorization_required", !.blob = None, !.claim = None, !.owner = None],
                a.status, "reauthorization_required", None, a.revision, None, None,
                a.remote, a.remoteOwner, a.command)
  BY DEF Row, AccountRows
<1>5. Row([NoAccount EXCEPT !.status = "unlinked", !.remote = r, !.revision = n,
                                  !.remoteOwner = i, !.command = c],
                "unlinked", "ready", None, n, None, None, r, i, c)
  <2>1. /\ NoAccount \in AccountRows /\ NoAccount.cred = "ready" /\ NoAccount.blob = None
        /\ NoAccount.claim = None /\ NoAccount.owner = None
    BY DEF NoAccount, AccountRows, RemoteStatus
  <2> QED
    BY <2>1 DEF Row, AccountRows
<1>6. Row([a EXCEPT !.remote = r, !.remoteOwner = None, !.command = None],
                a.status, a.cred, a.blob, a.revision, a.claim, a.owner, r, None, None)
  BY DEF Row, AccountRows
<1>7. Row([a EXCEPT !.stale = TRUE], a.status, a.cred, a.blob, a.revision, a.claim, a.owner,
                a.remote, a.remoteOwner, a.command)
  BY DEF Row, AccountRows
<1>8. Row([a EXCEPT !.remote = "unknown", !.remoteOwner = None],
                a.status, a.cred, a.blob, a.revision, a.claim, a.owner, "unknown", None, a.command)
  BY DEF Row, AccountRows, RemoteStatus
<1>9. Row([a EXCEPT !.command = None], a.status, a.cred, a.blob, a.revision, a.claim, a.owner,
                a.remote, a.remoteOwner, None)
  BY DEF Row, AccountRows
<1>10. Row(a, a.status, a.cred, a.blob, a.revision, a.claim, a.owner,
                a.remote, a.remoteOwner, a.command)
  BY DEF Row
<1> QED
  BY <1>1, <1>2, <1>3, <1>4, <1>5, <1>6, <1>7, <1>8, <1>9, <1>10

(* Session s gets these fields, the other sessions stay. *)
SessionSet(s, status, blob, o) ==
  /\ session' \in [Sessions -> SessionRows]
  /\ \A r \in Sessions \ {s} : session'[r] = session[r]
  /\ session'[s].status = status /\ session'[s].blob = blob /\ session'[s].outcome = o

(* The updates of a session's row. *)
LEMMA SessionMoves ==
  ASSUME session \in [Sessions -> SessionRows], NEW s \in Sessions, NEW k \in Tokens \cup {None},
         NEW o \in {None, "not_issued"} \cup Revoked
  PROVE  /\ session' = [session EXCEPT ![s].status = "pending"] =>
              SessionSet(s, "pending", session[s].blob, session[s].outcome)
         /\ session' = [session EXCEPT ![s].status = "processing"] =>
              SessionSet(s, "processing", session[s].blob, session[s].outcome)
         /\ session' = [session EXCEPT ![s].blob = k] =>
              SessionSet(s, session[s].status, k, session[s].outcome)
         /\ session' = [session EXCEPT ![s] = [NoSession EXCEPT !.status = "completed"]] =>
              SessionSet(s, "completed", None, None)
         /\ session' = FailedSession(s, o) /\ session[s].status = "processing" =>
              SessionSet(s, "failed", None, o)
         /\ session' = FailedSession(s, o) /\ session[s].status # "processing" => session' = session
<1>a. session[s] \in SessionRows
  OBVIOUS
<1>1. session' = [session EXCEPT ![s].status = "pending"] =>
              SessionSet(s, "pending", session[s].blob, session[s].outcome)
  BY <1>a DEF SessionSet, SessionRows
<1>2. session' = [session EXCEPT ![s].status = "processing"] =>
              SessionSet(s, "processing", session[s].blob, session[s].outcome)
  BY <1>a DEF SessionSet, SessionRows
<1>3. session' = [session EXCEPT ![s].blob = k] => SessionSet(s, session[s].status, k, session[s].outcome)
  BY <1>a DEF SessionSet, SessionRows
<1>4. session' = [session EXCEPT ![s] = [NoSession EXCEPT !.status = "completed"]] =>
              SessionSet(s, "completed", None, None)
  <2> SUFFICES ASSUME session' = [session EXCEPT ![s] = [NoSession EXCEPT !.status = "completed"]]
               PROVE  SessionSet(s, "completed", None, None)
    OBVIOUS
  <2> DEFINE g == [NoSession EXCEPT !.status = "completed"]
  <2>1. g \in SessionRows /\ g.status = "completed" /\ g.blob = None /\ g.outcome = None
    BY DEF NoSession, SessionRows
  <2>2. session' = [session EXCEPT ![s] = g]
    OBVIOUS
  <2> HIDE DEF g
  <2> QED
    BY <2>1, <2>2 DEF SessionSet
<1>5. session' = FailedSession(s, o) /\ session[s].status = "processing" =>
              SessionSet(s, "failed", None, o)
  <2> DEFINE g == [status |-> "failed", blob |-> None, outcome |-> o]
  <2>1. g \in SessionRows /\ g.status = "failed" /\ g.blob = None /\ g.outcome = o
    BY DEF SessionRows, Revoked
  <2>2. session[s].status = "processing" => FailedSession(s, o) = [session EXCEPT ![s] = g]
    BY DEF FailedSession
  <2> HIDE DEF g
  <2> QED
    BY <2>1, <2>2 DEF SessionSet
<1>6. session' = FailedSession(s, o) /\ session[s].status # "processing" => session' = session
  BY DEF FailedSession
<1> QED
  BY <1>1, <1>2, <1>3, <1>4, <1>5, <1>6

(* Process i gets these fields, the other processes stay. *)
ProcSet(i, phase, todo, current, o) ==
  /\ inst' \in [Instances -> Procs]
  /\ \A j \in Instances \ {i} : inst'[j] = inst[j]
  /\ inst'[i].phase = phase /\ inst'[i].todo = todo
  /\ inst'[i].current = current /\ inst'[i].outcome = o

(* The updates of a process. *)
LEMMA ProcMoves ==
  ASSUME inst \in [Instances -> Procs], NEW i \in Instances, NEW p \in Phases, NEW K \in SUBSET Keys,
         NEW s \in Sessions, NEW o \in Revoked
  PROVE  /\ inst' = [inst EXCEPT ![i].phase = p] =>
              ProcSet(i, p, inst[i].todo, inst[i].current, inst[i].outcome)
         /\ inst' = [inst EXCEPT ![i].phase = p, ![i].todo = K] =>
              ProcSet(i, p, K, inst[i].current, inst[i].outcome)
         /\ inst' = [inst EXCEPT ![i].todo = K] =>
              ProcSet(i, inst[i].phase, K, inst[i].current, inst[i].outcome)
         /\ inst' = [inst EXCEPT ![i] = [phase |-> "settle", todo |-> K, current |-> s, outcome |-> o]] =>
              ProcSet(i, "settle", K, s, o)
         /\ inst' = [inst EXCEPT ![i] = [inst[i] EXCEPT !.phase = "callbacks", !.current = None, !.outcome = None]] =>
              ProcSet(i, "callbacks", inst[i].todo, None, None)
         /\ inst' = [inst EXCEPT ![i] = [Unborn EXCEPT !.phase = "dead"]] =>
              ProcSet(i, "dead", {}, None, None)
<1>a. inst[i] \in Procs
  OBVIOUS
<1>1. inst' = [inst EXCEPT ![i].phase = p] =>
              ProcSet(i, p, inst[i].todo, inst[i].current, inst[i].outcome)
  BY <1>a DEF ProcSet, Procs
<1>2. inst' = [inst EXCEPT ![i].phase = p, ![i].todo = K] =>
              ProcSet(i, p, K, inst[i].current, inst[i].outcome)
  <2> DEFINE g == [inst[i] EXCEPT !.phase = p, !.todo = K]
  <2>1. /\ g \in Procs /\ g.phase = p /\ g.todo = K
        /\ g.current = inst[i].current /\ g.outcome = inst[i].outcome
    BY <1>a DEF Procs
  <2>2. [inst EXCEPT ![i].phase = p, ![i].todo = K] = [inst EXCEPT ![i] = g]
    BY <1>a
  <2> HIDE DEF g
  <2> QED
    BY <2>1, <2>2 DEF ProcSet
<1>3. inst' = [inst EXCEPT ![i].todo = K] =>
              ProcSet(i, inst[i].phase, K, inst[i].current, inst[i].outcome)
  BY <1>a DEF ProcSet, Procs
<1>4. inst' = [inst EXCEPT ![i] = [phase |-> "settle", todo |-> K, current |-> s, outcome |-> o]] =>
              ProcSet(i, "settle", K, s, o)
  BY DEF ProcSet, Procs, Phases
<1>5. inst' = [inst EXCEPT ![i] = [inst[i] EXCEPT !.phase = "callbacks", !.current = None, !.outcome = None]] =>
              ProcSet(i, "callbacks", inst[i].todo, None, None)
  <2> DEFINE g == [inst[i] EXCEPT !.phase = "callbacks", !.current = None, !.outcome = None]
  <2>1. /\ g \in Procs /\ g.phase = "callbacks" /\ g.todo = inst[i].todo
        /\ g.current = None /\ g.outcome = None
    BY <1>a DEF Procs, Phases
  <2>2. [inst EXCEPT ![i] = [inst[i] EXCEPT !.phase = "callbacks", !.current = None, !.outcome = None]]
          = [inst EXCEPT ![i] = g]
    OBVIOUS
  <2> HIDE DEF g
  <2> QED
    BY <2>1, <2>2 DEF ProcSet
<1>6. inst' = [inst EXCEPT ![i] = [Unborn EXCEPT !.phase = "dead"]] => ProcSet(i, "dead", {}, None, None)
  <2> SUFFICES ASSUME inst' = [inst EXCEPT ![i] = [Unborn EXCEPT !.phase = "dead"]]
               PROVE  ProcSet(i, "dead", {}, None, None)
    OBVIOUS
  <2> DEFINE g == [Unborn EXCEPT !.phase = "dead"]
  <2>1. /\ g \in Procs /\ g.phase = "dead" /\ g.todo = {} /\ g.current = None /\ g.outcome = None
    BY DEF Unborn, Procs, Phases
  <2>2. inst' = [inst EXCEPT ![i] = g]
    OBVIOUS
  <2> HIDE DEF g
  <2> QED
    BY <2>1, <2>2 DEF ProcSet
<1> QED
  BY <1>1, <1>2, <1>3, <1>4, <1>5, <1>6

(* GitHub minted a token for `from`. *)
Minted(from, dead) ==
  /\ minted + 1 \in Tokens /\ minted' = minted + 1 /\ minted' \in 0..MaxToken
  /\ live' = (live \ dead) \cup {minted + 1} /\ live' \subseteq 1..minted'
  /\ origin' \in [Tokens -> Sessions \cup {None, "refresh", "rejected"}]
  /\ \A k \in Tokens \ {minted + 1} : origin'[k] = origin[k]
  /\ origin'[minted + 1] = from

(* What minting a token does. *)
LEMMA MintMoves ==
  ASSUME Shapes, NEW from \in Sessions \cup {"refresh", "rejected"}, NEW dead, Mint(from, dead)
  PROVE  Minted(from, dead)
<1>1. minted \in Nat /\ MaxToken \in Nat /\ minted < MaxToken
  BY AccountAssumption DEF Shapes, Mint
<1>2. minted + 1 \in Tokens /\ minted' = minted + 1 /\ minted' \in 0..MaxToken
  BY <1>1 DEF Mint, Tokens
<1>3. live' = (live \ dead) \cup {minted + 1} /\ live' \subseteq 1..minted'
  <2>1. live \subseteq 1..minted /\ 1..minted \subseteq 1..(minted + 1) /\ minted + 1 \in 1..(minted + 1)
    BY <1>1 DEF Shapes
  <2> QED
    BY <1>2, <2>1 DEF Mint
<1> QED
  BY <1>2, <1>3 DEF Mint, Minted, Shapes

(* What the revocation of a grant does. *)
LEMMA RevocationMoves ==
  ASSUME NEW tok, NEW o, Revocation(tok, o)
  PROVE  /\ live' \subseteq live /\ UNCHANGED <<minted, submitted, origin>>
         /\ o = "revoked" => live' = {}
BY DEF Revocation

(* The leases that go with a credential. *)
LEMMA LeasesMove ==
  ASSUME lease \in [Leases -> {"none", "open", "redeemed", "deleted"}], DropLeases
  PROVE  /\ lease' \in [Leases -> {"none", "open", "redeemed", "deleted"}]
         /\ \A l \in Leases : /\ lease'[l] \in {"none", "deleted"}
                              /\ lease'[l] = "none" <=> lease[l] = "none"
BY DEF DropLeases

(* A command gets its answer. *)
LEMMA CommandMoves ==
  ASSUME command \in [Keys -> CommandValues], NEW k \in Keys, NEW a \in CommandValues
  PROVE  command' = [command EXCEPT ![k] = a] =>
           /\ command' \in [Keys -> CommandValues] /\ command'[k] = a
           /\ \A m \in Keys \ {k} : command'[m] = command[m]
OBVIOUS

-----------------------------------------------------------------------------
(* What each step does to the state, field by field. *)

(* Thread t goes on at pc with its locals. *)
Stays(t, pc, tok, n, o) == Moved(t, pc, thread[t].inst, thread[t].key, tok, n, o)

(* complete_github_link claims a pending session. *)
LEMMA ClaimSessionEffect ==
  ASSUME IInv, NEW t \in Threads, NEW i \in Instances, NEW s \in Sessions, ClaimSession(t, i, s)
  PROVE  /\ thread[t].pc = "idle" /\ inst[i].phase = "serving" /\ session[s].status = "pending"
         /\ Moved(t, "exchange", i, s, None, 0, None)
         /\ SessionSet(s, "processing", session[s].blob, session[s].outcome)
         /\ UNCHANGED <<account, lease, command, live, minted, submitted, origin, inst, handed>>
<1>1. Begin(t, i, "exchange", s) /\ session' = [session EXCEPT ![s].status = "processing"]
  BY DEF ClaimSession
<1>2. Moved(t, "exchange", i, s, None, 0, None)
  BY <1>1, BeginMoves DEF IInv, Shapes, Keys, ThreadPC
<1>3. SessionSet(s, "processing", session[s].blob, session[s].outcome)
  BY <1>1, SessionMoves DEF IInv, Shapes
<1> QED
  BY <1>1, <1>2, <1>3 DEF ClaimSession, Begin, githubVars

(* The exchange of the one-time code. *)
LEMMA ExchangeEffect ==
  ASSUME IInv, NEW t \in Threads, ExchangeCode(t)
  PROVE  /\ thread[t].pc = "exchange" /\ thread[t].key \in Sessions
         /\ UNCHANGED <<session, account, lease, command, submitted, inst, handed>>
         /\ \/ /\ Minted(thread[t].key, {})
               /\ \E pc \in {"persist", "revoke_minted"} :
                    Stays(t, pc, minted + 1, thread[t].revision, thread[t].outcome)
            \/ Minted(thread[t].key, {}) /\ Stays(t, "settle", thread[t].tok, thread[t].revision, "unknown")
            \/ Minted("rejected", {}) /\ Stays(t, "settle", thread[t].tok, thread[t].revision, "not_issued")
            \/ /\ UNCHANGED <<live, minted, origin>>
               /\ \E o \in {"not_issued", "unknown"} : Stays(t, "settle", thread[t].tok, thread[t].revision, o)
<1>1. thread[t].pc = "exchange" /\ thread[t].key \in Sessions /\ thread \in [Threads -> Locals]
  BY DEF ExchangeCode, At, IInv, SessionInv, CallbackOK, Callback, Shapes
<1>2. UNCHANGED <<session, account, lease, command, submitted, inst, handed>>
  BY DEF ExchangeCode, storeVars
<1>3. \A from \in {thread[t].key, "rejected"} : Mint(from, {}) => Minted(from, {})
  BY <1>1, MintMoves DEF IInv
<1>t. thread[t].tok \in Tokens \cup {None} /\ thread[t].revision \in Nat /\ thread[t].outcome \in Outcomes
  BY <1>1 DEF Locals
<1>4. ASSUME NEW pc \in {"persist", "revoke_minted"}, minted + 1 \in Tokens,
             thread' = [thread EXCEPT ![t].pc = pc, ![t].tok = minted + 1]
      PROVE  Stays(t, pc, minted + 1, thread[t].revision, thread[t].outcome)
  <2>1. pc \in ThreadPC
    BY DEF ThreadPC
  <2> QED
    BY <1>1, <1>t, <1>4, <2>1, ThreadMoves DEF Stays
<1>5. ASSUME NEW o \in {"not_issued", "unknown"},
             thread' = [thread EXCEPT ![t].pc = "settle", ![t].outcome = o]
      PROVE  Stays(t, "settle", thread[t].tok, thread[t].revision, o)
  <2>1. "settle" \in ThreadPC /\ o \in Outcomes
    BY DEF ThreadPC, Outcomes
  <2> QED
    BY <1>1, <1>t, <1>5, <2>1, ThreadMoves DEF Stays
<1>6. Minted(thread[t].key, {}) => minted + 1 \in Tokens
  BY DEF Minted
<1> QED
  BY <1>1, <1>2, <1>3, <1>4, <1>5, <1>6 DEF ExchangeCode

(* A step of a thread that only goes on. *)
LEMMA GotoEffect ==
  ASSUME IInv, NEW t \in Threads, NEW pc \in ThreadPC, Goto(t, pc)
  PROVE  Stays(t, pc, thread[t].tok, thread[t].revision, thread[t].outcome)
<1>1. /\ thread \in [Threads -> Locals] /\ thread[t].tok \in Tokens \cup {None}
      /\ thread[t].revision \in Nat /\ thread[t].outcome \in Outcomes
  BY DEF IInv, Shapes, Locals
<1> QED
  BY <1>1, ThreadMoves DEF Stays

(* A step of a thread that ends its request. *)
LEMMA ReturnEffect ==
  ASSUME IInv, NEW t \in Threads, Return(t)
  PROVE  Gone(t)
BY IdleTyped DEF Return, Gone, IInv, Shapes

(* The token of a callback is kept in its session. *)
LEMMA PersistEffect ==
  ASSUME IInv, NEW t \in Threads, PersistCredential(t)
  PROVE  /\ thread[t].pc = "persist" /\ thread[t].key \in Sessions
         /\ UNCHANGED <<account, lease, command, live, minted, submitted, origin, inst, handed>>
         /\ \/ /\ session[thread[t].key].status = "processing"
               /\ SessionSet(thread[t].key, "processing", thread[t].tok, session[thread[t].key].outcome)
               /\ thread[t].tok # None
               /\ Stays(t, "verify", thread[t].tok, thread[t].revision, thread[t].outcome)
            \/ /\ session' = session
               /\ Stays(t, "revoke_minted", thread[t].tok, thread[t].revision, thread[t].outcome)
<1>1. thread[t].pc = "persist" /\ thread[t].key \in Sessions /\ thread[t].tok \in 1..minted
  BY DEF PersistCredential, At, IInv, SessionInv, CallbackOK, Callback
<1>2. thread[t].tok \in Tokens /\ thread[t].tok # None
  BY <1>1, AccountAssumption DEF IInv, Shapes, Tokens
<1>3. session' = [session EXCEPT ![thread[t].key].blob = thread[t].tok] =>
        SessionSet(thread[t].key, session[thread[t].key].status, thread[t].tok, session[thread[t].key].outcome)
  BY <1>1, <1>2, SessionMoves DEF IInv, Shapes
<1>4. "verify" \in ThreadPC /\ "revoke_minted" \in ThreadPC
  BY DEF ThreadPC
<1> QED
  BY <1>1, <1>2, <1>3, <1>4, GotoEffect DEF PersistCredential, githubVars

(* The identity behind the token is verified. *)
LEMMA VerifyEffect ==
  ASSUME IInv, NEW t \in Threads, VerifyIdentity(t)
  PROVE  /\ thread[t].pc = "verify"
         /\ UNCHANGED <<session, account, lease, command, live, minted, submitted, origin, inst, handed>>
         /\ \/ \E pc \in {"insert", "revoke_minted"} :
                 Stays(t, pc, thread[t].tok, thread[t].revision, thread[t].outcome)
            \/ Stays(t, "settle", thread[t].tok, thread[t].revision, "unknown")
<1>1. {"insert", "revoke_minted", "settle"} \subseteq ThreadPC /\ "unknown" \in Outcomes
  BY DEF ThreadPC, Outcomes
<1>2. /\ thread \in [Threads -> Locals] /\ thread[t].tok \in Tokens \cup {None}
      /\ thread[t].revision \in Nat
  BY DEF IInv, Shapes, Locals
<1>3. thread' = [thread EXCEPT ![t].pc = "settle", ![t].outcome = "unknown"] =>
        Stays(t, "settle", thread[t].tok, thread[t].revision, "unknown")
  BY <1>1, <1>2, ThreadMoves DEF Stays
<1> QED
  BY <1>1, <1>3, GotoEffect DEF VerifyIdentity, At, storeVars, githubVars

(* The account is inserted, or the token has to go. *)
LEMMA InsertEffect ==
  ASSUME IInv, NEW t \in Threads, InsertAccount(t)
  PROVE  /\ thread[t].pc = "insert" /\ thread[t].key \in Sessions /\ thread[t].tok \in 1..minted
         /\ thread[t].tok \in Tokens
         /\ UNCHANGED <<lease, command, live, minted, submitted, origin, inst, handed>>
         /\ \/ /\ account.status = "none" /\ session[thread[t].key].status = "processing"
               /\ Row(account', "active", "ready", thread[t].tok, 0, None, None, None, None, None)
               /\ SessionSet(thread[t].key, "completed", None, None)
               /\ Gone(t)
            \/ /\ UNCHANGED <<session, account>>
               /\ Stays(t, "revoke_minted", thread[t].tok, thread[t].revision, thread[t].outcome)
<1>1. thread[t].pc = "insert" /\ thread[t].key \in Sessions /\ thread[t].tok \in 1..minted
  BY DEF InsertAccount, At, IInv, SessionInv, CallbackOK, Callback
<1>2. thread[t].tok \in Tokens
  BY <1>1, AccountAssumption DEF IInv, Shapes, Tokens
<1>3. account' = [NoAccount EXCEPT !.status = "active", !.blob = thread[t].tok] =>
        Row(account', "active", "ready", thread[t].tok, 0, None, None, None, None, None)
  <2>1. PICK k \in Tokens : k = thread[t].tok
    BY <1>2
  <2>2. Row([NoAccount EXCEPT !.status = "active", !.blob = k],
            "active", "ready", k, 0, None, None, None, None, None)
    BY DEF Row, NoAccount, AccountRows, RemoteStatus
  <2> QED
    BY <2>1, <2>2
<1>4. session' = [session EXCEPT ![thread[t].key] = [NoSession EXCEPT !.status = "completed"]] =>
        SessionSet(thread[t].key, "completed", None, None)
  BY <1>1, SessionMoves DEF IInv, Shapes
<1>5. "revoke_minted" \in ThreadPC
  BY DEF ThreadPC
<1> QED
  BY <1>1, <1>2, <1>3, <1>4, <1>5, GotoEffect, ReturnEffect DEF InsertAccount, githubVars

(* The token of a callback that failed is revoked. *)
LEMMA RevokeMintedEffect ==
  ASSUME IInv, NEW t \in Threads, RevokeMinted(t)
  PROVE  /\ thread[t].pc = "revoke_minted"
         /\ UNCHANGED <<session, account, lease, command, minted, submitted, origin, inst, handed>>
         /\ live' \subseteq live
         /\ \E o \in Revoked : /\ o = "revoked" => live' = {}
                               /\ Stays(t, "settle", None, thread[t].revision, o)
<1>1. PICK o \in RemoteStatus \ {None, "pending"} :
        /\ Revocation(thread[t].tok, o)
        /\ thread' = [thread EXCEPT ![t].pc = "settle", ![t].tok = None, ![t].outcome = o]
  BY DEF RevokeMinted
<1>2. o \in Revoked /\ o \in Outcomes /\ "settle" \in ThreadPC
  BY DEF RemoteStatus, Revoked, Outcomes, ThreadPC
<1>3. live' \subseteq live /\ UNCHANGED <<minted, submitted, origin>> /\ (o = "revoked" => live' = {})
  BY <1>1, RevocationMoves
<1>4. Stays(t, "settle", None, thread[t].revision, o)
  <2>1. thread \in [Threads -> Locals] /\ thread[t].revision \in Nat
    BY DEF IInv, Shapes, Locals
  <2> QED
    BY <1>1, <1>2, <2>1, ThreadMoves DEF Stays
<1> QED
  BY <1>2, <1>3, <1>4 DEF RevokeMinted, At, storeVars

(* The callback leaves its session failed. *)
LEMMA SettleEffect ==
  ASSUME IInv, NEW t \in Threads, SettleCallback(t)
  PROVE  /\ thread[t].pc = "settle" /\ thread[t].key \in Sessions /\ Gone(t)
         /\ UNCHANGED <<account, lease, command, live, minted, submitted, origin, inst, handed>>
         /\ session[thread[t].key].status = "processing" =>
              SessionSet(thread[t].key, "failed", None, thread[t].outcome)
         /\ session[thread[t].key].status # "processing" => session' = session
<1>1. /\ thread[t].pc = "settle" /\ thread[t].key \in Sessions
      /\ thread[t].outcome \in {"not_issued"} \cup Revoked
  BY DEF SettleCallback, At, IInv, SessionInv, CallbackOK, Callback
<1>2. session' = FailedSession(thread[t].key, thread[t].outcome)
  BY DEF SettleCallback
<1>3. /\ session[thread[t].key].status = "processing" =>
           SessionSet(thread[t].key, "failed", None, thread[t].outcome)
      /\ session[thread[t].key].status # "processing" => session' = session
  <2>1. thread[t].outcome \in {None, "not_issued"} \cup Revoked /\ session \in [Sessions -> SessionRows]
    BY <1>1 DEF IInv, Shapes
  <2> QED
    BY <1>1, <1>2, <2>1, SessionMoves
<1> QED
  BY <1>1, <1>3, ReturnEffect DEF SettleCallback, githubVars

(* A lease is redeemed. *)
LEMMA RedeemLeaseEffect ==
  ASSUME IInv, NEW t \in Threads, NEW i \in Instances, NEW l \in Leases, RedeemLease(t, i, l)
  PROVE  /\ thread[t].pc = "idle" /\ inst[i].phase = "serving" /\ lease[l] = "open"
         /\ Moved(t, "fresh", i, l, None, 0, None)
         /\ lease' \in [Leases -> {"none", "open", "redeemed", "deleted"}]
         /\ lease'[l] = "redeemed" /\ \A m \in Leases \ {l} : lease'[m] = lease[m]
         /\ UNCHANGED <<session, account, command, live, minted, submitted, origin, inst, handed>>
<1>1. Begin(t, i, "fresh", l) /\ lease' = [lease EXCEPT ![l] = "redeemed"] /\ lease[l] = "open"
  BY DEF RedeemLease
<1>2. Moved(t, "fresh", i, l, None, 0, None)
  BY <1>1, BeginMoves DEF IInv, Shapes, ThreadPC
<1>3. /\ lease' \in [Leases -> {"none", "open", "redeemed", "deleted"}]
      /\ lease'[l] = "redeemed" /\ \A m \in Leases \ {l} : lease'[m] = lease[m]
  BY <1>1 DEF IInv, Shapes
<1> QED
  BY <1>1, <1>2, <1>3 DEF RedeemLease, Begin, githubVars

(* A credential was handed out for the lease of thread t. *)
HandedBy(t) ==
  /\ handed' \in [Leases -> Nat] /\ handed'[thread[t].key] = handed[thread[t].key] + 1
  /\ \A l \in Leases \ {thread[t].key} : handed'[l] = handed[l]

(* The redemption hands out a token that is not stale, or starts a refresh. *)
LEMMA ReadCredentialEffect ==
  ASSUME IInv, NEW t \in Threads, ReadCredential(t)
  PROVE  /\ thread[t].pc = "fresh" /\ thread[t].key \in Leases
         /\ UNCHANGED <<session, account, lease, command, live, minted, submitted, origin, inst>>
         /\ \/ Gone(t) /\ handed' = handed
            \/ Gone(t) /\ HandedBy(t)
            \/ /\ handed' = handed /\ account.status = "active" /\ account.cred = "ready"
               /\ account.blob \in 1..minted
               /\ \A u \in Threads : thread[u].pc \notin Locking
               /\ \E pc \in {"claim", "doomed"} :
                    Stays(t, pc, account.blob, thread[t].revision, thread[t].outcome)
<1>1. thread[t].pc = "fresh" /\ thread[t].key \in Leases
  BY DEF ReadCredential, At, IInv, LeaseInv, Redeeming
<1>2. UNCHANGED <<session, account, lease, command, live, minted, submitted, origin, inst>>
  BY DEF ReadCredential, storeVars, githubVars
<1>3. handed' = [handed EXCEPT ![thread[t].key] = @ + 1] => HandedBy(t)
  BY <1>1 DEF IInv, Shapes, HandedBy
<1>4. ASSUME account.status = "active", account.cred = "ready"
      PROVE  account.blob \in 1..minted /\ account.blob \in Tokens
  BY <1>4, AccountAssumption DEF IInv, AccountInv, Shapes, Tokens
<1>5. \A u \in Threads : thread[u].pc \notin Locking
  <2>1. LockFree(thread[t].inst) /\ thread[t].inst \in Instances /\ Running(thread[t].inst)
    BY <1>1, IdleTyped DEF ReadCredential, IInv, ProcessInv, Running
  <2> SUFFICES ASSUME NEW u \in Threads, thread[u].pc \in Locking PROVE FALSE
    OBVIOUS
  <2>2. thread[u].inst \in Instances /\ Running(thread[u].inst)
    BY IdleTyped DEF Locking, IInv, ProcessInv, Running
  <2>3. thread[u].inst = thread[t].inst
    BY <2>1, <2>2 DEF IInv, ProcessInv
  <2> QED
    BY <2>1, <2>3 DEF LockFree, HoldsLock, Locking
<1>6. ASSUME NEW pc \in {"claim", "doomed"}, account.blob \in Tokens,
             thread' = [thread EXCEPT ![t].pc = pc, ![t].tok = account.blob]
      PROVE  Stays(t, pc, account.blob, thread[t].revision, thread[t].outcome)
  <2>1. pc \in ThreadPC /\ thread \in [Threads -> Locals]
        /\ thread[t].revision \in Nat /\ thread[t].outcome \in Outcomes
    BY DEF ThreadPC, IInv, Shapes, Locals
  <2>2. PICK k \in Tokens : k = account.blob
    BY <1>6
  <2> QED
    BY <1>6, <2>1, <2>2, ThreadMoves DEF Stays
<1> QED
  BY <1>1, <1>2, <1>3, <1>4, <1>5, <1>6, ReturnEffect DEF ReadCredential

(* The durable claim, taken or refused. *)
LEMMA ClaimRefreshEffect ==
  ASSUME IInv, NEW t \in Threads, ClaimRefresh(t)
  PROVE  /\ thread[t].pc \in {"claim", "doomed"}
         /\ UNCHANGED <<session, lease, command, live, minted, submitted, origin, inst, handed>>
         /\ \/ /\ account.status = "active" /\ account.cred = "ready" /\ account.revision + 1 \in Nat
               /\ Row(account', "active", "refresh_pending", account.blob, account.revision + 1, t,
                      thread[t].inst, account.remote, account.remoteOwner, account.command)
               /\ \E pc \in {"refresh", "fail"} :
                    Stays(t, pc, thread[t].tok, account.revision + 1, thread[t].outcome)
            \/ account' = account /\ Gone(t)
<1>1. thread[t].pc \in {"claim", "doomed"}
      /\ UNCHANGED <<session, lease, command, live, minted, submitted, origin, inst, handed>>
  BY DEF ClaimRefresh, githubVars
<1>2. CASE account.status = "active" /\ account.cred = "ready"
  <2>1. PICK n \in Nat : n = account.revision + 1
    BY DEF IInv, Shapes, AccountRows
  <2>2. account' = [account EXCEPT !.cred = "refresh_pending", !.revision = n,
                                   !.claim = t, !.owner = thread[t].inst]
    BY <1>2, <2>1 DEF ClaimRefresh
  <2>3. thread[t].inst \in Instances \cup {None} /\ account \in AccountRows
    BY DEF IInv, Shapes, Locals
  <2>4. Row([account EXCEPT !.cred = "refresh_pending", !.revision = n, !.claim = t, !.owner = thread[t].inst],
            account.status, "refresh_pending", account.blob, n, t,
            thread[t].inst, account.remote, account.remoteOwner, account.command)
    BY <2>3 DEF Row, AccountRows
  <2>5. PICK pc \in {"refresh", "fail"} :
          thread' = [thread EXCEPT ![t].pc = pc, ![t].revision = n]
    BY <1>1, <1>2, <2>1 DEF ClaimRefresh
  <2>6. Stays(t, pc, thread[t].tok, n, thread[t].outcome)
    <3>1. pc \in ThreadPC /\ thread \in [Threads -> Locals] /\ thread[t].tok \in Tokens \cup {None}
          /\ thread[t].outcome \in Outcomes
      BY DEF ThreadPC, IInv, Shapes, Locals
    <3> QED
      BY <2>5, <3>1, ThreadMoves DEF Stays
  <2> QED
    BY <1>1, <1>2, <2>1, <2>2, <2>4, <2>6
<1>3. CASE ~(account.status = "active" /\ account.cred = "ready")
  BY <1>1, <1>3, ReturnEffect DEF ClaimRefresh
<1> QED
  BY <1>2, <1>3

(* The refresh token goes to GitHub. *)
LEMMA RefreshEffect ==
  ASSUME IInv, NEW t \in Threads, RefreshAtGitHub(t)
  PROVE  /\ thread[t].pc = "refresh" /\ thread[t].tok \in 1..minted /\ thread[t].tok \in Tokens
         /\ UNCHANGED <<session, account, lease, command, inst, handed>>
         /\ submitted' \in [Tokens -> Nat] /\ submitted'[thread[t].tok] = submitted[thread[t].tok] + 1
         /\ \A k \in Tokens \ {thread[t].tok} : submitted'[k] = submitted[k]
         /\ \/ /\ thread[t].tok \in live /\ Minted("refresh", {thread[t].tok})
               /\ \/ Stays(t, "finish", minted + 1, thread[t].revision, thread[t].outcome)
                  \/ Stays(t, "fail", thread[t].tok, thread[t].revision, thread[t].outcome)
            \/ /\ UNCHANGED <<live, minted, origin>>
               /\ Stays(t, "fail", thread[t].tok, thread[t].revision, thread[t].outcome)
<1>1. thread[t].pc = "refresh" /\ thread[t].tok \in 1..minted
  BY DEF RefreshAtGitHub, At, IInv, LockInv, LockOK, Locking
<1>2. thread[t].tok \in Tokens
  BY <1>1, AccountAssumption DEF IInv, Shapes, Tokens
<1>3. UNCHANGED <<session, account, lease, command, inst, handed>>
  BY DEF RefreshAtGitHub, storeVars
<1>4. /\ submitted' \in [Tokens -> Nat] /\ submitted'[thread[t].tok] = submitted[thread[t].tok] + 1
      /\ \A k \in Tokens \ {thread[t].tok} : submitted'[k] = submitted[k]
  BY <1>2 DEF RefreshAtGitHub, IInv, Shapes
<1>5. Mint("refresh", {thread[t].tok}) => Minted("refresh", {thread[t].tok})
  BY MintMoves DEF IInv
<1>6. Goto(t, "fail") => Stays(t, "fail", thread[t].tok, thread[t].revision, thread[t].outcome)
  BY GotoEffect DEF ThreadPC
<1>7. ASSUME Minted("refresh", {thread[t].tok}),
             thread' = [thread EXCEPT ![t].pc = "finish", ![t].tok = minted + 1]
      PROVE  Stays(t, "finish", minted + 1, thread[t].revision, thread[t].outcome)
  <2>1. PICK k \in Tokens : k = minted + 1
    BY <1>7 DEF Minted
  <2>2. "finish" \in ThreadPC /\ thread \in [Threads -> Locals]
        /\ thread[t].revision \in Nat /\ thread[t].outcome \in Outcomes
    BY DEF ThreadPC, IInv, Shapes, Locals
  <2> QED
    BY <1>7, <2>1, <2>2, ThreadMoves DEF Stays
<1> QED
  BY <1>1, <1>2, <1>3, <1>4, <1>5, <1>6, <1>7 DEF RefreshAtGitHub

(* The answer of the refresh is written under the claim. *)
LEMMA FinishEffect ==
  ASSUME IInv, NEW t \in Threads, FinishRefresh(t)
  PROVE  /\ thread[t].pc = "finish" /\ thread[t].key \in Leases /\ thread[t].tok \in 1..minted
         /\ Gone(t)
         /\ UNCHANGED <<session, lease, command, live, minted, submitted, origin, inst>>
         /\ \/ /\ account.status = "active" /\ HandedBy(t)
               /\ Row(account', "active", "ready", thread[t].tok, account.revision, None, None,
                      account.remote, account.remoteOwner, account.command)
            \/ account.status # "active" /\ UNCHANGED <<account, handed>>
<1>1. thread[t].pc = "finish" /\ thread[t].key \in Leases /\ thread[t].tok \in 1..minted
      /\ (account.status = "active" => HasClaim(t) /\ account.revision = thread[t].revision)
  BY DEF FinishRefresh, At, IInv, LockInv, LockOK, Locking, LeaseInv, Redeeming
<1>2. UNCHANGED <<session, lease, command, live, minted, submitted, origin, inst>> /\ Gone(t)
  BY ReturnEffect DEF FinishRefresh, githubVars
<1>3. CASE account.status = "active"
  <2>1. HandedBy(t)
    BY <1>1, <1>3 DEF FinishRefresh, HandedBy, IInv, Shapes
  <2>2. PICK k \in Tokens : k = thread[t].tok
    BY <1>1, AccountAssumption DEF IInv, Shapes, Tokens
  <2>3. account' = [account EXCEPT !.cred = "ready", !.blob = k, !.stale = FALSE, !.claim = None, !.owner = None]
    BY <1>1, <1>3, <2>2 DEF FinishRefresh
  <2>4. Row([account EXCEPT !.cred = "ready", !.blob = k, !.stale = FALSE, !.claim = None, !.owner = None],
            account.status, "ready", k, account.revision, None, None,
            account.remote, account.remoteOwner, account.command)
    BY DEF IInv, Shapes, Row, AccountRows
  <2> QED
    BY <1>1, <1>2, <1>3, <2>1, <2>2, <2>3, <2>4
<1>4. CASE account.status # "active"
  BY <1>1, <1>2, <1>4 DEF FinishRefresh, HasClaim
<1> QED
  BY <1>3, <1>4

(* The credential given up. *)
LEMMA DiscardedRow ==
  ASSUME IInv
  PROVE  Row(Discarded, account.status, "reauthorization_required", None, account.revision, None, None,
             account.remote, account.remoteOwner, account.command)
BY DEF Discarded, IInv, Shapes, Row, AccountRows

(* A refresh without an answer costs the credential and its leases. *)
LEMMA FailEffect ==
  ASSUME IInv, NEW t \in Threads, FailRefresh(t)
  PROVE  /\ thread[t].pc = "fail" /\ Gone(t)
         /\ UNCHANGED <<session, command, live, minted, submitted, origin, inst, handed>>
         /\ \/ /\ account.status = "active" /\ DropLeases
               /\ Row(account', "active", "reauthorization_required", None, account.revision, None, None,
                      account.remote, account.remoteOwner, account.command)
            \/ account.status # "active" /\ UNCHANGED <<account, lease>>
<1>1. thread[t].pc = "fail" /\ (account.status = "active" => HasClaim(t))
  BY DEF FailRefresh, At, IInv, LockInv, LockOK, Locking
<1>2. UNCHANGED <<session, command, live, minted, submitted, origin, inst, handed>> /\ Gone(t)
  BY ReturnEffect DEF FailRefresh, githubVars
<1>3. CASE account.status = "active"
  BY <1>1, <1>2, <1>3, DiscardedRow DEF FailRefresh
<1>4. CASE account.status # "active"
  BY <1>1, <1>2, <1>4 DEF FailRefresh, HasClaim
<1> QED
  BY <1>3, <1>4

(* Command k gets the value a, the other commands stay. *)
CommandSet(k, a) ==
  /\ command' \in [Keys -> CommandValues] /\ command'[k] = a
  /\ \A m \in Keys \ {k} : command'[m] = command[m]

(* begin_link reserves its command. *)
LEMMA ReserveBeginLinkEffect ==
  ASSUME IInv, NEW t \in Threads, NEW i \in Instances, NEW s \in Sessions, ReserveBeginLink(t, i, s)
  PROVE  /\ thread[t].pc = "idle" /\ inst[i].phase = "serving" /\ command[s] = "none"
         /\ Moved(t, "create_session", i, s, None, 0, None) /\ CommandSet(s, "pending")
         /\ UNCHANGED <<session, account, lease, live, minted, submitted, origin, inst, handed>>
<1>1. Begin(t, i, "create_session", s) /\ command' = [command EXCEPT ![s] = "pending"]
  BY DEF ReserveBeginLink
<1>2. Moved(t, "create_session", i, s, None, 0, None)
  BY <1>1, BeginMoves DEF IInv, Shapes, Keys, ThreadPC
<1>3. CommandSet(s, "pending")
  BY <1>1, CommandMoves DEF IInv, Shapes, Keys, CommandValues, CommandSet
<1> QED
  BY <1>1, <1>2, <1>3 DEF ReserveBeginLink, Begin, githubVars

(* So does unlink. *)
LEMMA ReserveUnlinkEffect ==
  ASSUME IInv, NEW t \in Threads, NEW i \in Instances, NEW k \in Unlinks, ReserveUnlink(t, i, k)
  PROVE  /\ thread[t].pc = "idle" /\ inst[i].phase = "serving" /\ command[k] = "none"
         /\ Moved(t, "read", i, k, None, 0, None) /\ CommandSet(k, "pending")
         /\ UNCHANGED <<session, account, lease, live, minted, submitted, origin, inst, handed>>
<1>1. Begin(t, i, "read", k) /\ command' = [command EXCEPT ![k] = "pending"]
  BY DEF ReserveUnlink
<1>2. Moved(t, "read", i, k, None, 0, None)
  BY <1>1, BeginMoves DEF IInv, Shapes, Keys, ThreadPC
<1>3. CommandSet(k, "pending")
  BY <1>1, CommandMoves DEF IInv, Shapes, Keys, CommandValues, CommandSet
<1> QED
  BY <1>1, <1>2, <1>3 DEF ReserveUnlink, Begin, githubVars

(* A thread of a command has that command's key, and the command is pending. *)
LEMMA CommandOf ==
  ASSUME IInv, NEW t \in Threads, thread[t].pc \in Commanding
  PROVE  /\ thread[t].key \in Keys /\ command[thread[t].key] = "pending"
         /\ thread[t].pc \in Creating => thread[t].key \in Sessions
         /\ thread[t].pc \notin Creating => thread[t].key \in Unlinks
         /\ \A a \in CommandValues : CompleteCommand(thread[t].key, a) => CommandSet(thread[t].key, a)
<1>1. thread[t].key \in (IF thread[t].pc \in Creating THEN Sessions ELSE Unlinks)
      /\ command[thread[t].key] = "pending"
  BY DEF IInv, CommandInv
<1>2. thread[t].key \in Keys
  BY <1>1 DEF Keys
<1>3. command \in [Keys -> CommandValues]
  BY DEF IInv, Shapes
<1> QED
  BY <1>1, <1>2, <1>3 DEF CompleteCommand, CommandSet

(* The session is created with the answer of its command. *)
LEMMA CreateSessionEffect ==
  ASSUME IInv, NEW t \in Threads, CreateSession(t)
  PROVE  /\ thread[t].pc = "create_session" /\ thread[t].key \in Sessions /\ Gone(t)
         /\ CommandSet(thread[t].key, "value")
         /\ SessionSet(thread[t].key, "pending", session[thread[t].key].blob, session[thread[t].key].outcome)
         /\ UNCHANGED <<account, lease, live, minted, submitted, origin, inst, handed>>
<1>1. thread[t].pc = "create_session" /\ thread[t].pc \in Commanding /\ thread[t].pc \in Creating
  BY DEF CreateSession, At, Commanding, Creating
<1>2. thread[t].key \in Sessions /\ command[thread[t].key] = "pending"
  BY <1>1, CommandOf
<1>3. /\ CompleteCommand(thread[t].key, "value")
      /\ session' = [session EXCEPT ![thread[t].key].status = "pending"]
  BY <1>2 DEF CreateSession
<1>4. CommandSet(thread[t].key, "value")
  BY <1>1, <1>3, CommandOf DEF CommandValues
<1>5. SessionSet(thread[t].key, "pending", session[thread[t].key].blob, session[thread[t].key].outcome)
  BY <1>2, <1>3, SessionMoves DEF IInv, Shapes
<1> QED
  BY <1>1, <1>2, <1>4, <1>5, ReturnEffect DEF CreateSession, githubVars

(* unlink reads the account. *)
LEMMA ReadAccountEffect ==
  ASSUME IInv, NEW t \in Threads, ReadAccount(t)
  PROVE  /\ thread[t].pc = "read"
         /\ UNCHANGED <<session, account, lease, command, live, minted, submitted, origin, inst, handed>>
         /\ \/ Stays(t, "record_error", thread[t].tok, thread[t].revision, thread[t].outcome)
            \/ /\ account.blob \in Tokens /\ account.blob # None
               /\ Stays(t, "unlink", account.blob, thread[t].revision, thread[t].outcome)
            \/ \E o \in {"unlinked", "revocation_unknown"} :
                 /\ Stays(t, "unlink", thread[t].tok, thread[t].revision, o)
                 /\ o = "unlinked" => account.status = "unlinked"
<1>1. thread[t].pc = "read"
      /\ UNCHANGED <<session, account, lease, command, live, minted, submitted, origin, inst, handed>>
  BY DEF ReadAccount, At, storeVars, githubVars
<1>2. /\ thread \in [Threads -> Locals] /\ thread[t].tok \in Tokens \cup {None}
      /\ thread[t].revision \in Nat /\ thread[t].outcome \in Outcomes
      /\ account.blob \in Tokens \cup {None} /\ account.status \in {"none", "active", "unlinked"}
  BY DEF IInv, Shapes, Locals, AccountRows
<1>3. "unlink" \in ThreadPC /\ "record_error" \in ThreadPC
      /\ "unlinked" \in Outcomes /\ "revocation_unknown" \in Outcomes
  BY DEF ThreadPC, Outcomes, Answers
<1>4. CASE Goto(t, "record_error")
  BY <1>1, <1>3, <1>4, GotoEffect
<1>5. CASE account.blob # None /\ thread' = [thread EXCEPT ![t].pc = "unlink", ![t].tok = account.blob]
  <2>1. PICK k \in Tokens : k = account.blob
    BY <1>2, <1>5
  <2>2. Stays(t, "unlink", k, thread[t].revision, thread[t].outcome)
    BY <1>2, <1>3, <1>5, <2>1, ThreadMoves DEF Stays
  <2> QED
    BY <1>1, <1>5, <2>1, <2>2
<1>6. ASSUME account.status # "none", NEW o \in {"unlinked", "revocation_unknown"},
             o = (IF account.cred # "ready" \/ account.blob # None THEN "revocation_unknown" ELSE "unlinked"),
             thread' = [thread EXCEPT ![t].pc = "unlink", ![t].outcome = o]
      PROVE  /\ Stays(t, "unlink", thread[t].tok, thread[t].revision, o)
             /\ o = "unlinked" => account.status = "unlinked"
  <2>1. Stays(t, "unlink", thread[t].tok, thread[t].revision, o)
    BY <1>2, <1>3, <1>6, ThreadMoves DEF Stays
  <2>2. o = "unlinked" => account.status = "unlinked"
    BY <1>2, <1>6 DEF IInv, AccountInv
  <2> QED
    BY <2>1, <2>2
<1> QED
  BY <1>1, <1>4, <1>5, <1>6 DEF ReadAccount

(* The local unlink: the row keeps only what the revocation needs. *)
LEMMA UnlinkEffect ==
  ASSUME IInv, NEW t \in Threads, Unlink(t)
  PROVE  /\ thread[t].pc = "unlink" /\ thread[t].key \in Unlinks
         /\ UNCHANGED <<session, live, minted, submitted, origin, inst, handed>>
         /\ \/ /\ account.status # "active" /\ UNCHANGED <<account, lease, command>>
               /\ Stays(t, "record_error", thread[t].tok, thread[t].revision, thread[t].outcome)
            \/ /\ account.status = "active" /\ DropLeases /\ thread[t].tok # None
               /\ \/ Row(account', "unlinked", "ready", None, account.revision, None, None,
                         "pending", thread[t].inst, thread[t].key)
                  \/ Row(account', "unlinked", "ready", None, account.revision, None, None,
                         "unknown", None, None)
               /\ command' = command
               /\ Stays(t, "revoke_remote", thread[t].tok, thread[t].revision, thread[t].outcome)
            \/ /\ account.status = "active" /\ DropLeases /\ thread[t].tok = None
               /\ Row(account', "unlinked", "ready", None, account.revision, None, None, "unknown", None, None)
               /\ CommandSet(thread[t].key, "revocation_unknown") /\ Gone(t)
<1>1. thread[t].pc = "unlink" /\ thread[t].pc \in Commanding /\ thread[t].pc \notin Creating
  BY DEF Unlink, At, Commanding, Creating, Unlinking
<1>2. thread[t].key \in Unlinks /\ command[thread[t].key] = "pending"
  BY <1>1, CommandOf
<1>3. UNCHANGED <<session, live, minted, submitted, origin, inst, handed>>
  BY DEF Unlink, githubVars
<1>4. CASE account.status # "active"
  <2>1. Goto(t, "record_error") /\ UNCHANGED <<account, lease, command>>
    BY <1>4 DEF Unlink
  <2> QED
    BY <1>1, <1>2, <1>3, <1>4, <2>1, GotoEffect DEF ThreadPC
<1>5. CASE account.status = "active"
  <2> DEFINE forced == account.blob # None /\ thread[t].tok = None
             remote == IF account.blob # None /\ ~forced THEN "pending"
                       ELSE IF account.cred # "ready" \/ forced THEN "unknown" ELSE None
             due    == remote = "pending"
  <2>1. /\ account' = [NoAccount EXCEPT !.status = "unlinked", !.remote = remote,
                              !.revision = account.revision,
                              !.remoteOwner = IF due THEN thread[t].inst ELSE None,
                              !.command = IF due THEN thread[t].key ELSE None]
        /\ DropLeases
        /\ thread[t].tok # None => Goto(t, "revoke_remote") /\ command' = command
        /\ thread[t].tok = None => CompleteCommand(thread[t].key, thread[t].outcome) /\ Return(t)
    BY <1>2, <1>5 DEF Unlink
  <2>2. remote \in {"pending", "unknown"} /\ (thread[t].tok = None => remote = "unknown")
    BY <1>5 DEF IInv, AccountInv
  <2>3. PICK n \in Nat : n = account.revision
    BY DEF IInv, Shapes, AccountRows
  <2>4. PICK i \in Instances \cup {None} : i = thread[t].inst
    BY DEF IInv, Shapes, Locals
  <2>5. PICK k \in Unlinks : k = thread[t].key
    BY <1>2
  <2>6. CASE remote = "pending"
    <3>1. account' = [NoAccount EXCEPT !.status = "unlinked", !.remote = "pending", !.revision = n,
                                       !.remoteOwner = i, !.command = k]
      BY <2>1, <2>3, <2>4, <2>5, <2>6
    <3>2. Row([NoAccount EXCEPT !.status = "unlinked", !.remote = "pending", !.revision = n,
                                !.remoteOwner = i, !.command = k],
              "unlinked", "ready", None, n, None, None, "pending", i, k)
      BY DEF Row, NoAccount, AccountRows, RemoteStatus
    <3>3. Row(account', "unlinked", "ready", None, account.revision, None, None,
              "pending", thread[t].inst, thread[t].key)
      BY <2>3, <2>4, <2>5, <3>1, <3>2
    <3>4. thread[t].tok # None /\ Goto(t, "revoke_remote") /\ command' = command
      BY <2>1, <2>2, <2>6
    <3> QED
      BY <1>1, <1>2, <1>3, <1>5, <2>1, <3>3, <3>4, GotoEffect DEF ThreadPC
  <2>7. CASE remote = "unknown"
    <3>1. account' = [NoAccount EXCEPT !.status = "unlinked", !.remote = "unknown", !.revision = n,
                                       !.remoteOwner = None, !.command = None]
      BY <2>1, <2>3, <2>7
    <3>2. Row([NoAccount EXCEPT !.status = "unlinked", !.remote = "unknown", !.revision = n,
                                !.remoteOwner = None, !.command = None],
              "unlinked", "ready", None, n, None, None, "unknown", None, None)
      BY DEF Row, NoAccount, AccountRows, RemoteStatus
    <3>3. Row(account', "unlinked", "ready", None, account.revision, None, None, "unknown", None, None)
      BY <2>3, <3>1, <3>2
    <3>4. CASE thread[t].tok # None
      BY <1>1, <1>2, <1>3, <1>5, <2>1, <3>3, <3>4, GotoEffect DEF ThreadPC
    <3>5. CASE thread[t].tok = None
      <4>1. thread[t].outcome = "revocation_unknown"
        BY <1>1, <1>5, <3>5 DEF IInv, RemoteInv
      <4>2. CommandSet(thread[t].key, "revocation_unknown")
        BY <1>1, <2>1, <3>5, <4>1, CommandOf DEF CommandValues, Answers
      <4> QED
        BY <1>1, <1>2, <1>3, <1>5, <2>1, <3>3, <3>5, <4>2, ReturnEffect
    <3> QED
      BY <3>4, <3>5
  <2> QED
    BY <2>2, <2>6, <2>7
<1> QED
  BY <1>4, <1>5

(* The remote revocation of an unlink. *)
LEMMA RevokeRemoteEffect ==
  ASSUME IInv, NEW t \in Threads, RevokeRemote(t)
  PROVE  /\ thread[t].pc = "revoke_remote"
         /\ UNCHANGED <<session, account, lease, command, minted, submitted, origin, inst, handed>>
         /\ live' \subseteq live
         /\ \E o \in Revoked : /\ o = "revoked" => live' = {}
                               /\ Stays(t, "set_status", None, thread[t].revision, o)
<1>1. PICK o \in RemoteStatus \ {None, "pending"} :
        /\ Revocation(thread[t].tok, o)
        /\ thread' = [thread EXCEPT ![t].pc = "set_status", ![t].tok = None, ![t].outcome = o]
  BY DEF RevokeRemote
<1>2. o \in Revoked /\ o \in Outcomes /\ "set_status" \in ThreadPC
  BY DEF RemoteStatus, Revoked, Outcomes, ThreadPC
<1>3. live' \subseteq live /\ UNCHANGED <<minted, submitted, origin>> /\ (o = "revoked" => live' = {})
  BY <1>1, RevocationMoves
<1>4. Stays(t, "set_status", None, thread[t].revision, o)
  <2>1. thread \in [Threads -> Locals] /\ thread[t].revision \in Nat
    BY DEF IInv, Shapes, Locals
  <2> QED
    BY <1>1, <1>2, <2>1, ThreadMoves DEF Stays
<1> QED
  BY <1>2, <1>3, <1>4 DEF RevokeRemote, At, storeVars

(* The outcome of a revocation has an answer. *)
LEMMA AnswerTyped == \A o \in Revoked : AnswerOf(o) \in Answers /\ AnswerOf(o) \in CommandValues
BY DEF Revoked, AnswerOf, Answers, CommandValues

(* The outcome of the revocation is recorded with the answer of the command. *)
LEMMA SetStatusEffect ==
  ASSUME IInv, NEW t \in Threads, SetRevocationStatus(t)
  PROVE  /\ thread[t].pc = "set_status" /\ thread[t].key \in Unlinks /\ thread[t].outcome \in Revoked
         /\ UNCHANGED <<session, lease, live, minted, submitted, origin, inst, handed>>
         /\ \/ /\ account.status = "unlinked" /\ account.remote = "pending"
               /\ Row(account', account.status, account.cred, account.blob, account.revision,
                      account.claim, account.owner, thread[t].outcome, None, None)
               /\ CommandSet(thread[t].key, AnswerOf(thread[t].outcome)) /\ Gone(t)
            \/ /\ account.remote # "pending" \/ account.remoteOwner # thread[t].inst
               /\ UNCHANGED <<account, command>>
               /\ Stays(t, "record_error", thread[t].tok, thread[t].revision, thread[t].outcome)
<1>1. /\ thread[t].pc = "set_status" /\ thread[t].pc \in Commanding /\ thread[t].pc \notin Creating
      /\ thread[t].outcome \in Revoked /\ account.status = "unlinked"
  BY DEF SetRevocationStatus, At, Commanding, Creating, Unlinking, Revoking, IInv, RemoteInv
<1>2. thread[t].key \in Unlinks /\ command[thread[t].key] = "pending"
  BY <1>1, CommandOf
<1>3. UNCHANGED <<session, lease, live, minted, submitted, origin, inst, handed>>
  BY DEF SetRevocationStatus, githubVars
<1>4. CASE account.remote = "pending" /\ account.remoteOwner = thread[t].inst
  <2>1. /\ account' = [account EXCEPT !.remote = thread[t].outcome, !.remoteOwner = None, !.command = None]
        /\ CompleteCommand(thread[t].key, AnswerOf(thread[t].outcome)) /\ Return(t)
    BY <1>1, <1>2, <1>4 DEF SetRevocationStatus
  <2>2. PICK r \in RemoteStatus : r = thread[t].outcome
    BY <1>1 DEF Revoked, RemoteStatus
  <2>3. Row([account EXCEPT !.remote = r, !.remoteOwner = None, !.command = None],
            account.status, account.cred, account.blob, account.revision,
            account.claim, account.owner, r, None, None)
    BY DEF IInv, Shapes, Row, AccountRows
  <2>4. CommandSet(thread[t].key, AnswerOf(thread[t].outcome))
    BY <1>1, <2>1, CommandOf, AnswerTyped
  <2> QED
    BY <1>1, <1>2, <1>3, <1>4, <2>1, <2>2, <2>3, <2>4, ReturnEffect
<1>5. CASE account.remote # "pending" \/ account.remoteOwner # thread[t].inst
  <2>1. Goto(t, "record_error") /\ UNCHANGED <<account, command>>
    BY <1>5 DEF SetRevocationStatus
  <2> QED
    BY <1>1, <1>2, <1>3, <1>5, <2>1, GotoEffect DEF ThreadPC
<1> QED
  BY <1>4, <1>5

(* A failed command is answered with its error. *)
LEMMA RecordErrorEffect ==
  ASSUME IInv, NEW t \in Threads, RecordError(t)
  PROVE  /\ thread[t].pc = "record_error" /\ thread[t].key \in Unlinks
         /\ CommandSet(thread[t].key, "error") /\ Gone(t)
         /\ UNCHANGED <<session, account, lease, live, minted, submitted, origin, inst, handed>>
<1>1. thread[t].pc = "record_error" /\ thread[t].pc \in Commanding /\ thread[t].pc \notin Creating
  BY DEF RecordError, At, Commanding, Creating, Unlinking
<1>2. thread[t].key \in Unlinks /\ command[thread[t].key] = "pending"
  BY <1>1, CommandOf
<1>3. CompleteCommand(thread[t].key, "error")
  BY <1>2 DEF RecordError
<1>4. CommandSet(thread[t].key, "error")
  BY <1>1, <1>3, CommandOf DEF CommandValues
<1> QED
  BY <1>1, <1>2, <1>4, ReturnEffect DEF RecordError, githubVars

(* A lease is created for a usable account. *)
LEMMA CreateLeaseEffect ==
  ASSUME IInv, NEW i \in Instances, NEW l \in Leases, CreateLease(i, l)
  PROVE  /\ account.status = "active" /\ account.cred = "ready" /\ lease[l] = "none"
         /\ lease' \in [Leases -> {"none", "open", "redeemed", "deleted"}]
         /\ lease'[l] = "open" /\ \A m \in Leases \ {l} : lease'[m] = lease[m]
         /\ UNCHANGED <<session, account, command, live, minted, submitted, origin, inst, thread, handed>>
<1>1. lease' = [lease EXCEPT ![l] = "open"]
  BY DEF CreateLease
<1>2. /\ lease' \in [Leases -> {"none", "open", "redeemed", "deleted"}]
      /\ lease'[l] = "open" /\ \A m \in Leases \ {l} : lease'[m] = lease[m]
  BY <1>1 DEF IInv, Shapes
<1> QED
  BY <1>2 DEF CreateLease, githubVars

(* prune_expired. *)
LEMMA PruneEffect ==
  ASSUME IInv, NEW i \in Instances, Prune(i)
  PROVE  /\ inst[i].phase = "serving"
         /\ session' \in [Sessions -> SessionRows]
         /\ \A s \in Sessions :
              \/ session'[s] = session[s] /\ session[s].status \notin {"processing", "completed", "failed"}
              \/ /\ session'[s].status = "pruned" /\ session'[s].blob = None /\ session'[s].outcome = None
                 /\ session[s].status \in {"processing", "completed", "failed"}
         /\ lease' \in [Leases -> {"none", "open", "redeemed", "deleted"}]
         /\ \A l \in Leases : lease'[l] = lease[l] \/ (lease[l] = "redeemed" /\ lease'[l] = "deleted")
         /\ UNCHANGED <<account, command, live, minted, submitted, origin, inst, thread, handed>>
<1> DEFINE g == [NoSession EXCEPT !.status = "pruned"]
<1>1. g \in SessionRows /\ g.status = "pruned" /\ g.blob = None /\ g.outcome = None
  BY DEF NoSession, SessionRows
<1>2. session' = [s \in Sessions |->
        IF session[s].status \in {"processing", "completed", "failed"} THEN g ELSE session[s]]
  BY DEF Prune
<1> HIDE DEF g
<1>3. session \in [Sessions -> SessionRows] /\ lease \in [Leases -> {"none", "open", "redeemed", "deleted"}]
  BY DEF IInv, Shapes
<1>4. session' \in [Sessions -> SessionRows]
  BY <1>1, <1>2, <1>3
<1>5. \A s \in Sessions :
        \/ session'[s] = session[s] /\ session[s].status \notin {"processing", "completed", "failed"}
        \/ /\ session'[s].status = "pruned" /\ session'[s].blob = None /\ session'[s].outcome = None
           /\ session[s].status \in {"processing", "completed", "failed"}
  BY <1>1, <1>2
<1>6. /\ lease' \in [Leases -> {"none", "open", "redeemed", "deleted"}]
      /\ \A l \in Leases : lease'[l] = lease[l] \/ (lease[l] = "redeemed" /\ lease'[l] = "deleted")
  BY <1>3 DEF Prune
<1> QED
  BY <1>4, <1>5, <1>6 DEF Prune, githubVars

(* The access token comes near its expiry. *)
LEMMA TokenExpiresEffect ==
  ASSUME IInv, TokenExpires
  PROVE  /\ Row(account', account.status, account.cred, account.blob, account.revision, account.claim,
                account.owner, account.remote, account.remoteOwner, account.command)
         /\ UNCHANGED <<session, lease, command, live, minted, submitted, origin, inst, thread, handed>>
<1>1. Row([account EXCEPT !.stale = TRUE], account.status, account.cred, account.blob, account.revision,
          account.claim, account.owner, account.remote, account.remoteOwner, account.command)
  BY DEF IInv, Shapes, Row, AccountRows
<1> QED
  BY <1>1 DEF TokenExpires, githubVars

(* A process dies with its threads. *)
LEMMA CrashEffect ==
  ASSUME IInv, NEW i \in Instances, Crash(i)
  PROVE  /\ Running(i) /\ ProcSet(i, "dead", {}, None, None)
         /\ thread' \in [Threads -> Locals] /\ \A t \in Threads : thread'[t] = Idle /\ thread'[t].pc = "idle"
         /\ UNCHANGED <<session, account, lease, command, live, minted, submitted, origin, handed>>
<1>1. inst' = [inst EXCEPT ![i] = [Unborn EXCEPT !.phase = "dead"]] /\ Running(i)
  BY DEF Crash
<1>2. ProcSet(i, "dead", {}, None, None)
  <2> DEFINE g == [Unborn EXCEPT !.phase = "dead"]
  <2>1. /\ g \in Procs /\ g.phase = "dead" /\ g.todo = {} /\ g.current = None /\ g.outcome = None
    BY DEF Unborn, Procs, Phases
  <2>2. inst' = [inst EXCEPT ![i] = g]
    BY <1>1
  <2> HIDE DEF g
  <2> QED
    BY <2>1, <2>2 DEF ProcSet, IInv, Shapes
<1>3. \A t \in Threads : thread[t].inst = i \/ thread[t] = Idle
  <2> SUFFICES ASSUME NEW t \in Threads, thread[t] # Idle PROVE thread[t].inst = i
    OBVIOUS
  <2>1. thread[t].inst \in Instances /\ Running(thread[t].inst)
    BY DEF IInv, ProcessInv, Running
  <2> QED
    BY <1>1, <2>1 DEF IInv, ProcessInv
<1>4. \A t \in Threads : thread'[t] = Idle
  BY <1>3 DEF Crash
<1>5. thread' \in [Threads -> Locals]
  BY <1>3, IdleTyped DEF Crash, IInv, Shapes
<1> QED
  BY <1>1, <1>2, <1>4, <1>5, IdleTyped DEF Crash, storeVars, githubVars

(* While a process recovers, it is the only one and no request runs. *)
LEMMA RecoveryAlone ==
  ASSUME IInv, NEW i \in Instances, inst[i].phase \in {"list", "callbacks", "settle", "commands"}
  PROVE  /\ Running(i) /\ \A j \in Instances \ {i} : inst[j].phase \in {"unborn", "dead"}
         /\ \A t \in Threads : thread[t].pc = "idle"
<1>1. Running(i)
  BY DEF Running
<1>2. \A j \in Instances \ {i} : inst[j].phase \in {"unborn", "dead"}
  BY <1>1 DEF IInv, ProcessInv, Running
<1>3. \A t \in Threads : thread[t].pc = "idle"
  BY <1>2, IdleTyped DEF IInv, ProcessInv
<1> QED
  BY <1>1, <1>2, <1>3

(* A process starts when none runs, and takes over what the last one left. *)
LEMMA StartEffect ==
  ASSUME IInv, MaxLive = 1, NEW i \in Instances, Start(i)
  PROVE  /\ \A j \in Instances : inst[j].phase \in {"unborn", "dead"}
         /\ \A t \in Threads : thread[t] = Idle /\ thread[t].pc = "idle"
         /\ ProcSet(i, "list", inst[i].todo, inst[i].current, inst[i].outcome)
         /\ \/ /\ account.cred = "refresh_pending" /\ account.status = "active" /\ DropLeases
               /\ Row(account', "active", "reauthorization_required", None, account.revision, None, None,
                      account.remote, account.remoteOwner, account.command)
            \/ /\ account.status = "unlinked" /\ account.remote = "pending" /\ lease' = lease
               /\ Row(account', "unlinked", "ready", account.blob, account.revision, account.claim,
                      account.owner, "unknown", None, account.command)
            \/ /\ account.cred # "refresh_pending" /\ account.remote # "pending"
               /\ account' = account /\ ((DropLeases /\ account.cred = "reauthorization_required") \/ lease' = lease)
         /\ session' \in [Sessions -> SessionRows]
         /\ \A s \in Sessions :
              \/ session'[s] = session[s] /\ ~(session[s].status = "processing" /\ session[s].blob = None)
              \/ /\ session'[s].status = "failed" /\ session'[s].blob = None /\ session'[s].outcome = "unknown"
                 /\ session[s].status = "processing" /\ session[s].blob = None
         /\ UNCHANGED <<command, live, minted, submitted, origin, thread, handed>>
<1>1. \A j \in Instances : inst[j].phase \in {"unborn", "dead"}
  <2> DEFINE R == {j \in Instances : Running(j)}
  <2>1. IsFiniteSet(R)
    <3>1. IsFiniteSet(1..MaxInstance)
      BY AccountAssumption, FS_Interval
    <3> QED
      BY <3>1, FS_Subset DEF Instances
  <2>2. Cardinality(R) \in Nat /\ Cardinality(R) < 1
    BY <2>1, FS_CardinalityType DEF Start
  <2>3. Cardinality(R) = 0
    BY <2>2
  <2>4. R = {}
    BY <2>1, <2>3, FS_EmptySet
  <2> QED
    BY <2>4 DEF Running
<1>2. \A t \in Threads : thread[t] = Idle /\ thread[t].pc = "idle"
  BY <1>1, IdleTyped DEF IInv, ProcessInv
<1>3. ProcSet(i, "list", inst[i].todo, inst[i].current, inst[i].outcome)
  BY DEF Start, ProcSet, IInv, Shapes, Procs, Phases
<1>4. \/ /\ account.cred = "refresh_pending" /\ account.status = "active" /\ DropLeases
         /\ Row(account', "active", "reauthorization_required", None, account.revision, None, None,
                account.remote, account.remoteOwner, account.command)
      \/ /\ account.status = "unlinked" /\ account.remote = "pending" /\ lease' = lease
         /\ Row(account', "unlinked", "ready", account.blob, account.revision, account.claim,
                account.owner, "unknown", None, account.command)
      \/ /\ account.cred # "refresh_pending" /\ account.remote # "pending"
         /\ account' = account /\ ((DropLeases /\ account.cred = "reauthorization_required") \/ lease' = lease)
  <2> DEFINE refreshed == IF account.cred = "refresh_pending" THEN Discarded ELSE account
  <2>1. /\ account' = IF refreshed.status = "unlinked" /\ refreshed.remote = "pending"
                      THEN [refreshed EXCEPT !.remote = "unknown", !.remoteOwner = None]
                      ELSE refreshed
        /\ account'.cred = "reauthorization_required" => DropLeases
        /\ account'.cred # "reauthorization_required" => lease' = lease
    BY DEF Start
  <2>2. CASE account.cred = "refresh_pending"
    <3>1. account.status = "active"
      BY <2>2 DEF IInv, AccountInv
    <3>2. Row(Discarded, account.status, "reauthorization_required", None, account.revision, None, None,
              account.remote, account.remoteOwner, account.command)
      BY DiscardedRow
    <3>3. account' = Discarded
      <4>1. Discarded.status = "active"
        BY <3>1, <3>2 DEF Row
      <4> QED
        BY <2>1, <2>2, <4>1
    <3>4. account'.cred = "reauthorization_required"
      BY <3>2, <3>3 DEF Row
    <3> QED
      BY <2>1, <2>2, <3>1, <3>2, <3>3, <3>4
  <2>3. CASE account.cred # "refresh_pending" /\ account.remote = "pending"
    <3>1. account.status = "unlinked" /\ account.cred = "ready"
      <4>1. account.status \in {"none", "active", "unlinked"}
        BY DEF IInv, Shapes, AccountRows
      <4> QED
        BY <2>3, <4>1, AccountAssumption DEF IInv, AccountInv
    <3>2. Row([account EXCEPT !.remote = "unknown", !.remoteOwner = None],
              account.status, account.cred, account.blob, account.revision, account.claim, account.owner,
              "unknown", None, account.command)
      BY DEF IInv, Shapes, Row, AccountRows, RemoteStatus
    <3>3. account' = [account EXCEPT !.remote = "unknown", !.remoteOwner = None]
      BY <2>1, <2>3, <3>1
    <3>4. account'.cred = "ready"
      BY <3>1, <3>2, <3>3 DEF Row
    <3> QED
      BY <2>1, <2>3, <3>1, <3>2, <3>3, <3>4
  <2>4. CASE account.cred # "refresh_pending" /\ account.remote # "pending"
    BY <2>1, <2>4
  <2> QED
    BY <2>2, <2>3, <2>4
<1>5. /\ session' \in [Sessions -> SessionRows]
      /\ \A s \in Sessions :
              \/ session'[s] = session[s] /\ ~(session[s].status = "processing" /\ session[s].blob = None)
              \/ /\ session'[s].status = "failed" /\ session'[s].blob = None /\ session'[s].outcome = "unknown"
                 /\ session[s].status = "processing" /\ session[s].blob = None
  <2> DEFINE g == [NoSession EXCEPT !.status = "failed", !.outcome = "unknown"]
  <2>1. g \in SessionRows /\ g.status = "failed" /\ g.blob = None /\ g.outcome = "unknown"
    BY DEF NoSession, SessionRows
  <2>2. session' = [s \in Sessions |->
          IF session[s].status = "processing" /\ session[s].blob = None THEN g ELSE session[s]]
    BY DEF Start
  <2> HIDE DEF g
  <2>3. session \in [Sessions -> SessionRows]
    BY DEF IInv, Shapes
  <2> QED
    BY <2>1, <2>2, <2>3
<1> QED
  BY <1>1, <1>2, <1>3, <1>4, <1>5 DEF Start, githubVars

(* The recovery lists the callbacks that left a token. *)
LEMMA ListCallbacksEffect ==
  ASSUME IInv, NEW i \in Instances, ListCallbacks(i)
  PROVE  /\ inst[i].phase = "list"
         /\ ProcSet(i, "callbacks", {s \in Sessions : session[s].status = "processing" /\ session[s].blob # None},
                    inst[i].current, inst[i].outcome)
         /\ UNCHANGED <<session, account, lease, command, live, minted, submitted, origin, thread, handed>>
<1> DEFINE K == {s \in Sessions : session[s].status = "processing" /\ session[s].blob # None}
<1>1. K \in SUBSET Keys
  BY DEF Keys
<1>2. inst[i].phase = "list" /\ inst' = [inst EXCEPT ![i].phase = "callbacks", ![i].todo = K]
  BY DEF ListCallbacks
<1> HIDE DEF K
<1>3. ProcSet(i, "callbacks", K, inst[i].current, inst[i].outcome)
  <2> DEFINE g == [inst[i] EXCEPT !.phase = "callbacks", !.todo = K]
  <2>0. inst \in [Instances -> Procs] /\ inst[i] \in Procs
    BY DEF IInv, Shapes
  <2>1. /\ g \in Procs /\ g.phase = "callbacks" /\ g.todo = K
        /\ g.current = inst[i].current /\ g.outcome = inst[i].outcome
    BY <1>1, <2>0 DEF Procs, Phases
  <2>2. inst' = [inst EXCEPT ![i] = g]
    BY <1>2, <2>0
  <2> HIDE DEF g
  <2> QED
    BY <2>0, <2>1, <2>2 DEF ProcSet
<1> QED
  BY <1>2, <1>3 DEF ListCallbacks, storeVars, githubVars, K

(* The token an interrupted callback left is revoked. *)
LEMMA RevokeInterruptedEffect ==
  ASSUME IInv, NEW i \in Instances, RevokeInterrupted(i)
  PROVE  /\ inst[i].phase = "callbacks" /\ live' \subseteq live
         /\ \E s \in Sessions, o \in Revoked :
              /\ s \in inst[i].todo
              /\ o = "revoked" => live' = {}
              /\ ProcSet(i, "settle", inst[i].todo \ {s}, s, o)
         /\ UNCHANGED <<session, account, lease, command, minted, submitted, origin, thread, handed>>
<1>1. PICK s \in inst[i].todo, o \in RemoteStatus \ {None, "pending"}, tok \in Tokens :
        /\ origin[tok] = s /\ Revocation(tok, o)
        /\ inst' = [inst EXCEPT ![i] = [phase |-> "settle", todo |-> @.todo \ {s},
                                        current |-> s, outcome |-> o]]
  BY DEF RevokeInterrupted
<1>2. o \in Revoked
  BY DEF RemoteStatus, Revoked
<1>3. live' \subseteq live /\ UNCHANGED <<minted, submitted, origin>> /\ (o = "revoked" => live' = {})
  BY <1>1, RevocationMoves
<1>4. s \in Sessions
  <2>1. s \in Keys /\ s \in Sessions \cup {None, "refresh", "rejected"}
    <3>1. inst[i].todo \subseteq Keys
      BY DEF IInv, Shapes, Procs
    <3> QED
      BY <1>1, <3>1 DEF IInv, Shapes
  <2> QED
    BY <2>1, AccountAssumption DEF Keys
<1>5. ProcSet(i, "settle", inst[i].todo \ {s}, s, o)
  <2>1. PICK K \in SUBSET Keys : K = inst[i].todo \ {s}
    BY DEF IInv, Shapes, Procs
  <2>2. inst' = [inst EXCEPT ![i] = [phase |-> "settle", todo |-> K, current |-> s, outcome |-> o]]
    BY <1>1, <2>1
  <2>3. ProcSet(i, "settle", K, s, o)
    BY <1>2, <1>4, <2>2 DEF ProcSet, Procs, Phases, IInv, Shapes
  <2> QED
    BY <2>1, <2>3
<1> QED
  BY <1>1, <1>2, <1>3, <1>4, <1>5 DEF RevokeInterrupted, storeVars

(* The outcome of that revocation goes into the session. *)
LEMMA SettleInterruptedEffect ==
  ASSUME IInv, NEW i \in Instances, SettleInterrupted(i)
  PROVE  /\ inst[i].phase = "settle" /\ inst[i].current \in Sessions /\ inst[i].outcome \in Revoked
         /\ \/ /\ session[inst[i].current].status = "processing"
               /\ SessionSet(inst[i].current, "failed", None, inst[i].outcome)
               /\ ProcSet(i, "callbacks", inst[i].todo, None, None)
            \/ /\ session[inst[i].current].status # "processing" /\ session' = session
               /\ ProcSet(i, "dead", {}, None, None)
         /\ UNCHANGED <<account, lease, command, live, minted, submitted, origin, thread, handed>>
<1>1. inst[i].phase = "settle" /\ inst[i].current \in Sessions /\ inst[i].outcome \in Revoked
  BY DEF SettleInterrupted, IInv, SessionInv
<1>2. PICK s \in Sessions : s = inst[i].current
  BY <1>1
<1>3. PICK o \in Revoked : o = inst[i].outcome
  BY <1>1
<1>4. inst[i] \in Procs /\ inst \in [Instances -> Procs] /\ session \in [Sessions -> SessionRows]
  BY DEF IInv, Shapes
<1>5. session' = FailedSession(s, o)
  BY <1>2, <1>3 DEF SettleInterrupted
<1>6. CASE session[s].status = "processing"
  <2>1. SessionSet(s, "failed", None, o)
    BY <1>4, <1>5, <1>6, SessionMoves
  <2>2. ProcSet(i, "callbacks", inst[i].todo, None, None)
    <3> DEFINE g == [inst[i] EXCEPT !.phase = "callbacks", !.current = None, !.outcome = None]
    <3>1. /\ g \in Procs /\ g.phase = "callbacks" /\ g.todo = inst[i].todo
          /\ g.current = None /\ g.outcome = None
      BY <1>4 DEF Procs, Phases
    <3>2. inst' = [inst EXCEPT ![i] = g]
      BY <1>2, <1>6 DEF SettleInterrupted
    <3> HIDE DEF g
    <3> QED
      BY <1>4, <3>1, <3>2 DEF ProcSet
  <2> QED
    BY <1>1, <1>2, <1>3, <1>6, <2>1, <2>2 DEF SettleInterrupted, githubVars
<1>7. CASE session[s].status # "processing"
  <2>1. session' = session
    BY <1>5, <1>7 DEF FailedSession
  <2>2. ProcSet(i, "dead", {}, None, None)
    <3> DEFINE g == [Unborn EXCEPT !.phase = "dead"]
    <3>1. /\ g \in Procs /\ g.phase = "dead" /\ g.todo = {} /\ g.current = None /\ g.outcome = None
      BY DEF Unborn, Procs, Phases
    <3>2. inst' = [inst EXCEPT ![i] = g]
      BY <1>2, <1>7 DEF SettleInterrupted
    <3> HIDE DEF g
    <3> QED
      BY <1>4, <3>1, <3>2 DEF ProcSet
  <2> QED
    BY <1>1, <1>2, <1>7, <2>1, <2>2 DEF SettleInterrupted, githubVars
<1> QED
  BY <1>6, <1>7

(* The interrupted unlink is answered, and the pending commands are listed. *)
LEMMA RecoverUnlinksEffect ==
  ASSUME IInv, NEW i \in Instances, RecoverUnlinks(i)
  PROVE  /\ inst[i].phase = "callbacks" /\ inst[i].todo = {}
         /\ \/ /\ account.status = "unlinked" /\ account.remote = "unknown" /\ account.command \in Unlinks
               /\ Row(account', account.status, account.cred, account.blob, account.revision, account.claim,
                      account.owner, account.remote, account.remoteOwner, None)
               /\ \/ command[account.command] = "pending" /\ CommandSet(account.command, "revocation_unknown")
                  \/ command' = command
            \/ UNCHANGED <<account, command>>
         /\ ProcSet(i, "commands", {k \in Keys : command'[k] = "pending"}, inst[i].current, inst[i].outcome)
         /\ UNCHANGED <<session, lease, live, minted, submitted, origin, thread, handed>>
<1> DEFINE due == account.status = "unlinked" /\ account.remote = "unknown" /\ account.command # None
<1>1. /\ inst[i].phase = "callbacks" /\ inst[i].todo = {}
      /\ account' = IF due THEN [account EXCEPT !.command = None] ELSE account
      /\ command' = IF due /\ command[account.command] = "pending"
                    THEN [command EXCEPT ![account.command] = "revocation_unknown"] ELSE command
      /\ UNCHANGED <<session, lease, live, minted, submitted, origin, thread, handed>>
  BY DEF RecoverUnlinks, githubVars
<1>2. ProcSet(i, "commands", {k \in Keys : command'[k] = "pending"}, inst[i].current, inst[i].outcome)
  <2> DEFINE K == {k \in Keys : command'[k] = "pending"}
  <2>0. inst \in [Instances -> Procs] /\ inst[i] \in Procs /\ K \in SUBSET Keys
    BY DEF IInv, Shapes
  <2>1. inst' = [inst EXCEPT ![i].phase = "commands", ![i].todo = K]
    BY DEF RecoverUnlinks
  <2> HIDE DEF K
  <2> DEFINE g == [inst[i] EXCEPT !.phase = "commands", !.todo = K]
  <2>2. /\ g \in Procs /\ g.phase = "commands" /\ g.todo = K
        /\ g.current = inst[i].current /\ g.outcome = inst[i].outcome
    BY <2>0 DEF Procs, Phases
  <2>3. inst' = [inst EXCEPT ![i] = g]
    BY <2>0, <2>1
  <2> HIDE DEF g
  <2>4. ProcSet(i, "commands", K, inst[i].current, inst[i].outcome)
    BY <2>0, <2>2, <2>3 DEF ProcSet
  <2> QED
    BY <2>4 DEF K
<1>3. CASE due
  <2>1. account.command \in Unlinks
    BY <1>3 DEF IInv, Shapes, AccountRows
  <2>2. PICK c \in Keys : c = account.command
    BY <2>1 DEF Keys
  <2>3. Row([account EXCEPT !.command = None], account.status, account.cred, account.blob, account.revision,
            account.claim, account.owner, account.remote, account.remoteOwner, None)
    BY DEF IInv, Shapes, Row, AccountRows
  <2>4. account' = [account EXCEPT !.command = None]
    BY <1>1, <1>3
  <2>5. command[c] = "pending" => CommandSet(c, "revocation_unknown")
    <3>1. command[c] = "pending" => command' = [command EXCEPT ![c] = "revocation_unknown"]
      BY <1>1, <1>3, <2>2
    <3>2. "revocation_unknown" \in CommandValues /\ command \in [Keys -> CommandValues]
      BY DEF CommandValues, Answers, IInv, Shapes
    <3> QED
      BY <3>1, <3>2 DEF CommandSet
  <2>6. command[c] # "pending" => command' = command
    BY <1>1, <2>2
  <2> QED
    BY <1>1, <1>2, <1>3, <2>1, <2>2, <2>3, <2>4, <2>5, <2>6
<1>4. CASE ~due
  BY <1>1, <1>2, <1>4
<1> QED
  BY <1>3, <1>4

(* The commands left over are answered, and the process serves. *)
LEMMA RecoverCommandsEffect ==
  ASSUME IInv, NEW i \in Instances, RecoverCommands(i)
  PROVE  /\ inst[i].phase = "commands"
         /\ \/ /\ inst[i].todo = {} /\ command' = command
               /\ ProcSet(i, "serving", inst[i].todo, inst[i].current, inst[i].outcome)
            \/ \E k \in Keys :
                 /\ k \in inst[i].todo /\ command[k] = "pending" /\ CommandSet(k, "result_unknown")
                 /\ ProcSet(i, "commands", inst[i].todo \ {k}, inst[i].current, inst[i].outcome)
            \/ command' = command /\ ProcSet(i, "dead", {}, None, None)
         /\ UNCHANGED <<session, account, lease, live, minted, submitted, origin, thread, handed>>
<1>1. /\ inst[i].phase = "commands"
      /\ UNCHANGED <<session, account, lease, live, minted, submitted, origin, thread, handed>>
  BY DEF RecoverCommands, githubVars
<1>2. inst[i] \in Procs /\ inst \in [Instances -> Procs] /\ inst[i].todo \subseteq Keys
      /\ command \in [Keys -> CommandValues] /\ "result_unknown" \in CommandValues
  BY DEF IInv, Shapes, Procs, CommandValues
<1>3. CASE inst[i].todo = {} /\ inst' = [inst EXCEPT ![i].phase = "serving"] /\ command' = command
  <2>1. ProcSet(i, "serving", inst[i].todo, inst[i].current, inst[i].outcome)
    BY <1>2, <1>3 DEF ProcSet, Procs, Phases
  <2> QED
    BY <1>1, <1>3, <2>1
<1>4. ASSUME NEW k \in inst[i].todo, command[k] = "pending",
             CompleteCommand(k, "result_unknown"), inst' = [inst EXCEPT ![i].todo = @ \ {k}]
      PROVE  /\ k \in Keys /\ CommandSet(k, "result_unknown")
             /\ ProcSet(i, "commands", inst[i].todo \ {k}, inst[i].current, inst[i].outcome)
  <2>1. k \in Keys
    BY <1>2
  <2>2. CommandSet(k, "result_unknown")
    BY <1>2, <1>4, <2>1 DEF CompleteCommand, CommandSet
  <2>3. ProcSet(i, "commands", inst[i].todo \ {k}, inst[i].current, inst[i].outcome)
    <3>1. PICK K \in SUBSET Keys : K = inst[i].todo \ {k}
      BY <1>2
    <3> DEFINE g == [inst[i] EXCEPT !.todo = K]
    <3>2. /\ g \in Procs /\ g.phase = "commands" /\ g.todo = K
          /\ g.current = inst[i].current /\ g.outcome = inst[i].outcome
      BY <1>1, <1>2, <3>1 DEF Procs
    <3>3. inst' = [inst EXCEPT ![i] = g]
      BY <1>2, <1>4, <3>1
    <3> HIDE DEF g
    <3> QED
      BY <1>2, <3>1, <3>2, <3>3 DEF ProcSet
  <2> QED
    BY <2>1, <2>2, <2>3
<1>5. CASE command' = command /\ inst' = [inst EXCEPT ![i] = [Unborn EXCEPT !.phase = "dead"]]
  <2> DEFINE g == [Unborn EXCEPT !.phase = "dead"]
  <2>1. /\ g \in Procs /\ g.phase = "dead" /\ g.todo = {} /\ g.current = None /\ g.outcome = None
    BY DEF Unborn, Procs, Phases
  <2>2. inst' = [inst EXCEPT ![i] = g]
    BY <1>5
  <2> HIDE DEF g
  <2>3. ProcSet(i, "dead", {}, None, None)
    BY <1>2, <2>1, <2>2 DEF ProcSet
  <2> QED
    BY <1>1, <1>5, <2>3
<1> QED
  BY <1>1, <1>2, <1>3, <1>4, <1>5 DEF RecoverCommands

-----------------------------------------------------------------------------
(* Parts of the invariant that a step leaves alone. *)

(* At most thread t moves. *)
Alone(t) == thread' \in [Threads -> Locals] /\ \A u \in Threads \ {t} : thread'[u] = thread[u]

(* The threads at these points of the program do not move, and none arrives. *)
Kept(pcs) ==
  \A u \in Threads : thread[u].pc \in pcs \/ thread'[u].pc \in pcs => thread'[u] = thread[u]

(* A thread that is and ends up elsewhere disturbs none of the others. *)
LEMMA AloneKeeps ==
  ASSUME NEW t \in Threads, Alone(t), NEW pcs, thread[t].pc \notin pcs, thread'[t].pc \notin pcs
  PROVE  Kept(pcs)
BY DEF Alone, Kept

(* A thread that goes on serves in the same process, one that is done is idle. *)
LEMMA ProcessKept ==
  ASSUME ProcessInv, NEW t \in Threads, Alone(t), inst' = inst,
         \/ thread'[t] = Idle
         \/ /\ thread'[t].pc # "idle" /\ thread'[t].inst \in Instances
            /\ inst[thread'[t].inst].phase = "serving"
  PROVE  ProcessInv'
BY DEF ProcessInv, Alone, Running

(* The row of the account does not change. *)
LEMMA AccountKept ==
  ASSUME AccountInv, UNCHANGED <<account, submitted, minted, origin>>
  PROVE  AccountInv'
BY DEF AccountInv

(* Nobody refreshes, and the row of the account does not change. *)
LEMMA LockKept ==
  ASSUME Shapes, AccountInv, LockInv, Kept(Locking), UNCHANGED <<account, submitted>>, minted' \in Nat,
         minted <= minted', live' \subseteq live \cup {minted + 1}
  PROVE  LockInv'
<1> SUFFICES ASSUME NEW t \in Threads, thread'[t].pc \in Locking PROVE LockOK(t)'
  BY DEF LockInv, LockOK
<1>1. thread'[t] = thread[t] /\ thread[t].pc \in Locking /\ LockOK(t)
  BY DEF Kept, LockInv
<1>2. thread[t].tok \in 1..minted'
  BY <1>1 DEF LockOK, Shapes
<1>3. \A u \in Threads \ {t} : thread'[u].pc \notin Locking
  BY <1>1 DEF Kept, LockOK
<1>4. thread[t].pc = "finish" /\ account.status = "active" => account.blob \notin live'
  <2> SUFFICES ASSUME thread[t].pc = "finish", account.status = "active" PROVE account.blob \notin live'
    OBVIOUS
  <2>1. account.blob \notin live
    BY <1>1 DEF LockOK
  <2>2. account.blob \in 1..minted \cup {None}
    BY DEF AccountInv
  <2>3. None \notin live'
    <3>1. minted \in Nat /\ live \subseteq 1..minted /\ None \notin Nat
      BY AccountAssumption DEF Shapes
    <3>2. minted + 1 \in Nat /\ 1..minted \subseteq Nat
      BY <3>1
    <3> QED
      BY <3>1, <3>2
  <2>4. minted + 1 \notin 1..minted
    BY DEF Shapes
  <2> QED
    BY <2>1, <2>2, <2>3, <2>4
<1>5. HasClaim(t)' <=> HasClaim(t)
  BY <1>1 DEF HasClaim
<1> QED
  BY <1>1, <1>2, <1>3, <1>4, <1>5 DEF LockOK

(* Nobody redeems, and the leases do not change. *)
LEMMA LeaseKept ==
  ASSUME LeaseInv, UNCHANGED <<lease, handed>>,
         account.status = "active" /\ account.cred # "reauthorization_required" =>
           account'.status = "active" /\ account'.cred # "reauthorization_required",
         \A u \in Threads : thread'[u].pc \in Redeeming =>
           thread[u].pc \in Redeeming /\ thread'[u].key = thread[u].key
  PROVE  LeaseInv'
<1>1. \A l \in Leases :
       /\ handed'[l] <= 1
       /\ lease'[l] \in {"none", "open"} => handed'[l] = 0
       /\ lease'[l] = "open" => account'.status = "active" /\ account'.cred # "reauthorization_required"
  BY DEF LeaseInv
<1>2. \A t \in Threads : thread'[t].pc \in Redeeming =>
       /\ thread'[t].key \in Leases
       /\ lease'[thread'[t].key] \in {"redeemed", "deleted"} /\ handed'[thread'[t].key] = 0
       /\ \A u \in Threads \ {t} : thread'[u].pc \in Redeeming => thread'[u].key # thread'[t].key
  BY DEF LeaseInv
<1> QED
  BY <1>1, <1>2 DEF LeaseInv

(* No command starts or ends. *)
LEMMA CommandKept ==
  ASSUME CommandInv, UNCHANGED <<command, inst>>,
         \A s \in Sessions : session'[s].status # "none" => session[s].status # "none",
         \A u \in Threads : /\ thread'[u].pc \in Creating <=> thread[u].pc \in Creating
                            /\ thread'[u].pc \in Commanding <=> thread[u].pc \in Commanding
                            /\ thread[u].pc \in Commanding => thread'[u].key = thread[u].key
  PROVE  CommandInv'
<1>1. \A t \in Threads : thread'[t].pc \in Commanding =>
       /\ thread'[t].key \in (IF thread'[t].pc \in Creating THEN Sessions ELSE Unlinks)
       /\ command'[thread'[t].key] = "pending"
       /\ \A u \in Threads \ {t} : thread'[u].pc \in Commanding => thread'[u].key # thread'[t].key
  BY DEF CommandInv
<1>2. \A k \in Keys : command'[k] = "pending" => Someone(Commanding, k)' \/ ~Phase({"serving"})'
  BY DEF CommandInv, Someone, Phase
<1>3. \A i \in Instances : inst'[i].phase = "commands" =>
       \A k \in Keys : command'[k] = "pending" => k \in inst'[i].todo
  BY DEF CommandInv
<1>4. \A s \in Sessions : session'[s].status # "none" => command'[s] \notin {"none", "pending"}
  BY DEF CommandInv
<1> QED
  BY <1>1, <1>2, <1>3, <1>4 DEF CommandInv

(* No unlink moves, and the account is not unlinked or does not change. *)
LEMMA RemoteKept ==
  ASSUME RemoteInv, inst' = inst, Kept(Ending),
         \A k \in Unlinks : command'[k] \in Answers => command'[k] = command[k],
         account' = account \/ (account.status # "unlinked" /\ account'.status # "unlinked" /\ account'.remote # "pending")
  PROVE  RemoteInv'
<1>1. \A k \in Unlinks : command'[k] \in Answers =>
       account'.status = "unlinked" /\ account'.remote \in Revoked /\ AnswerOf(account'.remote) = command'[k]
  BY DEF RemoteInv
<1>2. ASSUME NEW t \in Threads
      PROVE
       /\ thread'[t].pc \in Revoking => account'.status = "unlinked"
       /\ thread'[t].pc \in Revoking => \A u \in Threads \ {t} : thread'[u].pc \notin Revoking
       /\ thread'[t].pc = "set_status" => thread'[t].outcome \in Revoked
       /\ thread'[t].pc = "unlink" /\ thread'[t].tok = None =>
            /\ thread'[t].outcome \in {"unlinked", "revocation_unknown"}
            /\ thread'[t].outcome = "unlinked" => account'.status = "unlinked"
  <2>1. thread'[t].pc \in Ending => thread'[t] = thread[t]
    BY DEF Kept
  <2>2. Revoking \subseteq Ending /\ "unlink" \in Ending /\ "set_status" \in Ending
    BY DEF Revoking, Ending
  <2>3. \A u \in Threads : thread'[u].pc \in Revoking => thread[u].pc \in Revoking
    BY <2>2 DEF Kept
  <2> QED
    BY <2>1, <2>2, <2>3 DEF RemoteInv
<1>3. account'.remote = "pending" /\ SomeRunning' =>
       \E t \in Threads : /\ thread'[t].pc \in Revoking /\ thread'[t].key = account'.command
                          /\ thread'[t].inst = account'.remoteOwner
  <2> SUFFICES ASSUME account'.remote = "pending", SomeRunning'
               PROVE  \E t \in Threads : /\ thread'[t].pc \in Revoking /\ thread'[t].key = account'.command
                                         /\ thread'[t].inst = account'.remoteOwner
    OBVIOUS
  <2>1. account' = account /\ SomeRunning
    BY DEF SomeRunning, Running
  <2>2. PICK t \in Threads : /\ thread[t].pc \in Revoking /\ thread[t].key = account.command
                             /\ thread[t].inst = account.remoteOwner
    BY <2>1 DEF RemoteInv
  <2>3. thread'[t] = thread[t]
    BY <2>2 DEF Kept, Ending
  <2> QED
    BY <2>1, <2>2, <2>3
<1> QED
  BY <1>1, <1>2, <1>3 DEF RemoteInv

(* No callback moves, and no token is minted for a session. *)
LEMMA SessionKept ==
  ASSUME Shapes, SessionInv, inst' = inst, Kept(Callback), minted' \in Nat, minted <= minted',
         \A s \in Sessions : \/ session'[s] = session[s]
                             \/ session[s].status = "none" /\ session'[s].status = "pending",
         \A k \in Tokens, s \in Sessions : (origin'[k] = s) <=> (origin[k] = s),
         \A k \in live', s \in Sessions : origin'[k] = s => k \in live
  PROVE  SessionInv'
<1>a. minted \in Nat /\ minted <= MaxToken /\ live \subseteq Tokens /\ 1..minted \subseteq Tokens
  BY AccountAssumption DEF Shapes, Tokens
<1>1. ASSUME NEW t \in Threads, thread'[t].pc \in Callback
      PROVE
       /\ thread'[t].key \in Sessions
       /\ session'[thread'[t].key].status \in {"processing", "pruned"}
       /\ \A u \in Threads \ {t} : thread'[u].pc \in Callback => thread'[u].key # thread'[t].key
       /\ thread'[t].pc = "exchange" => \A k \in Tokens : origin'[k] # thread'[t].key
       /\ thread'[t].pc \notin {"exchange", "settle"} =>
            thread'[t].tok \in 1..minted' /\ origin'[thread'[t].tok] = thread'[t].key
       /\ thread'[t].pc = "settle" =>
            /\ thread'[t].outcome \in {"not_issued"} \cup Revoked
            /\ thread'[t].outcome \in {"not_issued", "revoked"} =>
                 \A k \in live' : origin'[k] # thread'[t].key
  <2>1. thread'[t] = thread[t] /\ thread[t].pc \in Callback
    BY <1>1 DEF Kept
  <2>2. /\ thread[t].key \in Sessions
        /\ session[thread[t].key].status \in {"processing", "pruned"}
        /\ \A u \in Threads \ {t} : thread[u].pc \in Callback => thread[u].key # thread[t].key
        /\ thread[t].pc = "exchange" => \A k \in Tokens : origin[k] # thread[t].key
        /\ thread[t].pc \notin {"exchange", "settle"} =>
             thread[t].tok \in 1..minted /\ origin[thread[t].tok] = thread[t].key
        /\ thread[t].pc = "settle" =>
             /\ thread[t].outcome \in {"not_issued"} \cup Revoked
             /\ thread[t].outcome \in {"not_issued", "revoked"} =>
                  \A k \in live : origin[k] # thread[t].key
    BY <2>1 DEF SessionInv, CallbackOK
  <2>3. \A u \in Threads \ {t} : thread'[u].pc \in Callback => thread'[u].key # thread'[t].key
    BY <2>1, <2>2 DEF Kept
  <2>4. 1..minted \subseteq 1..minted'
    BY <1>a
  <2>5. thread[t].outcome \in {"not_issued", "revoked"} /\ thread[t].pc = "settle" =>
          \A k \in live' : origin'[k] # thread[t].key
    BY <1>a, <2>2
  <2> QED
    BY <1>a, <2>1, <2>2, <2>3, <2>4, <2>5
<1>2. ASSUME NEW s \in Sessions
      PROVE
       /\ session'[s].status \in {"none", "pending"} => \A k \in Tokens : origin'[k] # s
       /\ session'[s].status = "processing" => Someone(Callback, s)' \/ ~Phase({"commands", "serving"})'
       /\ \A k, m \in Tokens : origin'[k] = s /\ origin'[m] = s => k = m
  <2>1. Someone(Callback, s) => Someone(Callback, s)'
    BY DEF Someone, Kept
  <2>2. Phase({"commands", "serving"})' => Phase({"commands", "serving"})
    BY DEF Phase
  <2> QED
    BY <2>1, <2>2 DEF SessionInv
<1>3. ASSUME NEW i \in Instances
      PROVE
       /\ inst'[i].phase = "settle" =>
            /\ inst'[i].current \in Sessions /\ inst'[i].outcome \in Revoked
            /\ inst'[i].outcome = "revoked" => \A k \in live' : origin'[k] # inst'[i].current
       /\ \A s \in Sessions : session'[s].status = "processing" =>
            /\ inst'[i].phase = "list" => session'[s].blob # None
            /\ inst'[i].phase = "callbacks" => s \in inst'[i].todo
            /\ inst'[i].phase = "settle" => s \in inst'[i].todo \cup {inst'[i].current}
  <2>1. inst[i].phase = "settle" =>
            /\ inst[i].current \in Sessions /\ inst[i].outcome \in Revoked
            /\ inst[i].outcome = "revoked" => \A k \in live : origin[k] # inst[i].current
    BY DEF SessionInv
  <2>2. inst[i].phase = "settle" /\ inst[i].outcome = "revoked" =>
          \A k \in live' : origin'[k] # inst[i].current
    BY <1>a, <2>1
  <2> QED
    BY <2>1, <2>2 DEF SessionInv
<1> QED
  BY <1>1, <1>2, <1>3 DEF SessionInv, CallbackOK

(* No working token, and no row that stands for one, changes. *)
LEMMA TraceKept ==
  ASSUME Shapes, LockInv, TraceInv, UNCHANGED account, Kept({"refresh", "finish", "set_status"}),
         \A k \in live' \ live : k \notin 1..minted /\ Traced(k)',
         \A k \in live, s \in Sessions : origin[k] = s => \/ session'[s] = session[s]
                                                        \/ session'[s].status \in {"processing", "pruned"}
                                                        \/ session'[s].outcome \in {"failed", "unknown"},
         \A k \in live : origin'[k] = origin[k]
  PROVE  TraceInv'
<1>0. \A t \in Threads : thread'[t].pc \in {"refresh", "finish", "set_status"} \/ thread[t].pc \in {"refresh", "finish", "set_status"}
        => thread'[t] = thread[t]
  BY DEF Kept
<1>1. GrantGone' <=> GrantGone
  BY <1>0 DEF GrantGone
<1>2. ASSUME NEW k \in live \cap live' PROVE Traced(k)'
  <2>1. Traced(k) /\ origin'[k] = origin[k]
    BY DEF TraceInv
  <2>2. CASE account.blob = k \/ account.cred = "reauthorization_required" \/ (account.status = "unlinked" /\ ~GrantGone)
    BY <1>1, <2>2 DEF Traced
  <2>3. CASE account.cred = "refresh_pending" /\ \A t \in Threads : thread[t].pc \notin {"refresh", "finish"}
    BY <1>0, <2>3 DEF Traced
  <2>4. CASE account.status = "active" /\ \E t \in Threads : thread[t].pc = "finish" /\ thread[t].tok = k
    BY <1>0, <2>4 DEF Traced
  <2>5. CASE \E s \in Sessions : /\ origin[k] = s
                         /\ \/ session[s].status \in {"processing", "pruned"}
                            \/ session[s].outcome \in {"failed", "unknown"}
    <3>1. PICK s \in Sessions : /\ origin[k] = s
                         /\ \/ session[s].status \in {"processing", "pruned"}
                            \/ session[s].outcome \in {"failed", "unknown"}
      BY <2>5
    <3> QED
      BY <2>1, <3>1 DEF Traced
  <2>6. CASE origin[k] = "rejected"
    BY <2>1, <2>6 DEF Traced
  <2> QED
    BY <2>1, <2>2, <2>3, <2>4, <2>5, <2>6 DEF Traced
<1>3. GrantGone' => \A t \in Threads : thread'[t].pc \in {"refresh", "finish"} => thread'[t].tok \notin live'
  <2>1. \A t \in Threads : thread[t].pc \in {"refresh", "finish"} => thread[t].tok \in 1..minted
    BY DEF LockInv, LockOK, Locking
  <2> QED
    BY <1>0, <1>1, <2>1 DEF TraceInv
<1> QED
  BY <1>2, <1>3 DEF TraceInv

(* While a thread works, its process serves and no other process runs. *)
LEMMA ServingOf ==
  ASSUME ProcessInv, NEW t \in Threads, thread[t].pc # "idle"
  PROVE  thread[t].inst \in Instances /\ inst[thread[t].inst].phase = "serving"
BY IdleTyped DEF ProcessInv

(* What a step of the callback of session s has to give for the sessions. *)
LEMMA CallbackSession ==
  ASSUME IInv, NEW t \in Threads, NEW s \in Sessions, NEW i \in Instances, inst[i].phase = "serving",
         Alone(t), inst' = inst, thread[t].pc \in Callback => thread[t].key = s,
         thread[t].pc \in Callback \cup {"idle"}, minted' \in Nat, minted <= minted',
         \A u \in Threads \ {t} : thread[u].pc \in Callback => thread[u].key # s,
         \A r \in Sessions \ {s} : session'[r] = session[r],
         \A k \in Tokens, r \in Sessions \ {s} : (origin'[k] = r) <=> (origin[k] = r),
         \A k \in live', r \in Sessions \ {s} : origin'[k] = r => k \in live,
         thread'[t].pc \in Callback => thread'[t].key = s /\ CallbackOK(t)',
         session'[s].status \notin {"none", "pending"},
         session'[s].status = "processing" => thread'[t].pc \in Callback,
         \A k, m \in Tokens : origin'[k] = s /\ origin'[m] = s => k = m
  PROVE  SessionInv'
<1>a. minted \in Nat /\ minted <= MaxToken /\ live \subseteq Tokens /\ 1..minted \subseteq Tokens
      /\ 1..minted \subseteq 1..minted'
  BY AccountAssumption DEF IInv, Shapes, Tokens
<1>b. \A j \in Instances : inst[j].phase \in {"unborn", "dead", "serving"}
  BY DEF IInv, ProcessInv, Running
<1>1. ASSUME NEW u \in Threads, thread'[u].pc \in Callback
      PROVE  CallbackOK(u)'
  <2>1. CASE u = t
    BY <1>1, <2>1
  <2>2. CASE u # t
    <3>1. thread'[u] = thread[u] /\ thread[u].pc \in Callback /\ CallbackOK(u) /\ thread[u].key # s
      BY <1>1, <2>2 DEF Alone, IInv, SessionInv
    <3>2. thread[u].key \in Sessions \ {s} /\ session'[thread[u].key] = session[thread[u].key]
      BY <3>1 DEF CallbackOK
    <3>3. \A k \in Tokens : (origin'[k] = thread[u].key) <=> (origin[k] = thread[u].key)
      BY <3>2
    <3>4. \A k \in live' : origin'[k] = thread[u].key => k \in live
      BY <3>2
    <3>5. thread[u].pc \notin {"exchange", "settle"} =>
            thread[u].tok \in 1..minted' /\ origin'[thread[u].tok] = thread[u].key
      BY <1>a, <3>1, <3>3 DEF CallbackOK
    <3> QED
      BY <1>a, <3>1, <3>2, <3>3, <3>4, <3>5 DEF CallbackOK
  <2> QED
    BY <2>1, <2>2
<1>2. ASSUME NEW u \in Threads, thread'[u].pc \in Callback, NEW v \in Threads \ {u}, thread'[v].pc \in Callback
      PROVE  thread'[u].key # thread'[v].key
  BY <1>2 DEF Alone, IInv, SessionInv
<1>3. ASSUME NEW r \in Sessions
      PROVE
       /\ session'[r].status \in {"none", "pending"} => \A k \in Tokens : origin'[k] # r
       /\ session'[r].status = "processing" => Someone(Callback, r)' \/ ~Phase({"commands", "serving"})'
       /\ \A k, m \in Tokens : origin'[k] = r /\ origin'[m] = r => k = m
  <2>1. CASE r = s
    BY <2>1 DEF Someone
  <2>2. CASE r # s
    <3>1. Phase({"commands", "serving"})
      BY DEF Phase
    <3>2. session[r].status = "processing" => Someone(Callback, r)
      BY <3>1 DEF IInv, SessionInv
    <3>3. Someone(Callback, r) => Someone(Callback, r)'
      <4> SUFFICES ASSUME NEW u \in Threads, thread[u].pc \in Callback, thread[u].key = r
                   PROVE  Someone(Callback, r)'
        BY DEF Someone
      <4>1. u # t
        BY <2>2
      <4> QED
        BY <4>1 DEF Alone, Someone
    <3> QED
      BY <2>2, <3>2, <3>3 DEF IInv, SessionInv
  <2> QED
    BY <2>1, <2>2
<1>4. ASSUME NEW j \in Instances
      PROVE  inst'[j].phase \notin {"list", "callbacks", "settle"}
  BY <1>b
<1> QED
  BY <1>1, <1>2, <1>3, <1>4 DEF SessionInv

-----------------------------------------------------------------------------
(* The callbacks keep the invariant. *)

(* What a step of a callback leaves alone. *)
LEMMA CallbackRest ==
  ASSUME IInv, NEW t \in Threads, Alone(t), thread[t].pc \in Callback \cup {"idle"},
         \/ thread'[t] = Idle
         \/ /\ thread'[t].pc \in Callback /\ thread'[t].inst \in Instances
            /\ inst[thread'[t].inst].phase = "serving",
         UNCHANGED <<lease, handed, command, submitted, inst>>,
         minted' \in Nat, minted <= minted', live' \subseteq live \cup {minted + 1},
         \A s \in Sessions : session'[s].status # "none" => session[s].status # "none",
         \/ account' = account
         \/ account.status = "none" /\ account'.status = "active" /\ account'.remote = None
  PROVE  /\ ProcessInv' /\ LockInv' /\ LeaseInv' /\ CommandInv' /\ RemoteInv'
         /\ Kept({"refresh", "finish", "set_status"})
<1>1. thread'[t].pc \in Callback \cup {"idle"}
  BY IdleTyped
<1>2. /\ Kept(Locking) /\ Kept(Redeeming) /\ Kept(Creating) /\ Kept(Commanding) /\ Kept(Ending)
      /\ Kept({"refresh", "finish", "set_status"})
  <2>1. \A pc \in Callback \cup {"idle"} : pc \notin Locking /\ pc \notin Redeeming /\ pc \notin Creating
          /\ pc \notin Commanding /\ pc \notin Ending /\ pc \notin {"refresh", "finish", "set_status"}
    BY DEF Callback, Locking, Redeeming, Creating, Commanding, Ending, Unlinking, Revoking
  <2> QED
    BY <1>1, <2>1, AloneKeeps
<1>3. ProcessInv'
  <2>1. "idle" \notin Callback
    BY DEF Callback
  <2> QED
    BY <2>1, ProcessKept DEF IInv
<1>4. LockInv'
  <2>1. CASE account' = account
    BY <1>2, <2>1, LockKept DEF IInv
  <2>2. CASE account.status = "none"
    BY <1>2, <2>2 DEF IInv, LockInv, LockOK, Kept
  <2> QED
    BY <2>1, <2>2
<1>5. LeaseInv'
  <2>1. \A u \in Threads : thread'[u].pc \in Redeeming =>
           thread[u].pc \in Redeeming /\ thread'[u].key = thread[u].key
    BY <1>2 DEF Kept
  <2>2. account.status = "active" /\ account.cred # "reauthorization_required" =>
           account'.status = "active" /\ account'.cred # "reauthorization_required"
    OBVIOUS
  <2> QED
    BY <2>1, <2>2, LeaseKept DEF IInv
<1>6. CommandInv'
  <2>1. \A u \in Threads : /\ thread'[u].pc \in Creating <=> thread[u].pc \in Creating
                           /\ thread'[u].pc \in Commanding <=> thread[u].pc \in Commanding
                           /\ thread[u].pc \in Commanding => thread'[u].key = thread[u].key
    BY <1>2 DEF Kept
  <2> QED
    BY <2>1, CommandKept DEF IInv
<1>7. RemoteInv'
  <2>1. account' = account \/ (account.status # "unlinked" /\ account'.status # "unlinked" /\ account'.remote # "pending")
    BY AccountAssumption
  <2> QED
    BY <1>2, <2>1, RemoteKept DEF IInv
<1> QED
  BY <1>2, <1>3, <1>4, <1>5, <1>6, <1>7

(* A thread takes up the callback of a pending session. *)
LEMMA ClaimSessionStep ==
  ASSUME IInv, NEW t \in Threads, NEW i \in Instances, NEW s \in Sessions, ClaimSession(t, i, s)
  PROVE  IInv'
<1>1. /\ thread[t].pc = "idle" /\ inst[i].phase = "serving" /\ session[s].status = "pending"
      /\ Moved(t, "exchange", i, s, None, 0, None)
      /\ SessionSet(s, "processing", session[s].blob, session[s].outcome)
      /\ UNCHANGED <<account, lease, command, live, minted, submitted, origin, inst, handed>>
  BY ClaimSessionEffect
<1>2. Alone(t) /\ thread'[t].pc = "exchange" /\ thread'[t].key = s /\ thread'[t].inst = i
  BY <1>1 DEF Moved, Alone
<1>3. minted \in Nat
  BY DEF IInv, Shapes
<1>4. Shapes'
  BY <1>1, <1>2 DEF IInv, Shapes, SessionSet, Alone
<1>5. AccountInv'
  BY <1>1, AccountKept DEF IInv
<1>6. /\ ProcessInv' /\ LockInv' /\ LeaseInv' /\ CommandInv' /\ RemoteInv'
      /\ Kept({"refresh", "finish", "set_status"})
  <2>1. "exchange" \in Callback
    BY DEF Callback
  <2>2. \A r \in Sessions : session'[r].status # "none" => session[r].status # "none"
    BY <1>1 DEF SessionSet
  <2> QED
    BY <1>1, <1>2, <1>3, <2>1, <2>2, CallbackRest
<1>7. SessionInv'
  <2>1. \A k \in Tokens : origin[k] # s
    BY <1>1 DEF IInv, SessionInv
  <2>2. CallbackOK(t)'
    BY <1>1, <1>2, <2>1 DEF CallbackOK, SessionSet
  <2>3. \A u \in Threads \ {t} : thread[u].pc \in Callback => thread[u].key # s
    BY <1>1 DEF IInv, SessionInv, CallbackOK
  <2>4. "idle" \notin Callback /\ "exchange" \in Callback
    BY DEF Callback
  <2>5. session'[s].status = "processing" /\ \A r \in Sessions \ {s} : session'[r] = session[r]
    BY <1>1 DEF SessionSet
  <2>6. \A k, m \in Tokens : origin'[k] = s /\ origin'[m] = s => k = m
    BY <1>1, <2>1
  <2> QED
    BY <1>1, <1>2, <1>3, <2>2, <2>3, <2>4, <2>5, <2>6, CallbackSession
<1>8. TraceInv'
  <2>1. \A r \in Sessions : session'[r] = session[r] \/ session'[r].status \in {"processing", "pruned"}
    BY <1>1 DEF SessionSet
  <2> QED
    BY <1>1, <1>6, <2>1, TraceKept DEF IInv
<1> QED
  BY <1>4, <1>5, <1>6, <1>7, <1>8 DEF IInv

(* A callback under way. *)
LEMMA CallbackOf ==
  ASSUME IInv, NEW t \in Threads, thread[t].pc \in Callback
  PROVE  /\ thread[t].key \in Sessions /\ CallbackOK(t)
         /\ \A u \in Threads \ {t} : thread[u].pc \in Callback => thread[u].key # thread[t].key
         /\ thread[t].inst \in Instances /\ inst[thread[t].inst].phase = "serving"
<1>1. thread[t].pc # "idle"
  BY DEF Callback
<1> QED
  BY <1>1, ServingOf DEF IInv, SessionInv, CallbackOK

(* A callback that goes on with the same session, row of the account and tokens. *)
LEMMA CallbackGoes ==
  ASSUME IInv, NEW t \in Threads, thread[t].pc \in Callback, NEW pc \in Callback, NEW tok, NEW n, NEW o,
         Stays(t, pc, tok, n, o), UNCHANGED <<account, lease, command, minted, submitted, origin, inst, handed>>,
         live' \subseteq live, session' \in [Sessions -> SessionRows],
         \A r \in Sessions \ {thread[t].key} : session'[r] = session[r],
         session'[thread[t].key].status = session[thread[t].key].status,
         session'[thread[t].key].outcome = session[thread[t].key].outcome,
         CallbackOK(t)'
  PROVE  IInv'
<1>1. /\ thread[t].key \in Sessions /\ CallbackOK(t)
      /\ \A u \in Threads \ {t} : thread[u].pc \in Callback => thread[u].key # thread[t].key
      /\ thread[t].inst \in Instances /\ inst[thread[t].inst].phase = "serving"
  BY CallbackOf
<1>2. Alone(t) /\ thread'[t].pc = pc /\ thread'[t].key = thread[t].key /\ thread'[t].inst = thread[t].inst
  BY DEF Stays, Moved, Alone
<1>3. minted \in Nat
  BY DEF IInv, Shapes
<1>4. Shapes'
  BY <1>2 DEF IInv, Shapes, Alone
<1>5. AccountInv'
  BY AccountKept DEF IInv
<1>6. /\ ProcessInv' /\ LockInv' /\ LeaseInv' /\ CommandInv' /\ RemoteInv'
      /\ Kept({"refresh", "finish", "set_status"})
  <2>2. \A r \in Sessions : session'[r].status # "none" => session[r].status # "none"
    BY <1>1
  <2> QED
    BY <1>1, <1>2, <1>3, <2>2, CallbackRest
<1>7. SessionInv'
  <2>1. session'[thread[t].key].status \in {"processing", "pruned"}
    BY <1>1 DEF CallbackOK
  <2>2. \A k, m \in Tokens : origin'[k] = thread[t].key /\ origin'[m] = thread[t].key => k = m
    BY <1>1 DEF IInv, SessionInv
  <2> QED
    BY <1>1, <1>2, <1>3, <2>1, <2>2, CallbackSession
<1>8. TraceInv'
  <2>1. session[thread[t].key].status \in {"processing", "pruned"}
    BY <1>1 DEF CallbackOK
  <2>2. \A r \in Sessions : session'[r] = session[r] \/ session'[r].status \in {"processing", "pruned"}
    BY <1>1, <2>1
  <2> QED
    BY <1>6, <2>2, TraceKept DEF IInv
<1> QED
  BY <1>4, <1>5, <1>6, <1>7, <1>8 DEF IInv

(* The identity of a callback is verified or refused. *)
LEMMA VerifyStep ==
  ASSUME IInv, NEW t \in Threads, VerifyIdentity(t)
  PROVE  IInv'
<1>1. /\ thread[t].pc = "verify"
      /\ UNCHANGED <<session, account, lease, command, live, minted, submitted, origin, inst, handed>>
  BY VerifyEffect
<1>2. PICK pc \in {"insert", "revoke_minted", "settle"}, o \in {thread[t].outcome, "unknown"} :
        /\ Stays(t, pc, thread[t].tok, thread[t].revision, o)
        /\ pc = "settle" => o = "unknown"
  BY VerifyEffect
<1>3. thread[t].pc \in Callback /\ pc \in Callback
  BY <1>1 DEF Callback
<1>4. CallbackOK(t)'
  BY <1>1, <1>2, <1>3, CallbackOf DEF CallbackOK, Stays, Moved, Revoked
<1> QED
  BY <1>1, <1>2, <1>3, <1>4, CallbackGoes DEF IInv, Shapes

(* The token of a callback is persisted before its identity is verified. *)
LEMMA PersistStep ==
  ASSUME IInv, NEW t \in Threads, PersistCredential(t)
  PROVE  IInv'
<1>1. /\ thread[t].pc = "persist" /\ thread[t].key \in Sessions
      /\ UNCHANGED <<account, lease, command, live, minted, submitted, origin, inst, handed>>
  BY PersistEffect
<1>2. "persist" \in Callback /\ "verify" \in Callback /\ "revoke_minted" \in Callback
  BY DEF Callback
<1>3. CallbackOK(t)
  BY <1>1, <1>2, CallbackOf
<1>4. CASE /\ session[thread[t].key].status = "processing"
           /\ SessionSet(thread[t].key, "processing", thread[t].tok, session[thread[t].key].outcome)
           /\ Stays(t, "verify", thread[t].tok, thread[t].revision, thread[t].outcome)
  <2>1. CallbackOK(t)'
    BY <1>1, <1>3, <1>4 DEF CallbackOK, Stays, Moved, SessionSet
  <2>2. /\ session' \in [Sessions -> SessionRows] /\ \A r \in Sessions \ {thread[t].key} : session'[r] = session[r]
        /\ session'[thread[t].key].status = session[thread[t].key].status
        /\ session'[thread[t].key].outcome = session[thread[t].key].outcome
    BY <1>4 DEF SessionSet
  <2> QED
    BY <1>1, <1>2, <1>4, <2>1, <2>2, CallbackGoes
<1>5. CASE /\ session' = session
           /\ Stays(t, "revoke_minted", thread[t].tok, thread[t].revision, thread[t].outcome)
  <2>1. CallbackOK(t)'
    BY <1>1, <1>3, <1>5 DEF CallbackOK, Stays, Moved
  <2> QED
    BY <1>1, <1>2, <1>5, <2>1, CallbackGoes DEF IInv, Shapes
<1> QED
  BY <1>4, <1>5, PersistEffect

(* The revocation of a callback's token ends, with or without an answer. *)
LEMMA RevokeMintedStep ==
  ASSUME IInv, NEW t \in Threads, RevokeMinted(t)
  PROVE  IInv'
<1>1. /\ thread[t].pc = "revoke_minted"
      /\ UNCHANGED <<session, account, lease, command, minted, submitted, origin, inst, handed>>
      /\ live' \subseteq live
  BY RevokeMintedEffect
<1>2. PICK o \in Revoked : /\ o = "revoked" => live' = {}
                           /\ Stays(t, "settle", None, thread[t].revision, o)
  BY RevokeMintedEffect
<1>3. "revoke_minted" \in Callback /\ "settle" \in Callback
  BY DEF Callback
<1>4. CallbackOK(t)
  BY <1>1, <1>3, CallbackOf
<1>5. CallbackOK(t)'
  BY <1>1, <1>2, <1>4 DEF CallbackOK, Stays, Moved, Revoked
<1> QED
  BY <1>1, <1>2, <1>3, <1>5, CallbackGoes DEF IInv, Shapes

(* The callback is over, and its session failed or was pruned. *)
LEMMA SettleStep ==
  ASSUME IInv, NEW t \in Threads, SettleCallback(t)
  PROVE  IInv'
<1>1. /\ thread[t].pc = "settle" /\ thread[t].key \in Sessions /\ Gone(t)
      /\ UNCHANGED <<account, lease, command, live, minted, submitted, origin, inst, handed>>
      /\ session[thread[t].key].status = "processing" =>
           SessionSet(thread[t].key, "failed", None, thread[t].outcome)
      /\ session[thread[t].key].status # "processing" => session' = session
  BY SettleEffect
<1>2. thread[t].pc \in Callback /\ minted \in Nat /\ "idle" \notin Callback
  BY <1>1 DEF Callback, IInv, Shapes
<1>3. /\ CallbackOK(t)
      /\ \A u \in Threads \ {t} : thread[u].pc \in Callback => thread[u].key # thread[t].key
      /\ thread[t].inst \in Instances /\ inst[thread[t].inst].phase = "serving"
  BY <1>2, CallbackOf
<1>4. Alone(t) /\ thread'[t] = Idle /\ thread'[t].pc = "idle"
  BY <1>1 DEF Gone, Alone
<1>5. /\ session' \in [Sessions -> SessionRows] /\ \A r \in Sessions \ {thread[t].key} : session'[r] = session[r]
      /\ session[thread[t].key].status \in {"processing", "pruned"}
      /\ session'[thread[t].key].status \in {"failed", "pruned"}
      /\ \/ session' = session
         \/ session'[thread[t].key].outcome = thread[t].outcome
  <2>1. session[thread[t].key].status \in {"processing", "pruned"}
    BY <1>3 DEF CallbackOK
  <2> QED
    BY <1>1, <2>1 DEF IInv, Shapes, SessionSet
<1>6. Shapes'
  BY <1>1, <1>4, <1>5 DEF IInv, Shapes, Alone
<1>7. AccountInv'
  BY <1>1, AccountKept DEF IInv
<1>8. /\ ProcessInv' /\ LockInv' /\ LeaseInv' /\ CommandInv' /\ RemoteInv'
      /\ Kept({"refresh", "finish", "set_status"})
  <2>1. \A r \in Sessions : session'[r].status # "none" => session[r].status # "none"
    BY <1>1, <1>5
  <2> QED
    BY <1>1, <1>2, <1>4, <2>1, CallbackRest
<1>9. SessionInv'
  <2>1. \A k, m \in Tokens : origin'[k] = thread[t].key /\ origin'[m] = thread[t].key => k = m
    BY <1>1 DEF IInv, SessionInv
  <2> QED
    BY <1>1, <1>2, <1>3, <1>4, <1>5, <2>1, CallbackSession
<1>10. TraceInv'
  <2>1. \A k \in live, r \in Sessions : origin[k] = r =>
          \/ session'[r] = session[r]
          \/ session'[r].status \in {"processing", "pruned"}
          \/ session'[r].outcome \in {"failed", "unknown"}
    BY <1>1, <1>3, <1>5 DEF CallbackOK, Revoked
  <2> QED
    BY <1>1, <1>8, <2>1, TraceKept DEF IInv
<1> QED
  BY <1>6, <1>7, <1>8, <1>9, <1>10 DEF IInv

(* The exchange of the code mints the one token of the session, or none. *)
LEMMA ExchangeStep ==
  ASSUME IInv, NEW t \in Threads, ExchangeCode(t)
  PROVE  IInv'
<1>1. /\ thread[t].pc = "exchange" /\ thread[t].key \in Sessions
      /\ UNCHANGED <<session, account, lease, command, submitted, inst, handed>>
  BY ExchangeEffect
<1>2. thread[t].pc \in Callback /\ minted \in Nat /\ {"persist", "revoke_minted", "settle"} \subseteq Callback
  BY <1>1 DEF Callback, IInv, Shapes
<1>3. /\ CallbackOK(t)
      /\ \A u \in Threads \ {t} : thread[u].pc \in Callback => thread[u].key # thread[t].key
      /\ thread[t].inst \in Instances /\ inst[thread[t].inst].phase = "serving"
  BY <1>2, CallbackOf
<1>4. session[thread[t].key].status \in {"processing", "pruned"} /\ \A k \in Tokens : origin[k] # thread[t].key
  BY <1>1, <1>3 DEF CallbackOK
<1>5. ASSUME UNCHANGED <<live, minted, origin>>, NEW o \in {"not_issued", "unknown"},
             Stays(t, "settle", thread[t].tok, thread[t].revision, o)
      PROVE  IInv'
  <2>1. live \subseteq Tokens
    BY AccountAssumption DEF IInv, Shapes, Tokens
  <2>2. CallbackOK(t)'
    BY <1>1, <1>4, <1>5, <2>1 DEF CallbackOK, Stays, Moved, Revoked
  <2> QED
    BY <1>1, <1>2, <1>5, <2>2, CallbackGoes DEF IInv, Shapes
<1>6. ASSUME NEW from \in {thread[t].key, "rejected"}, Minted(from, {}), Alone(t),
             NEW pc \in {"persist", "revoke_minted", "settle"},
             thread'[t].pc = pc, thread'[t].key = thread[t].key, thread'[t].inst = thread[t].inst,
             from = "rejected" => pc = "settle" /\ thread'[t].outcome = "not_issued",
             from # "rejected" /\ pc = "settle" => thread'[t].outcome = "unknown",
             pc # "settle" => thread'[t].tok = minted + 1
      PROVE  IInv'
  <2>1. /\ minted + 1 \in Tokens /\ minted' = minted + 1 /\ minted' \in 0..MaxToken
        /\ live' = live \cup {minted + 1} /\ live' \subseteq 1..minted'
        /\ origin' \in [Tokens -> Sessions \cup {None, "refresh", "rejected"}]
        /\ \A k \in Tokens \ {minted + 1} : origin'[k] = origin[k]
        /\ origin'[minted + 1] = from
    BY <1>6 DEF Minted
  <2>2. minted' \in Nat /\ minted <= minted' /\ minted + 1 \notin 1..minted /\ minted + 1 > minted
        /\ live \subseteq 1..minted /\ 1..minted \subseteq 1..minted' /\ minted + 1 \in 1..minted'
        /\ live \subseteq Tokens
    BY <1>2, <2>1, AccountAssumption DEF IInv, Shapes, Tokens
  <2>3. origin[minted + 1] = None /\ None \notin Sessions /\ "rejected" \notin Sessions
    BY <2>1, <2>2, AccountAssumption DEF IInv, AccountInv, Keys
  <2>4. Shapes'
    BY <1>1, <1>6, <2>1 DEF IInv, Shapes, Alone
  <2>5. AccountInv'
    <3>1. account.blob \in 1..minted' \cup {None}
      BY <2>2 DEF IInv, AccountInv
    <3>2. \A k \in Tokens : k > minted' => submitted[k] = 0 /\ origin'[k] = None
      <4> SUFFICES ASSUME NEW k \in Tokens, k > minted' PROVE submitted[k] = 0 /\ origin'[k] = None
        OBVIOUS
      <4>1. k > minted /\ k # minted + 1
        BY <1>2, <2>1 DEF Tokens
      <4> QED
        BY <2>1, <4>1 DEF IInv, AccountInv
    <3> QED
      BY <1>1, <3>1, <3>2 DEF IInv, AccountInv
  <2>6. /\ ProcessInv' /\ LockInv' /\ LeaseInv' /\ CommandInv' /\ RemoteInv'
        /\ Kept({"refresh", "finish", "set_status"})
    BY <1>1, <1>2, <1>3, <1>6, <2>1, <2>2, CallbackRest
  <2>7. SessionInv'
    <3>a. from = "rejected" => \A k \in live' : origin'[k] # thread[t].key
      BY <1>1, <1>4, <2>1, <2>2, <2>3
    <3>b. pc # "settle" => thread'[t].tok \in 1..minted' /\ origin'[thread'[t].tok] = thread[t].key
      BY <1>6, <2>1, <2>2
    <3>1. CallbackOK(t)'
      BY <1>1, <1>4, <1>6, <3>a, <3>b DEF CallbackOK, Revoked
    <3>2. \A k \in Tokens, r \in Sessions \ {thread[t].key} : (origin'[k] = r) <=> (origin[k] = r)
      BY <1>1, <2>1, <2>3
    <3>3. \A k \in live', r \in Sessions \ {thread[t].key} : origin'[k] = r => k \in live
      BY <1>1, <2>1, <2>3
    <3>4. \A k, m \in Tokens : origin'[k] = thread[t].key /\ origin'[m] = thread[t].key => k = m
      BY <1>4, <2>1
    <3>5. Alone(t) /\ thread'[t].key = thread[t].key /\ thread'[t].pc \in Callback
      BY <1>2, <1>6
    <3>6. /\ session'[thread[t].key].status \notin {"none", "pending"}
          /\ \A r \in Sessions \ {thread[t].key} : session'[r] = session[r]
          /\ inst' = inst /\ minted' \in Nat /\ minted <= minted'
      BY <1>1, <1>4, <2>2
    <3> QED
      BY <1>1, <1>2, <1>3, <3>1, <3>2, <3>3, <3>4, <3>5, <3>6, CallbackSession
  <2>8. TraceInv'
    <3>1. \A k \in live' \ live : k \notin 1..minted /\ Traced(k)'
      BY <1>1, <1>4, <2>1, <2>2 DEF Traced
    <3>2. \A k \in live : origin'[k] = origin[k]
      BY <2>1, <2>2
    <3> QED
      BY <1>1, <2>6, <3>1, <3>2, TraceKept DEF IInv
  <2> QED
    BY <2>4, <2>5, <2>6, <2>7, <2>8 DEF IInv
<1>7. ASSUME Minted(thread[t].key, {}), NEW pc \in {"persist", "revoke_minted"},
             Stays(t, pc, minted + 1, thread[t].revision, thread[t].outcome)
      PROVE  IInv'
  <2>1. thread[t].key # "rejected"
    BY <1>1, AccountAssumption DEF Keys
  <2> QED
    BY <1>6, <1>7, <2>1 DEF Stays, Moved, Alone
<1>8. ASSUME Minted(thread[t].key, {}), Stays(t, "settle", thread[t].tok, thread[t].revision, "unknown")
      PROVE  IInv'
  <2>1. thread[t].key # "rejected"
    BY <1>1, AccountAssumption DEF Keys
  <2> QED
    BY <1>6, <1>8, <2>1 DEF Stays, Moved, Alone
<1>9. ASSUME Minted("rejected", {}), Stays(t, "settle", thread[t].tok, thread[t].revision, "not_issued")
      PROVE  IInv'
  BY <1>6, <1>9 DEF Stays, Moved, Alone
<1> QED
  BY <1>5, <1>7, <1>8, <1>9, ExchangeEffect

(* The account is inserted with the token of the callback, or the token goes. *)
LEMMA InsertStep ==
  ASSUME IInv, NEW t \in Threads, InsertAccount(t)
  PROVE  IInv'
<1>1. /\ thread[t].pc = "insert" /\ thread[t].key \in Sessions /\ thread[t].tok \in 1..minted
      /\ thread[t].tok \in Tokens
      /\ UNCHANGED <<lease, command, live, minted, submitted, origin, inst, handed>>
  BY InsertEffect
<1>2. thread[t].pc \in Callback /\ "revoke_minted" \in Callback /\ minted \in Nat /\ "idle" \notin Callback
  BY <1>1 DEF Callback, IInv, Shapes
<1>3. /\ CallbackOK(t)
      /\ \A u \in Threads \ {t} : thread[u].pc \in Callback => thread[u].key # thread[t].key
      /\ thread[t].inst \in Instances /\ inst[thread[t].inst].phase = "serving"
  BY <1>2, CallbackOf
<1>4. CASE /\ UNCHANGED <<session, account>>
           /\ Stays(t, "revoke_minted", thread[t].tok, thread[t].revision, thread[t].outcome)
  <2>1. CallbackOK(t)'
    BY <1>1, <1>3, <1>4 DEF CallbackOK, Stays, Moved
  <2> QED
    BY <1>1, <1>2, <1>4, <2>1, CallbackGoes DEF IInv, Shapes
<1>5. CASE /\ account.status = "none" /\ session[thread[t].key].status = "processing"
           /\ Row(account', "active", "ready", thread[t].tok, 0, None, None, None, None, None)
           /\ SessionSet(thread[t].key, "completed", None, None)
           /\ Gone(t)
  <2>1. Alone(t) /\ thread'[t] = Idle /\ thread'[t].pc = "idle"
    BY <1>5 DEF Gone, Alone
  <2>2. /\ account' \in AccountRows /\ account'.status = "active" /\ account'.cred = "ready"
        /\ account'.blob = thread[t].tok /\ account'.remote = None /\ account'.command = None
    BY <1>5 DEF Row
  <2>3. /\ session' \in [Sessions -> SessionRows] /\ session'[thread[t].key].status = "completed"
        /\ \A r \in Sessions \ {thread[t].key} : session'[r] = session[r]
    BY <1>5 DEF SessionSet
  <2>4. Shapes'
    BY <1>1, <2>1, <2>2, <2>3 DEF IInv, Shapes, Alone
  <2>5. AccountInv'
    <3>1. \A k \in Tokens : submitted[k] = 0
      BY <1>5 DEF IInv, AccountInv
    <3>2. thread[t].tok # None /\ None # "pending"
      BY <1>1, AccountAssumption DEF Tokens
    <3>3. \A k \in Tokens : k > minted => origin[k] = None
      BY DEF IInv, AccountInv
    <3> QED
      BY <1>1, <2>2, <3>1, <3>2, <3>3 DEF AccountInv
  <2>6. /\ ProcessInv' /\ LockInv' /\ LeaseInv' /\ CommandInv' /\ RemoteInv'
        /\ Kept({"refresh", "finish", "set_status"})
    <3>1. \A r \in Sessions : session'[r].status # "none" => session[r].status # "none"
      BY <1>1, <1>5, <2>3
    <3> QED
      BY <1>1, <1>2, <1>5, <2>1, <2>2, <3>1, CallbackRest
  <2>7. SessionInv'
    <3>1. \A k, m \in Tokens : origin'[k] = thread[t].key /\ origin'[m] = thread[t].key => k = m
      BY <1>1 DEF IInv, SessionInv
    <3> QED
      BY <1>1, <1>2, <1>3, <2>1, <2>3, <3>1, CallbackSession
  <2>8. TraceInv'
    <3>1. ~GrantGone'
      BY <2>2 DEF GrantGone
    <3>2. ASSUME NEW k \in live PROVE Traced(k)'
      <4>1. k \in Tokens /\ k # None
        <5>1. k \in 1..minted /\ minted \in 0..MaxToken
          BY DEF IInv, Shapes
        <5>2. k \in Tokens
          BY <5>1, AccountAssumption DEF Tokens
        <5> QED
          BY <5>2, AccountAssumption DEF Tokens
      <4>2. account.blob = None /\ account.cred = "ready"
        BY <1>5 DEF IInv, AccountInv
      <4>a. Traced(k)
        BY DEF IInv, TraceInv
      <4>b. account.status = "none"
        BY <1>5
      <4>0. CASE origin[k] = "rejected"
        BY <1>1, <4>0 DEF Traced
      <4>c. SUFFICES ASSUME origin[k] # "rejected" PROVE Traced(k)'
        BY <4>0
      <4>3. PICK r \in Sessions : /\ origin[k] = r
                                  /\ \/ session[r].status \in {"processing", "pruned"}
                                     \/ session[r].outcome \in {"failed", "unknown"}
        BY <4>1, <4>2, <4>a, <4>b, <4>c DEF Traced
      <4>4. CASE r = thread[t].key
        <5>1. k = thread[t].tok
          BY <1>1, <1>3, <4>1, <4>3, <4>4 DEF IInv, SessionInv, CallbackOK
        <5> QED
          BY <2>2, <5>1 DEF Traced
      <4>5. CASE r # thread[t].key
        <5>1. session'[r] = session[r] /\ origin'[k] = r
          BY <1>1, <2>3, <4>3, <4>5
        <5> QED
          BY <4>3, <5>1 DEF Traced
      <4> QED
        BY <4>4, <4>5
    <3> QED
      BY <1>1, <3>1, <3>2 DEF TraceInv
  <2> QED
    BY <2>4, <2>5, <2>6, <2>7, <2>8 DEF IInv
<1> QED
  BY <1>4, <1>5, InsertEffect

-----------------------------------------------------------------------------
(* The redemptions keep the invariant. *)

(* What a step of a redemption leaves alone. *)
LEMMA RedeemRest ==
  ASSUME IInv, NEW t \in Threads, Alone(t), thread[t].pc \in Redeeming \cup {"idle"},
         \/ thread'[t] = Idle
         \/ /\ thread'[t].pc \in Redeeming /\ thread'[t].inst \in Instances
            /\ inst[thread'[t].inst].phase = "serving",
         UNCHANGED <<session, command, inst>>,
         minted' \in Nat, minted <= minted',
         \A k \in Tokens, s \in Sessions : (origin'[k] = s) <=> (origin[k] = s),
         \A k \in live', s \in Sessions : origin'[k] = s => k \in live,
         account' = account \/ (account.status # "unlinked" /\ account'.status # "unlinked" /\ account'.remote # "pending")
  PROVE  ProcessInv' /\ CommandInv' /\ RemoteInv' /\ SessionInv' /\ Kept({"set_status"})
<1>1. thread'[t].pc \in Redeeming \cup {"idle"}
  BY IdleTyped
<1>2. Kept(Callback) /\ Kept(Creating) /\ Kept(Commanding) /\ Kept(Ending) /\ Kept({"set_status"})
  <2>1. \A pc \in Redeeming \cup {"idle"} : pc \notin Callback /\ pc \notin Creating
          /\ pc \notin Commanding /\ pc \notin Ending /\ pc \notin {"set_status"}
    BY DEF Callback, Redeeming, Creating, Commanding, Ending, Unlinking, Revoking
  <2> QED
    BY <1>1, <2>1, AloneKeeps
<1>3. ProcessInv'
  <2>1. "idle" \notin Redeeming
    BY DEF Redeeming
  <2> QED
    BY <2>1, ProcessKept DEF IInv
<1>4. CommandInv'
  <2>1. \A u \in Threads : /\ thread'[u].pc \in Creating <=> thread[u].pc \in Creating
                           /\ thread'[u].pc \in Commanding <=> thread[u].pc \in Commanding
                           /\ thread[u].pc \in Commanding => thread'[u].key = thread[u].key
    BY <1>2 DEF Kept
  <2> QED
    BY <2>1, CommandKept DEF IInv
<1>5. RemoteInv'
  BY <1>2, RemoteKept DEF IInv
<1>6. SessionInv'
  BY <1>2, SessionKept DEF IInv
<1> QED
  BY <1>2, <1>3, <1>4, <1>5, <1>6

(* A lease is redeemed. *)
LEMMA RedeemLeaseStep ==
  ASSUME IInv, NEW t \in Threads, NEW i \in Instances, NEW l \in Leases, RedeemLease(t, i, l)
  PROVE  IInv'
<1>1. /\ thread[t].pc = "idle" /\ inst[i].phase = "serving" /\ lease[l] = "open"
      /\ Moved(t, "fresh", i, l, None, 0, None)
      /\ lease' \in [Leases -> {"none", "open", "redeemed", "deleted"}]
      /\ lease'[l] = "redeemed" /\ \A m \in Leases \ {l} : lease'[m] = lease[m]
      /\ UNCHANGED <<session, account, command, live, minted, submitted, origin, inst, handed>>
  BY RedeemLeaseEffect
<1>2. Alone(t) /\ thread'[t].pc = "fresh" /\ thread'[t].key = l /\ thread'[t].inst = i
  BY <1>1 DEF Moved, Alone
<1>3. minted \in Nat /\ "fresh" \in Redeeming
  BY DEF IInv, Shapes, Redeeming
<1>4. Shapes'
  BY <1>1, <1>2 DEF IInv, Shapes, Alone
<1>5. AccountInv'
  BY <1>1, AccountKept DEF IInv
<1>6. ProcessInv' /\ CommandInv' /\ RemoteInv' /\ SessionInv'
  BY <1>1, <1>2, <1>3, RedeemRest
<1>7. Kept(Locking) /\ Kept({"refresh", "finish", "set_status"})
  BY <1>1, <1>2, AloneKeeps DEF Locking
<1>8. LockInv'
  BY <1>1, <1>3, <1>7, LockKept DEF IInv
<1>9. TraceInv'
  BY <1>1, <1>7, TraceKept DEF IInv
<1>10. LeaseInv'
  <2>1. \A m \in Leases :
       /\ handed'[m] <= 1
       /\ lease'[m] \in {"none", "open"} => handed'[m] = 0
       /\ lease'[m] = "open" => account'.status = "active" /\ account'.cred # "reauthorization_required"
    BY <1>1 DEF IInv, LeaseInv
  <2>2. handed[l] = 0 /\ \A u \in Threads : thread[u].pc \in Redeeming => thread[u].key # l
    BY <1>1 DEF IInv, LeaseInv
  <2>3. \A u \in Threads \ {t} : thread'[u] = thread[u]
    BY <1>2 DEF Alone
  <2>4. ASSUME NEW u \in Threads, thread'[u].pc \in Redeeming
        PROVE
       /\ thread'[u].key \in Leases
       /\ lease'[thread'[u].key] \in {"redeemed", "deleted"} /\ handed'[thread'[u].key] = 0
       /\ \A v \in Threads \ {u} : thread'[v].pc \in Redeeming => thread'[v].key # thread'[u].key
    <3>1. CASE u = t
      BY <1>1, <1>2, <2>2, <2>3, <3>1
    <3>2. CASE u # t
      BY <1>1, <1>2, <2>2, <2>3, <2>4, <3>2 DEF IInv, LeaseInv
    <3> QED
      BY <3>1, <3>2
  <2> QED
    BY <2>1, <2>4 DEF LeaseInv
<1> QED
  BY <1>4, <1>5, <1>6, <1>8, <1>9, <1>10 DEF IInv

(* A redemption under way. *)
LEMMA RedeemOf ==
  ASSUME IInv, NEW t \in Threads, thread[t].pc \in Redeeming
  PROVE  /\ thread[t].key \in Leases /\ lease[thread[t].key] \in {"redeemed", "deleted"}
         /\ handed[thread[t].key] = 0
         /\ \A u \in Threads \ {t} : thread[u].pc \in Redeeming => thread[u].key # thread[t].key
         /\ thread[t].inst \in Instances /\ inst[thread[t].inst].phase = "serving"
<1>1. thread[t].pc # "idle"
  BY DEF Redeeming
<1> QED
  BY <1>1, ServingOf DEF IInv, LeaseInv

(* The redemption that hands out a credential is over. *)
LEMMA LeaseHanded ==
  ASSUME IInv, NEW t \in Threads, thread[t].pc \in Redeeming, HandedBy(t), Gone(t), lease' = lease,
         account.status = "active" /\ account.cred # "reauthorization_required" =>
           account'.status = "active" /\ account'.cred # "reauthorization_required"
  PROVE  LeaseInv'
<1>1. /\ thread[t].key \in Leases /\ lease[thread[t].key] \in {"redeemed", "deleted"}
      /\ handed[thread[t].key] = 0
      /\ \A u \in Threads \ {t} : thread[u].pc \in Redeeming => thread[u].key # thread[t].key
  BY RedeemOf
<1>2. handed'[thread[t].key] = 1 /\ \A l \in Leases \ {thread[t].key} : handed'[l] = handed[l]
  BY <1>1 DEF HandedBy
<1>3. "idle" \notin Redeeming /\ thread'[t].pc = "idle" /\ \A u \in Threads \ {t} : thread'[u] = thread[u]
  BY DEF Redeeming, Gone
<1>4. \A l \in Leases :
       /\ handed'[l] <= 1
       /\ lease'[l] \in {"none", "open"} => handed'[l] = 0
       /\ lease'[l] = "open" => account'.status = "active" /\ account'.cred # "reauthorization_required"
  <2>1. \A l \in Leases : /\ handed[l] <= 1
                          /\ lease[l] \in {"none", "open"} => handed[l] = 0
                          /\ lease[l] = "open" => account.status = "active" /\ account.cred # "reauthorization_required"
    BY DEF IInv, LeaseInv
  <2> QED
    BY <1>1, <1>2, <2>1
<1>5. ASSUME NEW u \in Threads, thread'[u].pc \in Redeeming
      PROVE
       /\ thread'[u].key \in Leases
       /\ lease'[thread'[u].key] \in {"redeemed", "deleted"} /\ handed'[thread'[u].key] = 0
       /\ \A v \in Threads \ {u} : thread'[v].pc \in Redeeming => thread'[v].key # thread'[u].key
  <2>1. u # t /\ thread'[u] = thread[u] /\ thread[u].pc \in Redeeming
    BY <1>3, <1>5
  <2>2. /\ thread[u].key \in Leases /\ lease[thread[u].key] \in {"redeemed", "deleted"}
        /\ handed[thread[u].key] = 0 /\ thread[u].key # thread[t].key
        /\ \A v \in Threads \ {u} : thread[v].pc \in Redeeming => thread[v].key # thread[u].key
    BY <1>1, <2>1, RedeemOf
  <2> QED
    BY <1>2, <1>3, <2>1, <2>2
<1> QED
  BY <1>4, <1>5 DEF LeaseInv

(* With the thread that holds the lock, the lock is gone. *)
LEMMA LockGone ==
  ASSUME IInv, NEW t \in Threads, thread[t].pc \in Locking, Gone(t)
  PROVE  LockInv'
BY DEF IInv, LockInv, LockOK, Gone, Locking

(* A redemption that ends without a word. *)
LEMMA RedeemEnds ==
  ASSUME IInv, NEW t \in Threads, thread[t].pc \in Redeeming \ {"refresh", "finish"}, Gone(t),
         handed' = handed \/ HandedBy(t), UNCHANGED <<session, account, lease, command, live, minted, submitted, origin, inst>>
  PROVE  IInv'
<1>1. Alone(t) /\ thread'[t] = Idle /\ thread'[t].pc = "idle"
  BY DEF Gone, Alone
<1>2. minted \in Nat /\ thread[t].key \in Leases
  BY RedeemOf DEF IInv, Shapes
<1>3. Shapes'
  BY <1>1 DEF IInv, Shapes, Alone, HandedBy
<1>4. AccountInv'
  BY AccountKept DEF IInv
<1>5. ProcessInv' /\ CommandInv' /\ RemoteInv' /\ SessionInv'
  BY <1>1, <1>2, RedeemRest
<1>6. LockInv'
  <2>1. CASE thread[t].pc \in Locking
    BY <2>1, LockGone
  <2>2. CASE thread[t].pc \notin Locking
    <3>1. "idle" \notin Locking
      BY DEF Locking
    <3>2. Kept(Locking)
      BY <1>1, <2>2, <3>1, AloneKeeps
    <3> QED
      BY <1>2, <3>2, LockKept DEF IInv
  <2> QED
    BY <2>1, <2>2
<1>7. TraceInv'
  <2>1. Kept({"refresh", "finish", "set_status"})
    <3>1. "set_status" \notin Redeeming
      BY DEF Redeeming
    <3> QED
      BY <1>1, <3>1, AloneKeeps
  <2> QED
    BY <2>1, TraceKept DEF IInv
<1>8. LeaseInv'
  <2>1. CASE HandedBy(t)
    BY <2>1, LeaseHanded
  <2>2. CASE handed' = handed
    <3>1. \A u \in Threads : thread'[u].pc \in Redeeming =>
           thread[u].pc \in Redeeming /\ thread'[u].key = thread[u].key
      BY <1>1 DEF Alone, Redeeming
    <3> QED
      BY <2>2, <3>1, LeaseKept DEF IInv
  <2> QED
    BY <2>1, <2>2
<1> QED
  BY <1>3, <1>4, <1>5, <1>6, <1>7, <1>8 DEF IInv

(* The stored token is handed out, or its refresh begins. *)
LEMMA ReadCredentialStep ==
  ASSUME IInv, NEW t \in Threads, ReadCredential(t)
  PROVE  IInv'
<1>1. /\ thread[t].pc = "fresh"
      /\ UNCHANGED <<session, account, lease, command, live, minted, submitted, origin, inst>>
  BY ReadCredentialEffect
<1>2. thread[t].pc \in Redeeming \ {"refresh", "finish"} /\ thread[t].pc \in Redeeming /\ minted \in Nat
  BY <1>1 DEF Redeeming, IInv, Shapes
<1>3. CASE Gone(t) /\ (handed' = handed \/ HandedBy(t))
  BY <1>1, <1>2, <1>3, RedeemEnds
<1>4. ASSUME handed' = handed, account.status = "active", account.cred = "ready", account.blob \in 1..minted,
             \A u \in Threads : thread[u].pc \notin Locking, NEW pc \in {"claim", "doomed"},
             Stays(t, pc, account.blob, thread[t].revision, thread[t].outcome)
      PROVE  IInv'
  <2>1. Alone(t) /\ thread'[t].pc = pc /\ thread'[t].key = thread[t].key /\ thread'[t].inst = thread[t].inst
        /\ thread'[t].tok = account.blob
    BY <1>4 DEF Stays, Moved, Alone
  <2>2. thread[t].inst \in Instances /\ inst[thread[t].inst].phase = "serving" /\ pc \in Redeeming
    BY <1>2, RedeemOf DEF Redeeming
  <2>3. Shapes'
    BY <1>1, <1>4, <2>1 DEF IInv, Shapes, Alone
  <2>4. AccountInv'
    BY <1>1, AccountKept DEF IInv
  <2>5. ProcessInv' /\ CommandInv' /\ RemoteInv' /\ SessionInv'
    BY <1>1, <1>2, <2>1, <2>2, RedeemRest
  <2>6. LeaseInv'
    <3>1. \A u \in Threads : thread'[u].pc \in Redeeming =>
           thread[u].pc \in Redeeming /\ thread'[u].key = thread[u].key
      BY <1>2, <2>1 DEF Alone
    <3> QED
      BY <1>1, <1>4, <3>1, LeaseKept DEF IInv
  <2>7. LockInv'
    <3>1. \A u \in Threads \ {t} : thread'[u].pc \notin Locking
      BY <1>4, <2>1 DEF Alone
    <3>2. LockOK(t)'
      BY <1>1, <1>4, <2>1, <3>1 DEF LockOK
    <3> QED
      BY <3>1, <3>2 DEF LockInv, LockOK
  <2>8. TraceInv'
    <3>1. Kept({"refresh", "finish", "set_status"})
      BY <1>1, <2>1, AloneKeeps
    <3> QED
      BY <1>1, <3>1, TraceKept DEF IInv
  <2> QED
    BY <2>3, <2>4, <2>5, <2>6, <2>7, <2>8 DEF IInv
<1> QED
  BY <1>3, <1>4, ReadCredentialEffect

(* The claim is taken, or the redemption ends. *)
LEMMA ClaimRefreshStep ==
  ASSUME IInv, NEW t \in Threads, ClaimRefresh(t)
  PROVE  IInv'
<1>1. /\ thread[t].pc \in {"claim", "doomed"}
      /\ UNCHANGED <<session, lease, command, live, minted, submitted, origin, inst, handed>>
  BY ClaimRefreshEffect
<1>2. /\ thread[t].pc \in Redeeming \ {"refresh", "finish"} /\ thread[t].pc \in Redeeming
      /\ thread[t].pc \in Locking /\ minted \in Nat
  BY <1>1 DEF Redeeming, Locking, IInv, Shapes
<1>3. CASE account' = account /\ Gone(t)
  BY <1>1, <1>2, <1>3, RedeemEnds
<1>4. ASSUME account.status = "active", account.cred = "ready", account.revision + 1 \in Nat,
             Row(account', "active", "refresh_pending", account.blob, account.revision + 1, t,
                 thread[t].inst, account.remote, account.remoteOwner, account.command),
             NEW pc \in {"refresh", "fail"},
             Stays(t, pc, thread[t].tok, account.revision + 1, thread[t].outcome)
      PROVE  IInv'
  <2>1. Alone(t) /\ thread'[t].pc = pc /\ thread'[t].key = thread[t].key /\ thread'[t].inst = thread[t].inst
        /\ thread'[t].tok = thread[t].tok /\ thread'[t].revision = account.revision + 1
    BY <1>4 DEF Stays, Moved, Alone
  <2>2. thread[t].inst \in Instances /\ inst[thread[t].inst].phase = "serving" /\ pc \in Redeeming
    BY <1>2, RedeemOf DEF Redeeming
  <2>3. /\ account' \in AccountRows /\ account'.status = "active" /\ account'.cred = "refresh_pending"
        /\ account'.blob = account.blob /\ account'.revision = account.revision + 1 /\ account'.claim = t
        /\ account'.owner = thread[t].inst /\ account'.remote = account.remote
        /\ account'.command = account.command
    BY <1>4 DEF Row
  <2>4. /\ thread[t].tok \in 1..minted /\ account.blob = thread[t].tok
        /\ \A u \in Threads \ {t} : thread[u].pc \notin Locking
    BY <1>1, <1>2, <1>4 DEF IInv, LockInv, LockOK
  <2>5. account.remote = None /\ account.command = None /\ None # "pending"
    BY <1>4, AccountAssumption DEF IInv, AccountInv
  <2>6. Shapes'
    BY <1>1, <2>1, <2>3 DEF IInv, Shapes, Alone
  <2>7. AccountInv'
    <3>1. /\ account.blob \in 1..minted \cup {None}
          /\ \A k \in Tokens : submitted[k] <= 1 /\ (k > minted => submitted[k] = 0 /\ origin[k] = None)
      BY DEF IInv, AccountInv
    <3> QED
      BY <1>1, <2>3, <2>5, <3>1 DEF AccountInv
  <2>8. ProcessInv' /\ CommandInv' /\ RemoteInv' /\ SessionInv'
    BY <1>1, <1>2, <1>4, <2>1, <2>2, <2>3, <2>5, RedeemRest
  <2>9. LeaseInv'
    <3>1. \A u \in Threads : thread'[u].pc \in Redeeming =>
           thread[u].pc \in Redeeming /\ thread'[u].key = thread[u].key
      BY <1>2, <2>1 DEF Alone
    <3> QED
      BY <1>1, <2>3, <3>1, LeaseKept DEF IInv
  <2>10. \A u \in Threads \ {t} : thread'[u].pc \notin Locking /\ thread[u].pc \notin Locking
    BY <2>1, <2>4 DEF Alone
  <2>11. LockInv'
    <3>1. submitted[thread[t].tok] = 0
      <4>1. thread[t].tok \in Tokens
        BY <2>4, AccountAssumption DEF IInv, Shapes, Tokens
      <4> QED
        BY <1>4, <2>4, <4>1 DEF IInv, AccountInv
    <3>2. HasClaim(t)'
      BY <2>1, <2>3 DEF HasClaim
    <3>3. LockOK(t)'
      BY <1>1, <1>4, <2>1, <2>3, <2>4, <2>10, <3>1, <3>2 DEF LockOK
    <3> QED
      BY <2>10, <3>3 DEF LockInv, LockOK
  <2>12. TraceInv'
    <3>1. ~GrantGone'
      BY <2>3 DEF GrantGone
    <3>2. ASSUME NEW k \in live PROVE Traced(k)'
      <4>1. Traced(k)
        BY DEF IInv, TraceInv
      <4>2. \A u \in Threads : thread[u].pc # "finish"
        BY <1>1, <2>10 DEF Locking
      <4>3. CASE account.blob = k \/ origin[k] = "rejected"
        BY <1>1, <2>3, <4>3 DEF Traced
      <4>4. CASE account.blob # k /\ origin[k] # "rejected"
        <5>1. PICK r \in Sessions : /\ origin[k] = r
                                    /\ \/ session[r].status \in {"processing", "pruned"}
                                       \/ session[r].outcome \in {"failed", "unknown"}
          BY <1>4, <4>1, <4>2, <4>4 DEF Traced
        <5> QED
          BY <1>1, <5>1 DEF Traced
      <4> QED
        BY <4>3, <4>4
    <3> QED
      BY <1>1, <3>1, <3>2 DEF TraceInv
  <2> QED
    BY <2>6, <2>7, <2>8, <2>9, <2>11, <2>12 DEF IInv
<1> QED
  BY <1>3, <1>4, ClaimRefreshEffect

(* The answer of the refresh is stored and handed out, or comes too late. *)
LEMMA FinishStep ==
  ASSUME IInv, NEW t \in Threads, FinishRefresh(t)
  PROVE  IInv'
<1>1. /\ thread[t].pc = "finish" /\ thread[t].tok \in 1..minted /\ Gone(t)
      /\ UNCHANGED <<session, lease, command, live, minted, submitted, origin, inst>>
  BY FinishEffect
<1>2. thread[t].pc \in Redeeming /\ thread[t].pc \in Locking /\ minted \in Nat /\ "idle" \notin Redeeming
  BY <1>1 DEF Redeeming, Locking, IInv, Shapes
<1>3. Alone(t) /\ thread'[t] = Idle /\ thread'[t].pc = "idle" /\ \A u \in Threads \ {t} : thread'[u] = thread[u]
  BY <1>1 DEF Gone, Alone
<1>4. LockInv'
  BY <1>1, <1>2, LockGone
<1>5. \A u \in Threads \ {t} : thread[u].pc \notin Locking
  BY <1>2 DEF IInv, LockInv, LockOK
<1>6. \A u \in Threads : thread'[u].pc \notin {"refresh", "finish"}
  BY <1>3, <1>5 DEF Locking
<1>7. \A u \in Threads : thread'[u].pc \in Redeeming =>
        thread[u].pc \in Redeeming /\ thread'[u].key = thread[u].key
  BY <1>2, <1>3
<1>8. CASE account.status # "active" /\ UNCHANGED <<account, handed>>
  <2>1. Shapes' /\ AccountInv'
    BY <1>1, <1>3, <1>8, AccountKept DEF IInv, Shapes, Alone
  <2>2. ProcessInv' /\ CommandInv' /\ RemoteInv' /\ SessionInv' /\ Kept({"set_status"})
    BY <1>1, <1>2, <1>3, <1>8, RedeemRest
  <2>3. LeaseInv'
    BY <1>1, <1>7, <1>8, LeaseKept DEF IInv
  <2>4. TraceInv'
    <3>1. GrantGone' <=> GrantGone
      BY <1>8, <2>2 DEF GrantGone, Kept
    <3>2. account.cred = "ready"
      BY <1>8 DEF IInv, AccountInv
    <3>3. ASSUME NEW k \in live PROVE Traced(k)'
      <4>1. Traced(k)
        BY DEF IInv, TraceInv
      <4> QED
        BY <1>1, <1>8, <3>1, <3>2, <4>1 DEF Traced
    <3> QED
      BY <1>1, <1>6, <3>3 DEF TraceInv
  <2> QED
    BY <1>4, <2>1, <2>2, <2>3, <2>4 DEF IInv
<1>9. CASE /\ account.status = "active" /\ HandedBy(t)
           /\ Row(account', "active", "ready", thread[t].tok, account.revision, None, None,
                  account.remote, account.remoteOwner, account.command)
  <2>1. /\ account' \in AccountRows /\ account'.status = "active" /\ account'.cred = "ready"
        /\ account'.blob = thread[t].tok /\ account'.remote = None /\ account'.command = None
    BY <1>9 DEF Row, IInv, AccountInv
  <2>2. /\ submitted[thread[t].tok] = 0 /\ account.blob \notin live /\ HasClaim(t)
    BY <1>1, <1>2, <1>9 DEF IInv, LockInv, LockOK
  <2>3. Shapes'
    BY <1>1, <1>3, <1>9, <2>1 DEF IInv, Shapes, Alone, HandedBy
  <2>4. AccountInv'
    <3>1. thread[t].tok # None /\ None # "pending"
      BY <1>1, <1>2, AccountAssumption
    <3>2. \A k \in Tokens : submitted[k] <= 1 /\ (k > minted => submitted[k] = 0 /\ origin[k] = None)
      BY DEF IInv, AccountInv
    <3> QED
      BY <1>1, <2>1, <2>2, <3>1, <3>2 DEF AccountInv
  <2>5. ProcessInv' /\ CommandInv' /\ RemoteInv' /\ SessionInv'
    <3>1. account.status # "unlinked" /\ account'.status # "unlinked" /\ account'.remote # "pending"
      BY <1>9, <2>1, AccountAssumption
    <3> QED
      BY <1>1, <1>2, <1>3, <3>1, RedeemRest
  <2>6. LeaseInv'
    BY <1>1, <1>2, <1>9, <2>1, LeaseHanded
  <2>7. TraceInv'
    <3>1. ~GrantGone'
      BY <2>1 DEF GrantGone
    <3>2. ASSUME NEW k \in live PROVE Traced(k)'
      <4>1. Traced(k)
        BY DEF IInv, TraceInv
      <4>2. account.blob # k /\ account.cred = "refresh_pending"
        BY <2>2 DEF HasClaim
      <4>3. CASE \E u \in Threads : thread[u].pc = "finish" /\ thread[u].tok = k
        <5>1. thread[t].tok = k
          BY <1>5, <4>3 DEF Locking
        <5> QED
          BY <2>1, <5>1 DEF Traced
      <4>4. CASE origin[k] = "rejected"
        BY <1>1, <4>4 DEF Traced
      <4>5. CASE /\ origin[k] # "rejected"
                 /\ ~\E u \in Threads : thread[u].pc = "finish" /\ thread[u].tok = k
        <5>1. PICK r \in Sessions : /\ origin[k] = r
                                    /\ \/ session[r].status \in {"processing", "pruned"}
                                       \/ session[r].outcome \in {"failed", "unknown"}
          BY <1>1, <1>9, <4>1, <4>2, <4>5 DEF Traced
        <5> QED
          BY <1>1, <5>1 DEF Traced
      <4> QED
        BY <4>3, <4>4, <4>5
    <3> QED
      BY <1>1, <3>1, <3>2 DEF TraceInv
  <2> QED
    BY <1>4, <2>3, <2>4, <2>5, <2>6, <2>7 DEF IInv
<1> QED
  BY <1>8, <1>9, FinishEffect

(* With the leases, what was promised about them is gone. *)
LEMMA LeasesDropped ==
  ASSUME IInv, DropLeases, handed' = handed,
         \A u \in Threads : thread'[u].pc \in Redeeming =>
           thread[u].pc \in Redeeming /\ thread'[u].key = thread[u].key
  PROVE  LeaseInv' /\ lease' \in [Leases -> {"none", "open", "redeemed", "deleted"}]
<1>1. /\ lease' \in [Leases -> {"none", "open", "redeemed", "deleted"}]
      /\ \A l \in Leases : /\ lease'[l] \in {"none", "deleted"}
                           /\ lease'[l] = "none" <=> lease[l] = "none"
  BY LeasesMove DEF IInv, Shapes
<1>2. \A l \in Leases : /\ handed'[l] <= 1
                        /\ lease'[l] \in {"none", "open"} => handed'[l] = 0
                        /\ lease'[l] # "open"
  BY <1>1 DEF IInv, LeaseInv
<1>3. ASSUME NEW u \in Threads, thread'[u].pc \in Redeeming
      PROVE
       /\ thread'[u].key \in Leases
       /\ lease'[thread'[u].key] \in {"redeemed", "deleted"} /\ handed'[thread'[u].key] = 0
       /\ \A v \in Threads \ {u} : thread'[v].pc \in Redeeming => thread'[v].key # thread'[u].key
  <2>1. thread[u].pc \in Redeeming /\ thread'[u].key = thread[u].key
    BY <1>3
  <2>2. /\ thread[u].key \in Leases /\ lease[thread[u].key] \in {"redeemed", "deleted"}
        /\ handed[thread[u].key] = 0
        /\ \A v \in Threads \ {u} : thread[v].pc \in Redeeming => thread[v].key # thread[u].key
    BY <2>1, RedeemOf
  <2>3. lease'[thread[u].key] = "deleted"
    BY <1>1, <2>2
  <2> QED
    BY <2>1, <2>2, <2>3
<1> QED
  BY <1>1, <1>2, <1>3 DEF LeaseInv

(* A refresh without an answer costs the credential. *)
LEMMA FailStep ==
  ASSUME IInv, NEW t \in Threads, FailRefresh(t)
  PROVE  IInv'
<1>1. /\ thread[t].pc = "fail" /\ Gone(t)
      /\ UNCHANGED <<session, command, live, minted, submitted, origin, inst, handed>>
  BY FailEffect
<1>2. /\ thread[t].pc \in Redeeming \ {"refresh", "finish"} /\ thread[t].pc \in Redeeming
      /\ thread[t].pc \in Locking /\ minted \in Nat /\ "idle" \notin Redeeming
  BY <1>1 DEF Redeeming, Locking, IInv, Shapes
<1>3. CASE account.status # "active" /\ UNCHANGED <<account, lease>>
  BY <1>1, <1>2, <1>3, RedeemEnds
<1>4. CASE /\ account.status = "active" /\ DropLeases
           /\ Row(account', "active", "reauthorization_required", None, account.revision, None, None,
                  account.remote, account.remoteOwner, account.command)
  <2>1. Alone(t) /\ thread'[t] = Idle /\ thread'[t].pc = "idle" /\ \A u \in Threads \ {t} : thread'[u] = thread[u]
    BY <1>1 DEF Gone, Alone
  <2>2. /\ account' \in AccountRows /\ account'.status = "active"
        /\ account'.cred = "reauthorization_required"
        /\ account'.blob = None /\ account'.remote = None /\ account'.command = None
    BY <1>4 DEF Row, IInv, AccountInv
  <2>3. LeaseInv' /\ lease' \in [Leases -> {"none", "open", "redeemed", "deleted"}]
    <3>1. \A u \in Threads : thread'[u].pc \in Redeeming =>
           thread[u].pc \in Redeeming /\ thread'[u].key = thread[u].key
      BY <1>2, <2>1
    <3> QED
      BY <1>1, <1>4, <3>1, LeasesDropped
  <2>4. Shapes'
    BY <1>1, <2>1, <2>2, <2>3 DEF IInv, Shapes, Alone
  <2>5. AccountInv'
    <3>1. /\ None # "pending" /\ \A k \in Tokens : None # k
      BY AccountAssumption DEF Tokens
    <3>2. \A k \in Tokens : submitted[k] <= 1 /\ (k > minted => submitted[k] = 0 /\ origin[k] = None)
      BY DEF IInv, AccountInv
    <3> QED
      BY <1>1, <2>2, <3>1, <3>2 DEF AccountInv
  <2>6. ProcessInv' /\ CommandInv' /\ RemoteInv' /\ SessionInv'
    <3>1. account.status # "unlinked" /\ account'.status # "unlinked" /\ account'.remote # "pending"
      BY <1>4, <2>2, AccountAssumption
    <3> QED
      BY <1>1, <1>2, <2>1, <3>1, RedeemRest
  <2>7. LockInv'
    BY <1>1, <1>2, LockGone
  <2>8. TraceInv'
    BY <2>2 DEF TraceInv, Traced, GrantGone
  <2> QED
    BY <2>3, <2>4, <2>5, <2>6, <2>7, <2>8 DEF IInv
<1> QED
  BY <1>3, <1>4, FailEffect

(* The refresh token goes to GitHub, once. *)
LEMMA RefreshStep ==
  ASSUME IInv, NEW t \in Threads, RefreshAtGitHub(t)
  PROVE  IInv'
<1>1. /\ thread[t].pc = "refresh" /\ thread[t].tok \in 1..minted /\ thread[t].tok \in Tokens
      /\ UNCHANGED <<session, account, lease, command, inst, handed>>
      /\ submitted' \in [Tokens -> Nat] /\ submitted'[thread[t].tok] = submitted[thread[t].tok] + 1
      /\ \A k \in Tokens \ {thread[t].tok} : submitted'[k] = submitted[k]
  BY RefreshEffect
<1>2. thread[t].pc \in Redeeming /\ thread[t].pc \in Locking /\ minted \in Nat
      /\ {"finish", "fail"} \subseteq Redeeming
  BY <1>1 DEF Redeeming, Locking, IInv, Shapes
<1>3. /\ account.status # "none" /\ submitted[thread[t].tok] = 0
      /\ \A u \in Threads \ {t} : thread[u].pc \notin Locking
      /\ account.status = "active" => HasClaim(t) /\ account.revision = thread[t].revision
      /\ account.status = "active" => account.blob = thread[t].tok
  BY <1>1, <1>2 DEF IInv, LockInv, LockOK
<1>4. thread[t].inst \in Instances /\ inst[thread[t].inst].phase = "serving"
  BY <1>2, RedeemOf
<1>5. account.status = "active" => account.cred = "refresh_pending"
  BY <1>3 DEF HasClaim
<1>6. account.status # "active" => account.blob = None /\ account.cred = "ready"
  BY DEF IInv, AccountInv
<1>7. ASSUME NEW pc \in {"finish", "fail"}, Alone(t), thread'[t].pc = pc, thread'[t].key = thread[t].key,
             thread'[t].inst = thread[t].inst, thread'[t].revision = thread[t].revision,
             \/ /\ UNCHANGED <<live, minted, origin>> /\ pc = "fail" /\ thread'[t].tok = thread[t].tok
             \/ /\ thread[t].tok \in live /\ Minted("refresh", {thread[t].tok})
                /\ thread'[t].tok = IF pc = "finish" THEN minted + 1 ELSE thread[t].tok
      PROVE  IInv'
  <2>1. /\ \A u \in Threads \ {t} : thread'[u] = thread[u] /\ thread'[u].pc \notin Locking
        /\ thread' \in [Threads -> Locals]
    BY <1>3, <1>7 DEF Alone
  <2>2. /\ minted' \in 0..MaxToken /\ minted' \in Nat /\ minted <= minted' /\ live' \subseteq 1..minted'
        /\ origin' \in [Tokens -> Sessions \cup {None, "refresh", "rejected"}]
        /\ live' \subseteq live \cup {minted + 1}
        /\ thread'[t].tok \in 1..minted'
    <3>1. CASE UNCHANGED <<live, minted, origin>> /\ thread'[t].tok = thread[t].tok
      BY <1>1, <1>2, <3>1 DEF IInv, Shapes
    <3>2. CASE Minted("refresh", {thread[t].tok}) /\ thread'[t].tok \in {minted + 1, thread[t].tok}
      BY <1>1, <1>2, <3>2 DEF Minted
    <3> QED
      BY <1>7, <3>1, <3>2
  <2>3. /\ \A k \in Tokens, s \in Sessions : (origin'[k] = s) <=> (origin[k] = s)
        /\ \A k \in live', s \in Sessions : origin'[k] = s => k \in live
        /\ \A k \in live : origin'[k] = origin[k]
        /\ \A k \in Tokens : k > minted' => origin'[k] = None /\ submitted'[k] = 0
    <3>1. \A k \in Tokens : k > minted => submitted'[k] = 0 /\ origin[k] = None
      BY <1>1, <1>2 DEF IInv, AccountInv
    <3>2. None \notin Sessions /\ "refresh" \notin Sessions
      BY AccountAssumption DEF Keys
    <3>3. CASE UNCHANGED <<live, minted, origin>>
      BY <3>1, <3>3
    <3>4. CASE Minted("refresh", {thread[t].tok})
      <4>1. /\ minted + 1 \in Tokens /\ minted' = minted + 1 /\ origin'[minted + 1] = "refresh"
            /\ \A k \in Tokens \ {minted + 1} : origin'[k] = origin[k]
            /\ live' = (live \ {thread[t].tok}) \cup {minted + 1}
        BY <3>4 DEF Minted
      <4>2. minted + 1 > minted /\ live \subseteq Tokens /\ minted + 1 \notin live
        BY <1>2, AccountAssumption DEF IInv, Shapes, Tokens
      <4>3. \A k \in Tokens, s \in Sessions : (origin'[k] = s) <=> (origin[k] = s)
        BY <3>1, <3>2, <4>1, <4>2
      <4>4. \A k \in live', s \in Sessions : origin'[k] = s => k \in live
        BY <3>2, <4>1
      <4>5. \A k \in Tokens : k > minted' => k > minted /\ k # minted + 1
        BY <1>2, <4>1 DEF Tokens
      <4> QED
        BY <3>1, <4>1, <4>2, <4>3, <4>4, <4>5
    <3> QED
      BY <1>7, <3>3, <3>4
  <2>4. Shapes'
    BY <1>1, <2>1, <2>2 DEF IInv, Shapes
  <2>5. AccountInv'
    <3>1. \A k \in Tokens : submitted'[k] <= 1
      BY <1>1, <1>3 DEF IInv, AccountInv
    <3>2. account.blob \in 1..minted' \cup {None}
      BY <1>2, <2>2 DEF IInv, AccountInv
    <3>3. account.cred = "ready" => \A k \in Tokens : account.blob # k
      BY <1>5, <1>6, AccountAssumption DEF Tokens
    <3> QED
      BY <1>1, <1>3, <2>3, <3>1, <3>2, <3>3 DEF IInv, AccountInv
  <2>6. ProcessInv' /\ CommandInv' /\ RemoteInv' /\ SessionInv' /\ Kept({"set_status"})
    BY <1>1, <1>2, <1>4, <1>7, <2>2, <2>3, RedeemRest
  <2>7. LeaseInv'
    <3>1. \A u \in Threads : thread'[u].pc \in Redeeming =>
           thread[u].pc \in Redeeming /\ thread'[u].key = thread[u].key
      BY <1>2, <1>7 DEF Alone
    <3> QED
      BY <1>1, <3>1, LeaseKept DEF IInv
  <2>8. LockInv'
    <3>1. HasClaim(t)' <=> HasClaim(t)
      BY <1>1, <1>7 DEF HasClaim
    <3>2. CASE pc = "fail"
      <4>1. LockOK(t)'
        BY <1>1, <1>3, <1>7, <2>1, <2>2, <3>1, <3>2 DEF LockOK
      <4> QED
        BY <2>1, <4>1 DEF LockInv, LockOK
    <3>3. CASE pc = "finish"
      <4>1. Minted("refresh", {thread[t].tok}) /\ thread'[t].tok = minted + 1
        BY <1>7, <3>3
      <4>2. /\ minted + 1 \in Tokens /\ minted + 1 > minted /\ minted + 1 # thread[t].tok
            /\ live' = (live \ {thread[t].tok}) \cup {minted + 1}
        BY <1>1, <1>2, <4>1 DEF Minted
      <4>3. submitted'[minted + 1] = 0
        BY <1>1, <4>2 DEF IInv, AccountInv
      <4>4. account.status = "active" => account.blob \notin live'
        BY <1>3, <4>2
      <4>5. LockOK(t)'
        BY <1>1, <1>3, <1>7, <2>1, <2>2, <3>1, <3>3, <4>1, <4>3, <4>4 DEF LockOK
      <4> QED
        BY <2>1, <4>5 DEF LockInv, LockOK
    <3> QED
      BY <3>2, <3>3
  <2>9. TraceInv'
    <3>1. GrantGone' <=> GrantGone
      BY <1>1, <2>6 DEF GrantGone, Kept
    <3>2. GrantGone => thread[t].tok \notin live
      BY <1>1 DEF IInv, TraceInv
    <3>3. \A u \in Threads \ {t} : thread[u].pc \notin {"refresh", "finish"} /\ thread'[u].pc \notin {"refresh", "finish"}
      BY <1>3, <2>1 DEF Locking
    <3>4. GrantGone' => \A u \in Threads : thread'[u].pc \in {"refresh", "finish"} => thread'[u].tok \notin live'
      BY <1>7, <3>1, <3>2, <3>3
    <3>5. ASSUME NEW k \in live \cap live' PROVE Traced(k)'
      <4>1. Traced(k) /\ origin'[k] = origin[k]
        BY <2>3 DEF IInv, TraceInv
      <4>2. CASE account.blob = k \/ account.cred = "reauthorization_required" \/ (account.status = "unlinked" /\ ~GrantGone)
        BY <1>1, <3>1, <4>2 DEF Traced
      <4>3. CASE \E s \in Sessions : /\ origin[k] = s
                         /\ \/ session[s].status \in {"processing", "pruned"}
                            \/ session[s].outcome \in {"failed", "unknown"}
        BY <1>1, <4>1, <4>3 DEF Traced
      <4> QED
        BY <1>1, <3>3, <4>1, <4>2, <4>3 DEF Traced
    <3>6. ASSUME NEW k \in live' \ live PROVE Traced(k)'
      <4>1. thread[t].tok \in live /\ k = minted + 1 /\ thread'[t].tok = (IF pc = "finish" THEN minted + 1 ELSE thread[t].tok)
        BY <1>7, <2>2
      <4>2. ~GrantGone'
        BY <3>1, <3>2, <4>1
      <4>3. CASE account.status = "unlinked"
        BY <1>1, <4>2, <4>3 DEF Traced
      <4>4. CASE account.status = "active" /\ pc = "finish"
        BY <1>1, <1>7, <4>1, <4>4 DEF Traced
      <4>5. CASE account.status = "active" /\ pc = "fail"
        BY <1>1, <1>5, <1>7, <3>3, <4>5 DEF Traced
      <4>6. account.status \in {"none", "active", "unlinked"}
        BY DEF IInv, Shapes, AccountRows
      <4> QED
        BY <1>3, <4>3, <4>4, <4>5, <4>6
    <3> QED
      BY <3>4, <3>5, <3>6 DEF TraceInv
  <2> QED
    BY <2>4, <2>5, <2>6, <2>7, <2>8, <2>9 DEF IInv
<1>8. ASSUME thread[t].tok \in live, Minted("refresh", {thread[t].tok}),
             Stays(t, "finish", minted + 1, thread[t].revision, thread[t].outcome)
      PROVE  IInv'
  BY <1>7, <1>8 DEF Stays, Moved, Alone
<1>9. ASSUME Stays(t, "fail", thread[t].tok, thread[t].revision, thread[t].outcome),
             \/ thread[t].tok \in live /\ Minted("refresh", {thread[t].tok})
             \/ UNCHANGED <<live, minted, origin>>
      PROVE  IInv'
  BY <1>7, <1>9 DEF Stays, Moved, Alone
<1> QED
  BY <1>8, <1>9, RefreshEffect

-----------------------------------------------------------------------------
(* The commands keep the invariant. *)

(* What a step of a command leaves alone. *)
LEMMA CommandRest ==
  ASSUME IInv, NEW t \in Threads, Alone(t), thread[t].pc \in Commanding \cup {"idle"}, inst' = inst,
         \/ thread'[t] = Idle
         \/ /\ thread'[t].pc \in Commanding /\ thread'[t].inst \in Instances
            /\ inst[thread'[t].inst].phase = "serving"
  PROVE  /\ ProcessInv' /\ Kept(Callback) /\ Kept(Redeeming) /\ Kept(Locking) /\ Kept({"refresh", "finish"})
         /\ \A u \in Threads : thread'[u].pc \in Redeeming =>
              thread[u].pc \in Redeeming /\ thread'[u].key = thread[u].key
<1>1. thread'[t].pc \in Commanding \cup {"idle"}
  BY IdleTyped
<1>2. Kept(Callback) /\ Kept(Redeeming) /\ Kept(Locking) /\ Kept({"refresh", "finish"})
  <2>1. \A pc \in Commanding \cup {"idle"} : pc \notin Callback /\ pc \notin Redeeming /\ pc \notin Locking
          /\ pc \notin {"refresh", "finish"}
    BY DEF Callback, Redeeming, Locking, Creating, Commanding, Unlinking, Revoking
  <2> QED
    BY <1>1, <2>1, AloneKeeps
<1>3. ProcessInv'
  <2>1. "idle" \notin Commanding
    BY DEF Commanding, Creating, Unlinking, Revoking
  <2> QED
    BY <2>1, ProcessKept DEF IInv
<1> QED
  BY <1>2, <1>3 DEF Kept

(* A command that goes on in the same process. *)
LEMMA CommandServes ==
  ASSUME IInv, NEW t \in Threads, thread[t].pc \in Commanding
  PROVE  thread[t].inst \in Instances /\ inst[thread[t].inst].phase = "serving"
<1>1. thread[t].pc # "idle"
  BY DEF Commanding, Creating, Unlinking, Revoking
<1> QED
  BY <1>1, ServingOf DEF IInv

(* A command gets its answer and its thread is done. *)
LEMMA CommandEnds ==
  ASSUME IInv, NEW t \in Threads, thread[t].pc \in Commanding, Gone(t), NEW a \in CommandValues \ {"none", "pending"},
         CommandSet(thread[t].key, a), inst' = inst,
         \A s \in Sessions : session'[s].status # "none" => session[s].status # "none" \/ s = thread[t].key
  PROVE  CommandInv'
<1>1. /\ thread[t].key \in Keys /\ command[thread[t].key] = "pending"
      /\ \A u \in Threads \ {t} : thread[u].pc \in Commanding => thread[u].key # thread[t].key
  BY CommandOf DEF IInv, CommandInv
<1>2. command'[thread[t].key] = a /\ \A k \in Keys \ {thread[t].key} : command'[k] = command[k]
  BY DEF CommandSet
<1>3. "idle" \notin Commanding /\ thread'[t].pc = "idle" /\ \A u \in Threads \ {t} : thread'[u] = thread[u]
  BY DEF Commanding, Creating, Unlinking, Revoking, Gone
<1>4. ASSUME NEW u \in Threads, thread'[u].pc \in Commanding
      PROVE
       /\ thread'[u].key \in (IF thread'[u].pc \in Creating THEN Sessions ELSE Unlinks)
       /\ command'[thread'[u].key] = "pending"
       /\ \A v \in Threads \ {u} : thread'[v].pc \in Commanding => thread'[v].key # thread'[u].key
  <2>1. u # t /\ thread'[u] = thread[u] /\ thread[u].pc \in Commanding
    BY <1>3, <1>4
  <2>2. /\ thread[u].key \in (IF thread[u].pc \in Creating THEN Sessions ELSE Unlinks)
        /\ command[thread[u].key] = "pending" /\ thread[u].key \in Keys /\ thread[u].key # thread[t].key
        /\ \A v \in Threads \ {u} : thread[v].pc \in Commanding => thread[v].key # thread[u].key
    BY <1>1, <2>1, CommandOf DEF IInv, CommandInv
  <2> QED
    BY <1>2, <1>3, <2>1, <2>2
<1>5. ASSUME NEW k \in Keys, command'[k] = "pending"
      PROVE  Someone(Commanding, k)' \/ ~Phase({"serving"})'
  <2>1. k # thread[t].key /\ command[k] = "pending"
    BY <1>2, <1>5
  <2>2. CASE Someone(Commanding, k)
    BY <1>3, <2>1, <2>2 DEF Someone
  <2>3. CASE ~Phase({"serving"})
    BY <2>3 DEF Phase
  <2> QED
    BY <2>1, <2>2, <2>3 DEF IInv, CommandInv
<1>6. \A i \in Instances : inst'[i].phase = "commands" =>
       \A k \in Keys : command'[k] = "pending" => k \in inst'[i].todo
  BY <1>2 DEF IInv, CommandInv
<1>7. ASSUME NEW s \in Sessions, session'[s].status # "none"
      PROVE  command'[s] \notin {"none", "pending"}
  <2>1. s \in Keys
    BY DEF Keys
  <2>2. CASE s = thread[t].key
    BY <1>2, <2>2
  <2>3. CASE s # thread[t].key
    BY <1>2, <1>7, <2>1, <2>3 DEF IInv, CommandInv
  <2> QED
    BY <2>2, <2>3
<1> QED
  BY <1>4, <1>5, <1>6, <1>7 DEF CommandInv

(* A thread reserves a new command. *)
LEMMA ReserveStep ==
  ASSUME IInv, NEW t \in Threads, NEW i \in Instances, NEW k \in Keys, NEW pc \in {"create_session", "read"},
         k \in (IF pc = "create_session" THEN Sessions ELSE Unlinks),
         thread[t].pc = "idle", inst[i].phase = "serving", command[k] = "none",
         Moved(t, pc, i, k, None, 0, None), CommandSet(k, "pending"),
         UNCHANGED <<session, account, lease, live, minted, submitted, origin, inst, handed>>
  PROVE  IInv'
<1>1. Alone(t) /\ thread'[t].pc = pc /\ thread'[t].key = k /\ thread'[t].inst = i
      /\ \A u \in Threads \ {t} : thread'[u] = thread[u]
  BY DEF Moved, Alone
<1>2. minted \in Nat /\ pc \in Commanding /\ "idle" \notin Commanding /\ (pc \in Creating <=> pc = "create_session")
  BY DEF IInv, Shapes, Commanding, Creating, Unlinking, Revoking
<1>3. /\ command' \in [Keys -> CommandValues] /\ command'[k] = "pending"
      /\ \A m \in Keys \ {k} : command'[m] = command[m]
  BY DEF CommandSet
<1>4. /\ ProcessInv' /\ Kept(Callback) /\ Kept(Redeeming) /\ Kept(Locking) /\ Kept({"refresh", "finish"})
      /\ \A u \in Threads : thread'[u].pc \in Redeeming =>
           thread[u].pc \in Redeeming /\ thread'[u].key = thread[u].key
  BY <1>1, <1>2, CommandRest
<1>5. Shapes'
  BY <1>1, <1>3 DEF IInv, Shapes, Alone
<1>6. AccountInv' /\ LockInv' /\ LeaseInv' /\ SessionInv'
  <2>1. AccountInv'
    BY AccountKept DEF IInv
  <2>2. LockInv'
    BY <1>2, <1>4, LockKept DEF IInv
  <2>3. LeaseInv'
    BY <1>4, LeaseKept DEF IInv
  <2>4. SessionInv'
    BY <1>2, <1>4, SessionKept DEF IInv
  <2> QED
    BY <2>1, <2>2, <2>3, <2>4
<1>7. TraceInv'
  <2>1. Kept({"refresh", "finish", "set_status"})
    BY <1>1, AloneKeeps
  <2> QED
    BY <2>1, TraceKept DEF IInv
<1>8. RemoteInv'
  <2>1. Kept(Ending)
    BY <1>1, AloneKeeps DEF Ending, Revoking
  <2>2. \A m \in Unlinks : command'[m] \in Answers => command'[m] = command[m]
    BY <1>3 DEF Keys, Answers
  <2> QED
    BY <2>1, <2>2, RemoteKept DEF IInv
<1>9. CommandInv'
  <2>1. \A u \in Threads : thread[u].pc \in Commanding => thread[u].key # k /\ thread[u].key \in Keys
    BY CommandOf
  <2>2. ASSUME NEW u \in Threads, thread'[u].pc \in Commanding
        PROVE
         /\ thread'[u].key \in (IF thread'[u].pc \in Creating THEN Sessions ELSE Unlinks)
         /\ command'[thread'[u].key] = "pending"
         /\ \A v \in Threads \ {u} : thread'[v].pc \in Commanding => thread'[v].key # thread'[u].key
    <3>1. CASE u = t
      BY <1>1, <1>2, <1>3, <2>1, <3>1
    <3>2. CASE u # t
      <4>1. thread'[u] = thread[u] /\ thread[u].pc \in Commanding
        BY <1>1, <2>2, <3>2
      <4>2. /\ thread[u].key \in (IF thread[u].pc \in Creating THEN Sessions ELSE Unlinks)
            /\ command[thread[u].key] = "pending" /\ thread[u].key \in Keys /\ thread[u].key # k
            /\ \A v \in Threads \ {u} : thread[v].pc \in Commanding => thread[v].key # thread[u].key
        BY <2>1, <4>1 DEF IInv, CommandInv
      <4> QED
        BY <1>1, <1>3, <4>1, <4>2
    <3> QED
      BY <3>1, <3>2
  <2>3. ASSUME NEW m \in Keys, command'[m] = "pending"
        PROVE  Someone(Commanding, m)' \/ ~Phase({"serving"})'
    <3>1. CASE m = k
      BY <1>1, <1>2, <3>1 DEF Someone
    <3>2. CASE m # k
      <4>1. Phase({"serving"}) /\ command[m] = "pending"
        BY <1>3, <2>3, <3>2 DEF Phase
      <4>2. PICK u \in Threads : thread[u].pc \in Commanding /\ thread[u].key = m
        BY <4>1 DEF IInv, CommandInv, Someone
      <4>3. u # t
        BY <1>2, <4>2
      <4> QED
        BY <1>1, <4>2, <4>3 DEF Someone
    <3> QED
      BY <3>1, <3>2
  <2>4. \A j \in Instances : inst'[j].phase # "commands"
    BY DEF IInv, ProcessInv, Running
  <2>5. \A s \in Sessions : session'[s].status # "none" => command'[s] \notin {"none", "pending"}
    BY <1>3 DEF IInv, CommandInv, Keys
  <2> QED
    BY <2>2, <2>3, <2>4, <2>5 DEF CommandInv
<1> QED
  BY <1>4, <1>5, <1>6, <1>7, <1>8, <1>9 DEF IInv

(* What a step of a command that does not write the account leaves alone. *)
LEMMA CommandQuiet ==
  ASSUME IInv, NEW t \in Threads, Alone(t), thread[t].pc \in Commanding,
         \/ thread'[t] = Idle
         \/ thread'[t].pc \in Commanding /\ thread'[t].inst = thread[t].inst,
         UNCHANGED <<account, lease, minted, submitted, origin, inst, handed>>, live' \subseteq live,
         \A s \in Sessions : \/ session'[s] = session[s]
                             \/ session[s].status = "none" /\ session'[s].status = "pending"
  PROVE  /\ ProcessInv' /\ AccountInv' /\ LockInv' /\ LeaseInv' /\ SessionInv'
         /\ Kept({"refresh", "finish"})
<1>1. thread[t].inst \in Instances /\ inst[thread[t].inst].phase = "serving"
  BY CommandServes
<1>2. /\ ProcessInv' /\ Kept(Callback) /\ Kept(Redeeming) /\ Kept(Locking) /\ Kept({"refresh", "finish"})
      /\ \A u \in Threads : thread'[u].pc \in Redeeming =>
           thread[u].pc \in Redeeming /\ thread'[u].key = thread[u].key
  BY <1>1, CommandRest
<1>3. minted \in Nat /\ live \subseteq Tokens
  BY AccountAssumption DEF IInv, Shapes, Tokens
<1>4. AccountInv'
  BY AccountKept DEF IInv
<1>5. LockInv'
  BY <1>2, <1>3, LockKept DEF IInv
<1>6. LeaseInv'
  BY <1>2, LeaseKept DEF IInv
<1>7. SessionInv'
  BY <1>2, <1>3, SessionKept DEF IInv
<1> QED
  BY <1>2, <1>4, <1>5, <1>6, <1>7

(* The row and its revocation stay, and thread t moves at most within it. *)
LEMMA RemoteMoves ==
  ASSUME RemoteInv, NEW t \in Threads, Alone(t), UNCHANGED <<account, inst>>,
         \A k \in Unlinks : command'[k] \in Answers => command'[k] = command[k],
         thread'[t].pc \in Revoking =>
           thread[t].pc \in Revoking /\ thread'[t].key = thread[t].key /\ thread'[t].inst = thread[t].inst,
         thread[t].pc \in Revoking /\ thread'[t].pc \notin Revoking => account.remote # "pending",
         thread'[t].pc = "set_status" => thread'[t].outcome \in Revoked,
         thread'[t].pc = "unlink" /\ thread'[t].tok = None =>
           /\ thread'[t].outcome \in {"unlinked", "revocation_unknown"}
           /\ thread'[t].outcome = "unlinked" => account.status = "unlinked"
  PROVE  RemoteInv'
<1>0. \A u \in Threads \ {t} : thread'[u] = thread[u]
  BY DEF Alone
<1>1. \A k \in Unlinks : command'[k] \in Answers =>
       account'.status = "unlinked" /\ account'.remote \in Revoked /\ AnswerOf(account'.remote) = command'[k]
  BY DEF RemoteInv
<1>2. ASSUME NEW u \in Threads
      PROVE
       /\ thread'[u].pc \in Revoking => account'.status = "unlinked"
       /\ thread'[u].pc \in Revoking => \A v \in Threads \ {u} : thread'[v].pc \notin Revoking
       /\ thread'[u].pc = "set_status" => thread'[u].outcome \in Revoked
       /\ thread'[u].pc = "unlink" /\ thread'[u].tok = None =>
            /\ thread'[u].outcome \in {"unlinked", "revocation_unknown"}
            /\ thread'[u].outcome = "unlinked" => account'.status = "unlinked"
  <2>1. \A v \in Threads : thread'[v].pc \in Revoking => thread[v].pc \in Revoking
    BY <1>0
  <2>2. CASE u = t
    BY <2>1, <2>2 DEF RemoteInv
  <2>3. CASE u # t
    BY <1>0, <2>1, <2>3 DEF RemoteInv
  <2> QED
    BY <2>2, <2>3
<1>3. account'.remote = "pending" /\ SomeRunning' =>
       \E u \in Threads : /\ thread'[u].pc \in Revoking /\ thread'[u].key = account'.command
                          /\ thread'[u].inst = account'.remoteOwner
  <2> SUFFICES ASSUME account'.remote = "pending", SomeRunning'
               PROVE  \E u \in Threads : /\ thread'[u].pc \in Revoking /\ thread'[u].key = account'.command
                                         /\ thread'[u].inst = account'.remoteOwner
    OBVIOUS
  <2>1. account' = account /\ SomeRunning
    BY DEF SomeRunning, Running
  <2>2. PICK u \in Threads : /\ thread[u].pc \in Revoking /\ thread[u].key = account.command
                             /\ thread[u].inst = account.remoteOwner
    BY <2>1 DEF RemoteInv
  <2>3. CASE u = t
    BY <2>1, <2>2, <2>3
  <2>4. CASE u # t
    BY <1>0, <2>1, <2>2, <2>4
  <2> QED
    BY <2>3, <2>4
<1> QED
  BY <1>1, <1>2, <1>3 DEF RemoteInv

(* The session is created with the answer of its command. *)
LEMMA CreateSessionStep ==
  ASSUME IInv, NEW t \in Threads, CreateSession(t)
  PROVE  IInv'
<1>1. /\ thread[t].pc = "create_session" /\ thread[t].key \in Sessions /\ Gone(t)
      /\ CommandSet(thread[t].key, "value")
      /\ SessionSet(thread[t].key, "pending", session[thread[t].key].blob, session[thread[t].key].outcome)
      /\ UNCHANGED <<account, lease, live, minted, submitted, origin, inst, handed>>
  BY CreateSessionEffect
<1>2. thread[t].pc \in Commanding /\ "idle" \notin Ending /\ thread[t].pc \notin Ending /\ "idle" \notin Revoking
      /\ thread[t].pc \notin Revoking
  BY <1>1 DEF Commanding, Creating, Ending, Unlinking, Revoking
<1>3. Alone(t) /\ thread'[t] = Idle /\ thread'[t].pc = "idle"
  BY <1>1 DEF Gone, Alone
<1>4. session[thread[t].key].status = "none"
  BY <1>1, <1>2, CommandOf DEF IInv, CommandInv
<1>5. \A s \in Sessions : \/ session'[s] = session[s]
                          \/ session[s].status = "none" /\ session'[s].status = "pending"
  BY <1>1, <1>4 DEF SessionSet
<1>6. /\ ProcessInv' /\ AccountInv' /\ LockInv' /\ LeaseInv' /\ SessionInv'
  BY <1>1, <1>2, <1>3, <1>5, CommandQuiet
<1>7. Shapes'
  BY <1>1, <1>3 DEF IInv, Shapes, Alone, SessionSet, CommandSet
<1>8. CommandInv'
  BY <1>1, <1>2, <1>5, CommandEnds DEF CommandValues, SessionSet
<1>9. RemoteInv'
  <2>1. \A k \in Unlinks : command'[k] \in Answers => command'[k] = command[k]
    BY <1>1 DEF CommandSet, Keys, Answers
  <2> QED
    BY <1>1, <1>2, <1>3, <2>1, RemoteMoves DEF IInv
<1>10. TraceInv'
  <2>1. Kept({"refresh", "finish", "set_status"})
    BY <1>1, <1>3, AloneKeeps
  <2>2. \A k \in live, s \in Sessions : origin[k] = s => session'[s] = session[s]
    <3>1. live \subseteq Tokens
      BY AccountAssumption DEF IInv, Shapes, Tokens
    <3>2. \A k \in Tokens : origin[k] # thread[t].key
      BY <1>1, <1>4 DEF IInv, SessionInv
    <3> QED
      BY <1>1, <3>1, <3>2 DEF SessionSet
  <2> QED
    BY <1>1, <2>1, <2>2, TraceKept DEF IInv
<1> QED
  BY <1>6, <1>7, <1>8, <1>9, <1>10 DEF IInv

(* A failed unlink is answered with its error. *)
LEMMA RecordErrorStep ==
  ASSUME IInv, NEW t \in Threads, RecordError(t)
  PROVE  IInv'
<1>1. /\ thread[t].pc = "record_error" /\ CommandSet(thread[t].key, "error") /\ Gone(t)
      /\ UNCHANGED <<session, account, lease, live, minted, submitted, origin, inst, handed>>
  BY RecordErrorEffect
<1>2. thread[t].pc \in Commanding /\ thread[t].pc \notin Revoking /\ "idle" \notin Revoking
  BY <1>1 DEF Commanding, Unlinking, Revoking
<1>3. Alone(t) /\ thread'[t] = Idle /\ thread'[t].pc = "idle"
  BY <1>1 DEF Gone, Alone
<1>4. /\ ProcessInv' /\ AccountInv' /\ LockInv' /\ LeaseInv' /\ SessionInv'
  BY <1>1, <1>2, <1>3, CommandQuiet
<1>5. Shapes'
  BY <1>1, <1>3 DEF IInv, Shapes, Alone, CommandSet
<1>6. CommandInv'
  BY <1>1, <1>2, CommandEnds DEF CommandValues
<1>7. RemoteInv'
  <2>1. \A k \in Unlinks : command'[k] \in Answers => command'[k] = command[k]
    BY <1>1 DEF CommandSet, Keys, Answers
  <2> QED
    BY <1>1, <1>2, <1>3, <2>1, RemoteMoves DEF IInv
<1>8. TraceInv'
  <2>1. Kept({"refresh", "finish", "set_status"})
    BY <1>1, <1>3, AloneKeeps
  <2> QED
    BY <1>1, <2>1, TraceKept DEF IInv
<1> QED
  BY <1>4, <1>5, <1>6, <1>7, <1>8 DEF IInv

(* An unlink that goes on without a word to the store. *)
LEMMA UnlinkGoes ==
  ASSUME IInv, NEW t \in Threads, thread[t].pc \in Unlinking, NEW pc \in Unlinking, NEW tok, NEW n, NEW o,
         Stays(t, pc, tok, n, o), live' \subseteq live,
         UNCHANGED <<session, account, lease, command, minted, submitted, origin, inst, handed>>
  PROVE  /\ ProcessInv' /\ AccountInv' /\ LockInv' /\ LeaseInv' /\ SessionInv' /\ CommandInv' /\ Shapes'
         /\ Kept({"refresh", "finish"}) /\ Alone(t) /\ thread'[t].pc = pc /\ thread'[t].key = thread[t].key
         /\ thread'[t].inst = thread[t].inst /\ thread'[t].tok = tok /\ thread'[t].outcome = o
<1>1. /\ Alone(t) /\ thread'[t].pc = pc /\ thread'[t].key = thread[t].key /\ thread'[t].inst = thread[t].inst
      /\ thread'[t].tok = tok /\ thread'[t].outcome = o
  BY DEF Stays, Moved, Alone
<1>2. \A p \in Unlinking : p \in Commanding /\ p \notin Creating
  BY DEF Commanding, Creating, Unlinking, Revoking
<1>3. /\ ProcessInv' /\ AccountInv' /\ LockInv' /\ LeaseInv' /\ SessionInv' /\ Kept({"refresh", "finish"})
  BY <1>1, <1>2, CommandQuiet
<1>4. CommandInv'
  <2>1. \A u \in Threads : /\ thread'[u].pc \in Creating <=> thread[u].pc \in Creating
                           /\ thread'[u].pc \in Commanding <=> thread[u].pc \in Commanding
                           /\ thread[u].pc \in Commanding => thread'[u].key = thread[u].key
    BY <1>1, <1>2 DEF Alone
  <2> QED
    BY <2>1, CommandKept DEF IInv
<1>5. Shapes'
  BY <1>1 DEF IInv, Shapes, Alone
<1> QED
  BY <1>1, <1>3, <1>4, <1>5

(* unlink reads the account. *)
LEMMA ReadAccountStep ==
  ASSUME IInv, NEW t \in Threads, ReadAccount(t)
  PROVE  IInv'
<1>1. /\ thread[t].pc = "read"
      /\ UNCHANGED <<session, account, lease, command, live, minted, submitted, origin, inst, handed>>
  BY ReadAccountEffect
<1>2. /\ thread[t].pc \in Unlinking /\ thread[t].pc \notin Revoking /\ {"record_error", "unlink"} \subseteq Unlinking
      /\ "record_error" \notin Revoking /\ "unlink" \notin Revoking
  BY <1>1 DEF Unlinking, Revoking
<1>3. PICK pc \in {"record_error", "unlink"}, tok \in Tokens \cup {None}, o \in Outcomes :
        /\ Stays(t, pc, tok, thread[t].revision, o)
        /\ pc = "unlink" /\ tok = None =>
             /\ o \in {"unlinked", "revocation_unknown"}
             /\ o = "unlinked" => account.status = "unlinked"
  <2>1. thread[t].tok \in Tokens \cup {None} /\ thread[t].outcome \in Outcomes
    BY DEF IInv, Shapes, Locals
  <2>2. CASE Stays(t, "record_error", thread[t].tok, thread[t].revision, thread[t].outcome)
    BY <2>1, <2>2
  <2>3. CASE /\ account.blob \in Tokens /\ account.blob # None
             /\ Stays(t, "unlink", account.blob, thread[t].revision, thread[t].outcome)
    BY <2>1, <2>3
  <2>4. CASE \E o \in {"unlinked", "revocation_unknown"} :
                 /\ Stays(t, "unlink", thread[t].tok, thread[t].revision, o)
                 /\ o = "unlinked" => account.status = "unlinked"
    BY <2>1, <2>4 DEF Outcomes, Answers
  <2> QED
    BY <2>2, <2>3, <2>4, ReadAccountEffect
<1>4. /\ ProcessInv' /\ AccountInv' /\ LockInv' /\ LeaseInv' /\ SessionInv' /\ CommandInv' /\ Shapes'
      /\ Alone(t) /\ thread'[t].pc = pc /\ thread'[t].tok = tok /\ thread'[t].outcome = o
  <2>1. pc \in Unlinking
    BY <1>2
  <2> QED
    BY <1>1, <1>2, <1>3, <2>1, UnlinkGoes
<1>5. RemoteInv'
  BY <1>1, <1>2, <1>3, <1>4, RemoteMoves DEF IInv
<1>6. TraceInv'
  <2>1. Kept({"refresh", "finish", "set_status"})
    BY <1>1, <1>4, AloneKeeps
  <2> QED
    BY <1>1, <2>1, TraceKept DEF IInv
<1> QED
  BY <1>4, <1>5, <1>6 DEF IInv

(* The revocation of an unlink ends, with or without an answer. *)
LEMMA RevokeRemoteStep ==
  ASSUME IInv, NEW t \in Threads, RevokeRemote(t)
  PROVE  IInv'
<1>1. /\ thread[t].pc = "revoke_remote" /\ live' \subseteq live
      /\ UNCHANGED <<session, account, lease, command, minted, submitted, origin, inst, handed>>
  BY RevokeRemoteEffect
<1>2. PICK o \in Revoked : /\ o = "revoked" => live' = {}
                           /\ Stays(t, "set_status", None, thread[t].revision, o)
  BY RevokeRemoteEffect
<1>3. thread[t].pc \in Unlinking /\ thread[t].pc \in Revoking /\ "set_status" \in Unlinking /\ "set_status" \in Revoking
  BY <1>1 DEF Unlinking, Revoking
<1>4. /\ ProcessInv' /\ AccountInv' /\ LockInv' /\ LeaseInv' /\ SessionInv' /\ CommandInv' /\ Shapes'
      /\ Kept({"refresh", "finish"}) /\ Alone(t) /\ thread'[t].pc = "set_status" /\ thread'[t].key = thread[t].key
      /\ thread'[t].inst = thread[t].inst /\ thread'[t].tok = None /\ thread'[t].outcome = o
  BY <1>1, <1>2, <1>3, UnlinkGoes
<1>5. RemoteInv'
  BY <1>1, <1>3, <1>4, RemoteMoves DEF IInv
<1>6. TraceInv'
  <2>1. CASE o = "revoked"
    BY <1>2, <2>1 DEF TraceInv
  <2>2. CASE o # "revoked"
    <3>1. /\ \A u \in Threads : thread[u].pc # "set_status"
          /\ \A u \in Threads \ {t} : thread'[u].pc # "set_status"
      BY <1>1, <1>3, <1>4 DEF IInv, RemoteInv, Revoking, Alone
    <3>2. GrantGone' <=> GrantGone
      BY <1>1, <1>4, <2>2, <3>1 DEF GrantGone
    <3>3. ASSUME NEW k \in live' PROVE Traced(k)'
      <4>1. Traced(k) /\ account.status = "unlinked" /\ account.blob = None /\ account.cred = "ready"
        BY <1>1, <1>3 DEF IInv, TraceInv, RemoteInv, AccountInv
      <4>2. k # None
        <5>1. k \in Nat
          BY <1>1 DEF IInv, Shapes
        <5> QED
          BY <5>1, AccountAssumption
      <4>3. \/ origin[k] = "rejected" \/ ~GrantGone
            \/ \E s \in Sessions : /\ origin[k] = s
                                   /\ \/ session[s].status \in {"processing", "pruned"}
                                      \/ session[s].outcome \in {"failed", "unknown"}
        BY <4>1, <4>2 DEF Traced
      <4>4. CASE origin[k] = "rejected" \/ ~GrantGone
        BY <1>1, <3>2, <4>1, <4>4 DEF Traced
      <4>5. CASE \E s \in Sessions : /\ origin[k] = s
                                   /\ \/ session[s].status \in {"processing", "pruned"}
                                      \/ session[s].outcome \in {"failed", "unknown"}
        BY <1>1, <4>5 DEF Traced
      <4> QED
        BY <4>3, <4>4, <4>5
    <3>4. GrantGone' => \A u \in Threads : thread'[u].pc \in {"refresh", "finish"} => thread'[u].tok \notin live'
      BY <1>1, <1>4, <3>2 DEF IInv, TraceInv, Kept
    <3> QED
      BY <3>3, <3>4 DEF TraceInv
  <2> QED
    BY <2>1, <2>2
<1> QED
  BY <1>4, <1>5, <1>6 DEF IInv

(* Once the account is unlinked, a refresh under way may only run out. *)
LEMMA LockUnlinked ==
  ASSUME IInv, Kept(Locking), account'.status = "unlinked", UNCHANGED <<submitted, minted>>
  PROVE  LockInv'
<1> SUFFICES ASSUME NEW t \in Threads, thread'[t].pc \in Locking PROVE LockOK(t)'
  BY DEF LockInv, LockOK
<1>1. thread'[t] = thread[t] /\ thread[t].pc \in Locking /\ LockOK(t)
  BY DEF Kept, IInv, LockInv
<1>2. \A u \in Threads \ {t} : thread'[u].pc \notin Locking
  BY <1>1 DEF Kept, LockOK
<1> QED
  BY <1>1, <1>2 DEF LockOK

(* Traced tokens of an unlinked account stay traced while the grant's fate is the same. *)
LEMMA TraceUnlinked ==
  ASSUME IInv, account.status = "unlinked", account'.status = "unlinked", GrantGone' <=> GrantGone,
         Kept({"refresh", "finish"}), UNCHANGED <<session, live, origin>>
  PROVE  TraceInv'
<1>1. ASSUME NEW k \in live PROVE Traced(k)'
  <2>1. Traced(k) /\ account.blob = None /\ account.cred = "ready"
    BY DEF IInv, TraceInv, AccountInv
  <2>2. k # None
    <3>1. k \in Nat
      BY DEF IInv, Shapes
    <3> QED
      BY <3>1, AccountAssumption
  <2>3. \/ origin[k] = "rejected" \/ ~GrantGone
        \/ \E s \in Sessions : /\ origin[k] = s
                               /\ \/ session[s].status \in {"processing", "pruned"}
                                  \/ session[s].outcome \in {"failed", "unknown"}
    BY <2>1, <2>2 DEF Traced
  <2>4. CASE origin[k] = "rejected" \/ ~GrantGone
    BY <2>4 DEF Traced
  <2>5. CASE \E s \in Sessions : /\ origin[k] = s
                               /\ \/ session[s].status \in {"processing", "pruned"}
                                  \/ session[s].outcome \in {"failed", "unknown"}
    BY <2>5 DEF Traced
  <2> QED
    BY <2>3, <2>4, <2>5
<1>2. GrantGone' => \A u \in Threads : thread'[u].pc \in {"refresh", "finish"} => thread'[u].tok \notin live'
  BY DEF IInv, TraceInv, Kept
<1> QED
  BY <1>1, <1>2 DEF TraceInv

(* The outcome of the revocation is recorded, once. *)
LEMMA SetStatusStep ==
  ASSUME IInv, NEW t \in Threads, SetRevocationStatus(t)
  PROVE  IInv'
<1>1. /\ thread[t].pc = "set_status" /\ thread[t].key \in Unlinks /\ thread[t].outcome \in Revoked
      /\ UNCHANGED <<session, lease, live, minted, submitted, origin, inst, handed>>
  BY SetStatusEffect
<1>2. /\ thread[t].pc \in Unlinking /\ thread[t].pc \in Revoking /\ thread[t].pc \in Commanding
      /\ "record_error" \in Unlinking /\ "record_error" \notin Revoking
  BY <1>1 DEF Unlinking, Revoking, Commanding
<1>3. /\ account.status = "unlinked" /\ \A u \in Threads \ {t} : thread[u].pc \notin Revoking
      /\ thread[t].inst \in Instances /\ inst[thread[t].inst].phase = "serving"
  BY <1>2, CommandServes DEF IInv, RemoteInv
<1>4. account.blob = None /\ account.cred = "ready"
  BY <1>3 DEF IInv, AccountInv
<1>5. CASE /\ account.remote # "pending" \/ account.remoteOwner # thread[t].inst
           /\ UNCHANGED <<account, command>>
           /\ Stays(t, "record_error", thread[t].tok, thread[t].revision, thread[t].outcome)
  <2>1. account.remote # "pending"
    <3>1. SomeRunning
      BY <1>3 DEF SomeRunning, Running
    <3> QED
      BY <1>3, <1>5, <3>1 DEF IInv, RemoteInv
  <2>2. /\ ProcessInv' /\ AccountInv' /\ LockInv' /\ LeaseInv' /\ SessionInv' /\ CommandInv' /\ Shapes'
        /\ Kept({"refresh", "finish"}) /\ Alone(t) /\ thread'[t].pc = "record_error"
    BY <1>1, <1>2, <1>5, UnlinkGoes
  <2>3. RemoteInv'
    BY <1>1, <1>2, <1>5, <2>1, <2>2, RemoteMoves DEF IInv
  <2>4. GrantGone' <=> GrantGone
    BY <1>5, <2>1 DEF GrantGone
  <2>5. TraceInv'
    BY <1>1, <1>3, <1>5, <2>2, <2>4, TraceUnlinked
  <2> QED
    BY <2>2, <2>3, <2>5 DEF IInv
<1>6. CASE /\ account.status = "unlinked" /\ account.remote = "pending"
           /\ Row(account', account.status, account.cred, account.blob, account.revision,
                  account.claim, account.owner, thread[t].outcome, None, None)
           /\ CommandSet(thread[t].key, AnswerOf(thread[t].outcome)) /\ Gone(t)
  <2>1. Alone(t) /\ thread'[t] = Idle /\ thread'[t].pc = "idle" /\ \A u \in Threads \ {t} : thread'[u] = thread[u]
    BY <1>6 DEF Gone, Alone
  <2>2. /\ account' \in AccountRows /\ account'.status = "unlinked" /\ account'.cred = "ready"
        /\ account'.blob = None /\ account'.remote = thread[t].outcome /\ account'.command = None
    BY <1>4, <1>6 DEF Row
  <2>3. /\ ProcessInv' /\ Kept(Callback) /\ Kept(Redeeming) /\ Kept(Locking) /\ Kept({"refresh", "finish"})
        /\ \A u \in Threads : thread'[u].pc \in Redeeming =>
             thread[u].pc \in Redeeming /\ thread'[u].key = thread[u].key
    BY <1>1, <1>2, <2>1, CommandRest
  <2>4. Shapes'
    BY <1>1, <1>6, <2>1, <2>2 DEF IInv, Shapes, Alone, CommandSet
  <2>5. AccountInv'
    <3>1. /\ \A k \in Tokens : None # k
          /\ \A k \in Tokens : submitted[k] <= 1 /\ (k > minted => submitted[k] = 0 /\ origin[k] = None)
      BY AccountAssumption DEF IInv, AccountInv, Tokens
    <3>2. thread[t].outcome # "pending"
      BY <1>1 DEF Revoked
    <3> QED
      BY <1>1, <2>2, <3>1, <3>2 DEF AccountInv
  <2>6. LockInv'
    BY <1>1, <2>2, <2>3, LockUnlinked
  <2>7. LeaseInv'
    BY <1>1, <1>3, <2>3, LeaseKept DEF IInv
  <2>8. SessionInv'
    <3>1. minted \in Nat
      BY DEF IInv, Shapes
    <3> QED
      BY <1>1, <2>3, <3>1, SessionKept DEF IInv
  <2>9. CommandInv'
    <3>1. AnswerOf(thread[t].outcome) \in CommandValues \ {"none", "pending"}
      BY <1>1, AnswerTyped DEF Answers
    <3> QED
      BY <1>1, <1>2, <1>6, <3>1, CommandEnds
  <2>10. \A u \in Threads : thread'[u].pc \notin Revoking
    BY <1>3, <2>1 DEF Revoking
  <2>11. RemoteInv'
    <3>1. ASSUME NEW k \in Unlinks, command'[k] \in Answers
          PROVE  account'.status = "unlinked" /\ account'.remote \in Revoked /\ AnswerOf(account'.remote) = command'[k]
      <4>1. k = thread[t].key
        <5>1. command[k] \notin Answers
          BY <1>6 DEF IInv, RemoteInv, Revoked
        <5>2. k \in Keys
          BY DEF Keys
        <5> QED
          BY <1>6, <3>1, <5>1, <5>2 DEF CommandSet
      <4>2. command'[k] = AnswerOf(thread[t].outcome)
        BY <1>6, <4>1 DEF CommandSet
      <4> QED
        BY <1>1, <2>2, <4>2
    <3>2. \A u \in Threads : thread'[u].pc \in Ending => thread'[u] = thread[u]
      BY <2>1 DEF Ending, Revoking
    <3>3. \A u \in Threads :
            /\ thread'[u].pc # "set_status"
            /\ thread'[u].pc = "unlink" /\ thread'[u].tok = None =>
                 thread'[u].outcome \in {"unlinked", "revocation_unknown"}
      BY <2>10, <3>2 DEF IInv, RemoteInv, Ending, Revoking
    <3>4. account'.remote # "pending"
      BY <1>1, <2>2 DEF Revoked
    <3> QED
      BY <2>2, <2>10, <3>1, <3>3, <3>4 DEF RemoteInv
  <2>12. TraceInv'
    <3>1. GrantGone' <=> thread[t].outcome = "revoked"
      BY <1>1, <2>2 DEF GrantGone, Revoked
    <3>2. GrantGone <=> thread[t].outcome = "revoked"
      BY <1>1, <1>3, <1>6 DEF GrantGone, Revoking
    <3> QED
      BY <1>1, <1>3, <2>2, <2>3, <3>1, <3>2, TraceUnlinked
  <2> QED
    BY <2>3, <2>4, <2>5, <2>6, <2>7, <2>8, <2>9, <2>11, <2>12 DEF IInv
<1> QED
  BY <1>5, <1>6, SetStatusEffect

(* The local unlink ends the account, its leases and, without a token, the command. *)
LEMMA UnlinkStep ==
  ASSUME IInv, NEW t \in Threads, Unlink(t)
  PROVE  IInv'
<1>1. /\ thread[t].pc = "unlink" /\ thread[t].key \in Unlinks
      /\ UNCHANGED <<session, live, minted, submitted, origin, inst, handed>>
  BY UnlinkEffect
<1>2. /\ thread[t].pc \in Unlinking /\ thread[t].pc \notin Revoking /\ thread[t].pc \in Commanding
      /\ "record_error" \in Unlinking /\ "record_error" \notin Revoking /\ "revoke_remote" \in Revoking
      /\ "revoke_remote" \in Commanding /\ "idle" \notin Revoking
  BY <1>1 DEF Unlinking, Revoking, Commanding
<1>3. thread[t].inst \in Instances /\ inst[thread[t].inst].phase = "serving" /\ minted \in Nat
      /\ thread[t].key # None /\ None # "pending"
  BY <1>1, <1>2, CommandServes, AccountAssumption DEF IInv, Shapes, Keys
<1>4. CASE /\ account.status # "active" /\ UNCHANGED <<account, lease, command>>
           /\ Stays(t, "record_error", thread[t].tok, thread[t].revision, thread[t].outcome)
  <2>1. /\ ProcessInv' /\ AccountInv' /\ LockInv' /\ LeaseInv' /\ SessionInv' /\ CommandInv' /\ Shapes'
        /\ Kept({"refresh", "finish"}) /\ Alone(t) /\ thread'[t].pc = "record_error"
    BY <1>1, <1>2, <1>4, UnlinkGoes
  <2>2. RemoteInv'
    BY <1>1, <1>2, <1>4, <2>1, RemoteMoves DEF IInv
  <2>3. Kept({"refresh", "finish", "set_status"})
    BY <1>1, <2>1, AloneKeeps
  <2>4. TraceInv'
    BY <1>1, <1>4, <2>3, TraceKept DEF IInv
  <2> QED
    BY <2>1, <2>2, <2>4 DEF IInv
<1>5. ASSUME account.status = "active", DropLeases, NEW remote \in {"pending", "unknown"},
             account' \in AccountRows, account'.status = "unlinked", account'.cred = "ready",
             account'.blob = None, account'.remote = remote,
             remote = "pending" => account'.command = thread[t].key /\ account'.remoteOwner = thread[t].inst,
             Alone(t),
             \/ /\ command' = command /\ thread'[t].pc = "revoke_remote" /\ thread'[t].key = thread[t].key
                /\ thread'[t].inst = thread[t].inst
             \/ /\ remote = "unknown" /\ CommandSet(thread[t].key, "revocation_unknown") /\ Gone(t)
      PROVE  IInv'
  <2>1. \A u \in Threads : thread[u].pc \notin Revoking
    BY <1>5 DEF IInv, RemoteInv
  <2>2. \A u \in Threads \ {t} : thread'[u] = thread[u]
    BY <1>5 DEF Alone
  <2>3. thread'[t] = Idle \/ (thread'[t].pc \in Commanding /\ thread'[t].inst = thread[t].inst)
    BY <1>2, <1>5 DEF Gone
  <2>4. /\ ProcessInv' /\ Kept(Callback) /\ Kept(Redeeming) /\ Kept(Locking) /\ Kept({"refresh", "finish"})
        /\ \A u \in Threads : thread'[u].pc \in Redeeming =>
             thread[u].pc \in Redeeming /\ thread'[u].key = thread[u].key
    BY <1>1, <1>2, <1>3, <1>5, <2>3, CommandRest
  <2>5. LeaseInv' /\ lease' \in [Leases -> {"none", "open", "redeemed", "deleted"}]
    BY <1>1, <1>5, <2>4, LeasesDropped
  <2>6. command' \in [Keys -> CommandValues]
    BY <1>5 DEF CommandSet, IInv, Shapes
  <2>7. Shapes'
    BY <1>1, <1>5, <2>5, <2>6 DEF IInv, Shapes, Alone
  <2>8. AccountInv'
    <3>1. /\ \A k \in Tokens : None # k
          /\ \A k \in Tokens : submitted[k] <= 1 /\ (k > minted => submitted[k] = 0 /\ origin[k] = None)
      BY AccountAssumption DEF IInv, AccountInv, Tokens
    <3>2. account'.remote \in {"pending"} \cup Revoked /\ (account'.remote = "pending" => account'.command # None)
      BY <1>3, <1>5 DEF Revoked
    <3> QED
      BY <1>1, <1>5, <3>1, <3>2 DEF AccountInv
  <2>9. LockInv'
    BY <1>1, <1>5, <2>4, LockUnlinked
  <2>10. SessionInv'
    BY <1>1, <1>3, <2>4, SessionKept DEF IInv
  <2>11. CommandInv'
    <3>1. CASE /\ command' = command /\ thread'[t].pc = "revoke_remote" /\ thread'[t].key = thread[t].key
      <4>1. "unlink" \notin Creating /\ "revoke_remote" \notin Creating
        BY DEF Creating
      <4>2. \A u \in Threads : /\ thread'[u].pc \in Creating <=> thread[u].pc \in Creating
                               /\ thread'[u].pc \in Commanding <=> thread[u].pc \in Commanding
                               /\ thread[u].pc \in Commanding => thread'[u].key = thread[u].key
        BY <1>1, <1>2, <2>2, <3>1, <4>1
      <4> QED
        BY <1>1, <3>1, <4>2, CommandKept DEF IInv
    <3>2. CASE CommandSet(thread[t].key, "revocation_unknown") /\ Gone(t)
      <4>1. "revocation_unknown" \in CommandValues \ {"none", "pending"}
        BY DEF CommandValues, Answers
      <4> QED
        BY <1>1, <1>2, <3>2, <4>1, CommandEnds
    <3> QED
      BY <1>5, <3>1, <3>2
  <2>12. \A u \in Threads \ {t} : thread'[u].pc \notin Revoking
    BY <2>1, <2>2
  <2>13. RemoteInv'
    <3>1. ASSUME NEW k \in Unlinks, command'[k] \in Answers
          PROVE  account'.status = "unlinked" /\ account'.remote \in Revoked /\ AnswerOf(account'.remote) = command'[k]
      <4>1. command[k] \notin Answers /\ k \in Keys
        BY <1>5 DEF IInv, RemoteInv, Keys
      <4>2. remote = "unknown" /\ command'[k] = "revocation_unknown"
        BY <1>5, <3>1, <4>1 DEF CommandSet
      <4> QED
        BY <1>5, <4>2 DEF AnswerOf, Revoked
    <3>2. \A u \in Threads \ {t} : thread'[u].pc = "unlink" /\ thread'[u].tok = None =>
            thread'[u].outcome \in {"unlinked", "revocation_unknown"}
      BY <2>2 DEF IInv, RemoteInv
    <3>3. thread'[t].pc \notin {"set_status", "unlink"} /\ \A u \in Threads : thread'[u].pc # "set_status"
      BY <1>5, <2>12 DEF Gone, Revoking
    <3>4. account'.remote = "pending" => /\ thread'[t].pc \in Revoking /\ thread'[t].key = account'.command
                                         /\ thread'[t].inst = account'.remoteOwner
      BY <1>2, <1>5
    <3> QED
      BY <1>5, <2>12, <3>1, <3>2, <3>3, <3>4 DEF RemoteInv
  <2>14. TraceInv'
    <3>1. ~GrantGone'
      BY <1>5, <2>12 DEF GrantGone, Gone, Revoking
    <3> QED
      BY <1>5, <3>1 DEF TraceInv, Traced
  <2> QED
    BY <2>4, <2>5, <2>7, <2>8, <2>9, <2>10, <2>11, <2>13, <2>14 DEF IInv
<1>6. CASE /\ account.status = "active" /\ DropLeases
           /\ \/ Row(account', "unlinked", "ready", None, account.revision, None, None,
                     "pending", thread[t].inst, thread[t].key)
              \/ Row(account', "unlinked", "ready", None, account.revision, None, None,
                     "unknown", None, None)
           /\ command' = command
           /\ Stays(t, "revoke_remote", thread[t].tok, thread[t].revision, thread[t].outcome)
  BY <1>5, <1>6 DEF Row, Stays, Moved, Alone
<1>7. CASE /\ account.status = "active" /\ DropLeases
           /\ Row(account', "unlinked", "ready", None, account.revision, None, None, "unknown", None, None)
           /\ CommandSet(thread[t].key, "revocation_unknown") /\ Gone(t)
  <2>1. Alone(t)
    BY <1>7 DEF Gone, Alone
  <2> QED
    BY <1>5, <1>7, <2>1 DEF Row
<1> QED
  BY <1>4, <1>6, <1>7, UnlinkEffect

-----------------------------------------------------------------------------
(* The steps between the requests keep the invariant. *)

(* A lease is created. *)
LEMMA CreateLeaseStep ==
  ASSUME IInv, NEW i \in Instances, NEW l \in Leases, CreateLease(i, l)
  PROVE  IInv'
<1>1. /\ account.status = "active" /\ account.cred = "ready" /\ lease[l] = "none"
      /\ lease' \in [Leases -> {"none", "open", "redeemed", "deleted"}]
      /\ lease'[l] = "open" /\ \A m \in Leases \ {l} : lease'[m] = lease[m]
      /\ UNCHANGED <<session, account, command, live, minted, submitted, origin, inst, thread, handed>>
  BY CreateLeaseEffect
<1>2. Shapes' /\ ProcessInv'
  BY <1>1 DEF IInv, Shapes, ProcessInv, Running
<1>3. AccountInv' /\ LockInv'
  BY <1>1 DEF IInv, AccountInv, LockInv, LockOK, HasClaim
<1>4. CommandInv' /\ RemoteInv'
  BY <1>1 DEF IInv, CommandInv, RemoteInv, Someone, Phase, SomeRunning, Running
<1>5. SessionInv' /\ TraceInv'
  BY <1>1 DEF IInv, SessionInv, CallbackOK, Someone, Phase, TraceInv, Traced, GrantGone
<1>6. LeaseInv'
  <2>1. \A m \in Leases :
       /\ handed'[m] <= 1
       /\ lease'[m] \in {"none", "open"} => handed'[m] = 0
       /\ lease'[m] = "open" => account'.status = "active" /\ account'.cred # "reauthorization_required"
    BY <1>1 DEF IInv, LeaseInv
  <2>2. \A u \in Threads : thread[u].pc \in Redeeming => lease'[thread[u].key] = lease[thread[u].key]
    BY <1>1 DEF IInv, LeaseInv
  <2> QED
    BY <1>1, <2>1, <2>2 DEF IInv, LeaseInv
<1> QED
  BY <1>2, <1>3, <1>4, <1>5, <1>6 DEF IInv

(* The access token comes near its expiry. *)
LEMMA TokenExpiresStep ==
  ASSUME IInv, TokenExpires
  PROVE  IInv'
<1>1. /\ account' \in AccountRows /\ account'.status = account.status /\ account'.cred = account.cred
      /\ account'.blob = account.blob /\ account'.revision = account.revision /\ account'.claim = account.claim
      /\ account'.owner = account.owner /\ account'.remote = account.remote
      /\ account'.remoteOwner = account.remoteOwner /\ account'.command = account.command
      /\ UNCHANGED <<session, lease, command, live, minted, submitted, origin, inst, thread, handed>>
  BY TokenExpiresEffect DEF Row
<1>2. Shapes' /\ ProcessInv'
  BY <1>1 DEF IInv, Shapes, ProcessInv, Running
<1>3. AccountInv'
  BY <1>1 DEF IInv, AccountInv
<1>4. LockInv'
  BY <1>1 DEF IInv, LockInv, LockOK, HasClaim
<1>5. LeaseInv'
  BY <1>1 DEF IInv, LeaseInv
<1>6. CommandInv' /\ RemoteInv'
  BY <1>1 DEF IInv, CommandInv, RemoteInv, Someone, Phase, SomeRunning, Running
<1>7. SessionInv'
  BY <1>1 DEF IInv, SessionInv, CallbackOK, Someone, Phase
<1>8. TraceInv'
  BY <1>1 DEF IInv, TraceInv, Traced, GrantGone
<1> QED
  BY <1>2, <1>3, <1>4, <1>5, <1>6, <1>7, <1>8 DEF IInv

(* prune_expired. *)
LEMMA PruneStep ==
  ASSUME IInv, NEW i \in Instances, Prune(i)
  PROVE  IInv'
<1>1. /\ inst[i].phase = "serving" /\ session' \in [Sessions -> SessionRows]
      /\ \A s \in Sessions :
           \/ session'[s] = session[s] /\ session[s].status \notin {"processing", "completed", "failed"}
           \/ /\ session'[s].status = "pruned" /\ session'[s].blob = None /\ session'[s].outcome = None
              /\ session[s].status \in {"processing", "completed", "failed"}
      /\ lease' \in [Leases -> {"none", "open", "redeemed", "deleted"}]
      /\ \A l \in Leases : lease'[l] = lease[l] \/ (lease[l] = "redeemed" /\ lease'[l] = "deleted")
      /\ UNCHANGED <<account, command, live, minted, submitted, origin, inst, thread, handed>>
  BY PruneEffect
<1>2. Shapes' /\ ProcessInv'
  BY <1>1 DEF IInv, Shapes, ProcessInv, Running
<1>3. AccountInv' /\ LockInv'
  BY <1>1 DEF IInv, AccountInv, LockInv, LockOK, HasClaim
<1>4. LeaseInv'
  <2>1. \A m \in Leases :
       /\ handed'[m] <= 1
       /\ lease'[m] \in {"none", "open"} => handed'[m] = 0
       /\ lease'[m] = "open" => account'.status = "active" /\ account'.cred # "reauthorization_required"
    BY <1>1 DEF IInv, LeaseInv
  <2>2. \A u \in Threads : thread[u].pc \in Redeeming => lease'[thread[u].key] \in {"redeemed", "deleted"}
    BY <1>1 DEF IInv, LeaseInv
  <2> QED
    BY <1>1, <2>1, <2>2 DEF IInv, LeaseInv
<1>5. CommandInv'
  <2>1. \A s \in Sessions : session'[s].status # "none" => session[s].status # "none"
    BY <1>1
  <2> QED
    BY <1>1, <2>1, CommandKept DEF IInv
<1>6. RemoteInv'
  BY <1>1, RemoteKept DEF IInv, Kept
<1>7. SessionInv'
  <2>1. \A t \in Threads : thread[t].pc \in Callback => CallbackOK(t)'
    BY <1>1 DEF IInv, SessionInv, CallbackOK
  <2>2. \A s \in Sessions : /\ session'[s].status # "processing"
                            /\ session'[s].status \in {"none", "pending"} => session'[s] = session[s]
    BY <1>1
  <2> QED
    BY <1>1, <2>1, <2>2 DEF IInv, SessionInv
<1>8. TraceInv'
  BY <1>1, TraceKept DEF IInv, Kept
<1> QED
  BY <1>2, <1>3, <1>4, <1>5, <1>6, <1>7, <1>8 DEF IInv

-----------------------------------------------------------------------------
(* Crash and recovery keep the invariant. *)

(* Where a thread at rest is not. *)
LEMMA IdleNowhere ==
  /\ "idle" \notin Callback /\ "idle" \notin Redeeming /\ "idle" \notin Locking /\ "idle" \notin Commanding
  /\ "idle" \notin Revoking /\ "idle" \notin {"unlink", "set_status", "refresh", "finish"}
BY DEF Callback, Redeeming, Locking, Commanding, Creating, Unlinking, Revoking

(* No request runs after the step. *)
AllIdle == thread' \in [Threads -> Locals] /\ \A t \in Threads : thread'[t] = Idle /\ thread'[t].pc = "idle"

(* Process i alone may run after the step. *)
LEMMA IdleProcess ==
  ASSUME AllIdle, NEW i \in Instances, \A j \in Instances \ {i} : inst'[j].phase \in {"unborn", "dead"}
  PROVE  ProcessInv' /\ LockInv'
<1>1. \A j \in Instances \ {i} : ~Running(j)'
  BY DEF Running
<1> QED
  BY <1>1, IdleNowhere DEF AllIdle, ProcessInv, LockInv, LockOK

(* The leases between two processes. *)
LEMMA IdleLeases ==
  ASSUME IInv, AllIdle, handed' = handed,
         \/ DropLeases
         \/ /\ lease' = lease
            /\ account.status = "active" /\ account.cred # "reauthorization_required" =>
                 account'.status = "active" /\ account'.cred # "reauthorization_required"
  PROVE  LeaseInv' /\ lease' \in [Leases -> {"none", "open", "redeemed", "deleted"}]
<1>1. \A u \in Threads : thread'[u].pc \in Redeeming =>
        thread[u].pc \in Redeeming /\ thread'[u].key = thread[u].key
  BY IdleNowhere DEF AllIdle
<1>2. CASE DropLeases
  BY <1>1, <1>2, LeasesDropped
<1>3. CASE /\ lease' = lease
           /\ account.status = "active" /\ account.cred # "reauthorization_required" =>
                account'.status = "active" /\ account'.cred # "reauthorization_required"
  BY <1>1, <1>3, LeaseKept DEF IInv, Shapes
<1> QED
  BY <1>2, <1>3

(* The commands between two processes. *)
LEMMA IdleCommands ==
  ASSUME IInv, AllIdle,
         \A k \in Keys : command'[k] = "pending" => ~Phase({"serving"})',
         \A i \in Instances : inst'[i].phase = "commands" =>
           \A k \in Keys : command'[k] = "pending" => k \in inst'[i].todo,
         \A s \in Sessions : command'[s] = command[s] \/ command'[s] \notin {"none", "pending"},
         \A s \in Sessions : session'[s].status # "none" => session[s].status # "none"
  PROVE  CommandInv'
<1>1. \A t \in Threads : thread'[t].pc \notin Commanding
  BY IdleNowhere DEF AllIdle
<1>2. \A s \in Sessions : session'[s].status # "none" => command'[s] \notin {"none", "pending"}
  BY DEF IInv, CommandInv
<1> QED
  BY <1>1, <1>2 DEF CommandInv

(* The revocation between two processes. *)
LEMMA IdleRemote ==
  ASSUME AllIdle, account'.remote # "pending" \/ ~SomeRunning',
         \A k \in Unlinks : command'[k] \in Answers =>
           account'.status = "unlinked" /\ account'.remote \in Revoked /\ AnswerOf(account'.remote) = command'[k]
  PROVE  RemoteInv'
<1>1. \A t \in Threads : thread'[t].pc \notin Revoking /\ thread'[t].pc \notin {"unlink", "set_status"}
  BY IdleNowhere DEF AllIdle
<1> QED
  BY <1>1 DEF RemoteInv

(* The sessions between two processes. *)
LEMMA IdleSessions ==
  ASSUME IInv, AllIdle, origin' = origin,
         \A s \in Sessions : session'[s].status \in {"none", "pending"} => session[s].status \in {"none", "pending"},
         \A s \in Sessions : session'[s].status = "processing" => ~Phase({"commands", "serving"})',
         \A i \in Instances :
           /\ inst'[i].phase = "settle" =>
                /\ inst'[i].current \in Sessions /\ inst'[i].outcome \in Revoked
                /\ inst'[i].outcome = "revoked" => \A k \in live' : origin[k] # inst'[i].current
           /\ \A s \in Sessions : session'[s].status = "processing" =>
                /\ inst'[i].phase = "list" => session'[s].blob # None
                /\ inst'[i].phase = "callbacks" => s \in inst'[i].todo
                /\ inst'[i].phase = "settle" => s \in inst'[i].todo \cup {inst'[i].current}
  PROVE  SessionInv'
<1>1. \A t \in Threads : thread'[t].pc \notin Callback
  BY IdleNowhere DEF AllIdle
<1>2. \A s \in Sessions :
       /\ session'[s].status \in {"none", "pending"} => \A k \in Tokens : origin'[k] # s
       /\ \A k, m \in Tokens : origin'[k] = s /\ origin'[m] = s => k = m
  BY DEF IInv, SessionInv
<1> QED
  BY <1>1, <1>2 DEF SessionInv

(* A process dies, and what it had begun waits for the next one. *)
LEMMA CrashStep ==
  ASSUME IInv, NEW i \in Instances, Crash(i)
  PROVE  IInv'
<1>1. /\ Running(i) /\ ProcSet(i, "dead", {}, None, None) /\ AllIdle
      /\ UNCHANGED <<session, account, lease, command, live, minted, submitted, origin, handed>>
  BY CrashEffect DEF AllIdle
<1>2. /\ inst' \in [Instances -> Procs]
      /\ \A j \in Instances : inst'[j].phase \in {"unborn", "dead"}
  BY <1>1 DEF IInv, ProcessInv, Running, ProcSet
<1>3. ProcessInv' /\ LockInv'
  BY <1>1, <1>2, IdleProcess
<1>4. Shapes'
  BY <1>1, <1>2 DEF IInv, Shapes, AllIdle
<1>5. AccountInv'
  BY <1>1, AccountKept DEF IInv
<1>6. LeaseInv'
  BY <1>1, IdleLeases
<1>7. ~Phase({"serving"})' /\ ~Phase({"commands", "serving"})' /\ ~SomeRunning'
  BY <1>2 DEF Phase, SomeRunning, Running
<1>8. CommandInv'
  BY <1>1, <1>2, <1>7, IdleCommands
<1>9. RemoteInv'
  BY <1>1, <1>7, IdleRemote DEF IInv, RemoteInv
<1>10. SessionInv'
  BY <1>1, <1>2, <1>7, IdleSessions
<1>11. TraceInv'
  <2>1. \A t \in Threads : thread'[t].pc \notin {"refresh", "finish", "set_status"}
    BY <1>1 DEF AllIdle
  <2>2. GrantGone' => GrantGone
    BY <1>1, <2>1 DEF GrantGone
  <2>3. ASSUME NEW k \in live PROVE Traced(k)'
    <3>1. Traced(k)
      BY DEF IInv, TraceInv
    <3>2. CASE account.blob = k \/ account.cred = "reauthorization_required"
      BY <1>1, <3>2 DEF Traced
    <3>3. CASE account.cred = "refresh_pending"
      BY <1>1, <2>1, <3>3 DEF Traced
    <3>4. CASE account.status = "unlinked" /\ ~GrantGone
      BY <1>1, <2>2, <3>4 DEF Traced
    <3>5. CASE account.status = "active" /\ \E t \in Threads : thread[t].pc = "finish"
      <4>1. account.cred = "refresh_pending"
        BY <3>5 DEF IInv, LockInv, LockOK, Locking, HasClaim
      <4> QED
        BY <3>3, <4>1
    <3>6. CASE \E s \in Sessions : /\ origin[k] = s
                         /\ \/ session[s].status \in {"processing", "pruned"}
                            \/ session[s].outcome \in {"failed", "unknown"}
      BY <1>1, <3>6 DEF Traced
    <3>7. CASE origin[k] = "rejected"
      BY <1>1, <3>7 DEF Traced
    <3> QED
      BY <3>1, <3>2, <3>3, <3>4, <3>5, <3>6, <3>7 DEF Traced
  <2> QED
    BY <1>1, <2>1, <2>3 DEF TraceInv
<1> QED
  BY <1>3, <1>4, <1>5, <1>6, <1>8, <1>9, <1>10, <1>11 DEF IInv

(* While a process recovers, it is alone and nothing is due at GitHub. *)
LEMMA Recovering ==
  ASSUME IInv, NEW i \in Instances, inst[i].phase \in {"list", "callbacks", "settle", "commands"},
         thread' = thread
  PROVE  /\ AllIdle /\ account.remote # "pending"
         /\ \A j \in Instances \ {i} : inst[j].phase \in {"unborn", "dead"}
<1>1. /\ Running(i) /\ \A j \in Instances \ {i} : inst[j].phase \in {"unborn", "dead"}
      /\ \A t \in Threads : thread[t].pc = "idle"
  BY RecoveryAlone
<1>2. AllIdle
  BY <1>1 DEF AllIdle, IInv, Shapes, ProcessInv
<1>3. account.remote # "pending"
  <2>1. \A t \in Threads : thread[t].pc \notin Revoking
    BY <1>1, IdleNowhere
  <2>2. SomeRunning
    BY <1>1 DEF SomeRunning
  <2> QED
    BY <2>1, <2>2 DEF IInv, RemoteInv
<1> QED
  BY <1>1, <1>2, <1>3

(* What a step of the recovery leaves alone when the row of the account does not change. *)
LEMMA RecoveryRest ==
  ASSUME IInv, NEW i \in Instances, inst[i].phase \in {"list", "callbacks", "settle", "commands"},
         inst' \in [Instances -> Procs], \A j \in Instances \ {i} : inst'[j] = inst[j],
         session' \in [Sessions -> SessionRows], command' \in [Keys -> CommandValues],
         live' \subseteq live, UNCHANGED <<account, lease, minted, submitted, origin, thread, handed>>,
         \A k \in live, s \in Sessions : origin[k] = s => \/ session'[s] = session[s]
                                                        \/ session'[s].outcome \in {"failed", "unknown"}
  PROVE  Shapes' /\ ProcessInv' /\ AccountInv' /\ LockInv' /\ LeaseInv' /\ TraceInv'
<1>1. AllIdle /\ \A j \in Instances \ {i} : inst[j].phase \in {"unborn", "dead"}
  BY Recovering
<1>2. \A j \in Instances \ {i} : inst'[j].phase \in {"unborn", "dead"}
  BY <1>1
<1>3. ProcessInv' /\ LockInv'
  BY <1>1, <1>2, IdleProcess
<1>4. Shapes'
  BY DEF IInv, Shapes
<1>5. AccountInv'
  BY AccountKept DEF IInv
<1>6. LeaseInv'
  BY <1>1, IdleLeases
<1>7. TraceInv'
  <2>1. Shapes /\ LockInv /\ TraceInv
    BY DEF IInv
  <2>2. Kept({"refresh", "finish", "set_status"})
    BY DEF Kept
  <2>3. \A k \in live : origin'[k] = origin[k]
    OBVIOUS
  <2>4. \A k \in live' \ live : k \notin 1..minted /\ Traced(k)'
    OBVIOUS
  <2>5. \A k \in live, s \in Sessions : origin[k] = s => \/ session'[s] = session[s]
                                                        \/ session'[s].status \in {"processing", "pruned"}
                                                        \/ session'[s].outcome \in {"failed", "unknown"}
    OBVIOUS
  <2> QED
    BY <2>1, <2>2, <2>3, <2>4, <2>5, TraceKept
<1> QED
  BY <1>3, <1>4, <1>5, <1>6, <1>7

(* The interrupted callbacks are listed. *)
LEMMA ListCallbacksStep ==
  ASSUME IInv, NEW i \in Instances, ListCallbacks(i)
  PROVE  IInv'
<1>1. /\ inst[i].phase = "list"
      /\ inst' \in [Instances -> Procs] /\ \A j \in Instances \ {i} : inst'[j] = inst[j]
      /\ inst'[i].phase = "callbacks"
      /\ inst'[i].todo = {s \in Sessions : session[s].status = "processing" /\ session[s].blob # None}
      /\ UNCHANGED <<session, account, lease, command, live, minted, submitted, origin, thread, handed>>
  BY ListCallbacksEffect DEF ProcSet
<1>2. /\ AllIdle /\ account.remote # "pending"
      /\ \A j \in Instances \ {i} : inst[j].phase \in {"unborn", "dead"}
  BY <1>1, Recovering
<1>3. \A j \in Instances : j = i \/ inst'[j].phase \in {"unborn", "dead"}
  BY <1>1, <1>2
<1>4. Shapes' /\ ProcessInv' /\ AccountInv' /\ LockInv' /\ LeaseInv' /\ TraceInv'
  <2>1. session' \in [Sessions -> SessionRows] /\ command' \in [Keys -> CommandValues]
    BY <1>1 DEF IInv, Shapes
  <2> QED
    BY <1>1, <2>1, RecoveryRest
<1>5. ~Phase({"serving"})' /\ ~Phase({"commands", "serving"})'
  BY <1>1, <1>3 DEF Phase
<1>6. CommandInv'
  BY <1>1, <1>2, <1>3, <1>5, IdleCommands
<1>7. RemoteInv'
  BY <1>1, <1>2, IdleRemote DEF IInv, RemoteInv
<1>8. SessionInv'
  <2>1. \A s \in Sessions : session[s].status = "processing" => s \in inst'[i].todo
    BY <1>1 DEF IInv, SessionInv
  <2>2. \A j \in Instances :
           /\ inst'[j].phase = "settle" =>
                /\ inst'[j].current \in Sessions /\ inst'[j].outcome \in Revoked
                /\ inst'[j].outcome = "revoked" => \A k \in live' : origin[k] # inst'[j].current
           /\ \A s \in Sessions : session'[s].status = "processing" =>
                /\ inst'[j].phase = "list" => session'[s].blob # None
                /\ inst'[j].phase = "callbacks" => s \in inst'[j].todo
                /\ inst'[j].phase = "settle" => s \in inst'[j].todo \cup {inst'[j].current}
    BY <1>1, <1>3, <2>1
  <2> QED
    BY <1>1, <1>2, <1>5, <2>2, IdleSessions
<1> QED
  BY <1>4, <1>6, <1>7, <1>8 DEF IInv

(* The token of an interrupted callback is sent for revocation. *)
LEMMA RevokeInterruptedStep ==
  ASSUME IInv, NEW i \in Instances, RevokeInterrupted(i)
  PROVE  IInv'
<1>1. PICK c \in Sessions, o \in Revoked :
        /\ inst[i].phase = "callbacks" /\ c \in inst[i].todo /\ live' \subseteq live
        /\ o = "revoked" => live' = {}
        /\ inst' \in [Instances -> Procs] /\ \A j \in Instances \ {i} : inst'[j] = inst[j]
        /\ inst'[i].phase = "settle" /\ inst'[i].todo = inst[i].todo \ {c}
        /\ inst'[i].current = c /\ inst'[i].outcome = o
        /\ UNCHANGED <<session, account, lease, command, minted, submitted, origin, thread, handed>>
  BY RevokeInterruptedEffect DEF ProcSet
<1>2. /\ AllIdle /\ account.remote # "pending"
      /\ \A j \in Instances \ {i} : inst[j].phase \in {"unborn", "dead"}
  BY <1>1, Recovering
<1>3. \A j \in Instances : j = i \/ inst'[j].phase \in {"unborn", "dead"}
  BY <1>1, <1>2
<1>4. Shapes' /\ ProcessInv' /\ AccountInv' /\ LockInv' /\ LeaseInv' /\ TraceInv'
  <2>1. session' \in [Sessions -> SessionRows] /\ command' \in [Keys -> CommandValues]
    BY <1>1 DEF IInv, Shapes
  <2> QED
    BY <1>1, <2>1, RecoveryRest
<1>5. ~Phase({"serving"})' /\ ~Phase({"commands", "serving"})'
  BY <1>1, <1>3 DEF Phase
<1>6. CommandInv'
  BY <1>1, <1>2, <1>3, <1>5, IdleCommands
<1>7. RemoteInv'
  BY <1>1, <1>2, IdleRemote DEF IInv, RemoteInv
<1>8. SessionInv'
  <2>1. \A s \in Sessions : session[s].status = "processing" => s \in inst[i].todo
    BY <1>1 DEF IInv, SessionInv
  <2>2. \A j \in Instances :
           /\ inst'[j].phase = "settle" =>
                /\ inst'[j].current \in Sessions /\ inst'[j].outcome \in Revoked
                /\ inst'[j].outcome = "revoked" => \A k \in live' : origin[k] # inst'[j].current
           /\ \A s \in Sessions : session'[s].status = "processing" =>
                /\ inst'[j].phase = "list" => session'[s].blob # None
                /\ inst'[j].phase = "callbacks" => s \in inst'[j].todo
                /\ inst'[j].phase = "settle" => s \in inst'[j].todo \cup {inst'[j].current}
    BY <1>1, <1>3, <2>1
  <2> QED
    BY <1>1, <1>2, <1>5, <2>2, IdleSessions
<1> QED
  BY <1>4, <1>6, <1>7, <1>8 DEF IInv

(* The outcome of an interrupted callback is recorded. *)
LEMMA SettleInterruptedStep ==
  ASSUME IInv, NEW i \in Instances, SettleInterrupted(i)
  PROVE  IInv'
<1> DEFINE c == inst[i].current
           o == inst[i].outcome
<1>1. /\ inst[i].phase = "settle" /\ c \in Sessions /\ o \in Revoked
      /\ inst' \in [Instances -> Procs] /\ \A j \in Instances \ {i} : inst'[j] = inst[j]
      /\ UNCHANGED <<account, lease, command, live, minted, submitted, origin, thread, handed>>
      /\ \/ /\ session' \in [Sessions -> SessionRows]
            /\ \A s \in Sessions \ {c} : session'[s] = session[s]
            /\ session'[c].status = "failed" /\ session'[c].outcome = o
            /\ inst'[i].phase = "callbacks" /\ inst'[i].todo = inst[i].todo
         \/ session' = session /\ inst'[i].phase = "dead"
  BY SettleInterruptedEffect DEF SessionSet, ProcSet
<1>a. /\ o = "revoked" => \A k \in live : origin[k] # c
      /\ \A s \in Sessions : session[s].status = "processing" => s \in inst[i].todo \cup {c}
  BY <1>1 DEF IInv, SessionInv
<1> HIDE DEF c, o
<1>2. /\ AllIdle /\ account.remote # "pending"
      /\ \A j \in Instances \ {i} : inst[j].phase \in {"unborn", "dead"}
  BY <1>1, Recovering
<1>3. \A j \in Instances : j = i \/ inst'[j].phase \in {"unborn", "dead"}
  BY <1>1, <1>2
<1>4. Shapes' /\ ProcessInv' /\ AccountInv' /\ LockInv' /\ LeaseInv' /\ TraceInv'
  <2>1. session' \in [Sessions -> SessionRows] /\ command' \in [Keys -> CommandValues]
    BY <1>1 DEF IInv, Shapes
  <2>2. \A k \in live, s \in Sessions : origin[k] = s => \/ session'[s] = session[s]
                                                        \/ session'[s].outcome \in {"failed", "unknown"}
    BY <1>1, <1>a DEF Revoked
  <2>3. live' \subseteq live
    BY <1>1
  <2> QED
    BY <1>1, <2>1, <2>2, <2>3, RecoveryRest
<1>5. ~Phase({"serving"})' /\ ~Phase({"commands", "serving"})'
  BY <1>1, <1>3 DEF Phase
<1>b. \A s \in Sessions : /\ session'[s].status \in {"none", "pending"} => session[s].status \in {"none", "pending"}
                          /\ session'[s].status # "none" => session[s].status # "none"
  <2>1. CASE session' = session
    BY <2>1
  <2>2. CASE session' # session
    <3>1. session[c].status # "none"
      BY <1>1, <2>2, SettleInterruptedEffect DEF c
    <3> QED
      BY <1>1, <2>2, <3>1
  <2> QED
    BY <2>1, <2>2
<1>6. CommandInv'
  BY <1>1, <1>2, <1>3, <1>5, <1>b, IdleCommands
<1>7. RemoteInv'
  BY <1>1, <1>2, IdleRemote DEF IInv, RemoteInv
<1>8. SessionInv'
  <2>1. inst'[i].phase # "dead" => \A s \in Sessions : session'[s].status = "processing" => s \in inst'[i].todo
    BY <1>1, <1>a
  <2>2. \A j \in Instances :
           /\ inst'[j].phase = "settle" =>
                /\ inst'[j].current \in Sessions /\ inst'[j].outcome \in Revoked
                /\ inst'[j].outcome = "revoked" => \A k \in live' : origin[k] # inst'[j].current
           /\ \A s \in Sessions : session'[s].status = "processing" =>
                /\ inst'[j].phase = "list" => session'[s].blob # None
                /\ inst'[j].phase = "callbacks" => s \in inst'[j].todo
                /\ inst'[j].phase = "settle" => s \in inst'[j].todo \cup {inst'[j].current}
    BY <1>1, <1>3, <2>1
  <2> QED
    BY <1>1, <1>2, <1>5, <1>b, <2>2, IdleSessions
<1> QED
  BY <1>4, <1>6, <1>7, <1>8 DEF IInv

(* An interrupted unlink is answered, and the pending commands are listed. *)
LEMMA RecoverUnlinksStep ==
  ASSUME IInv, NEW i \in Instances, RecoverUnlinks(i)
  PROVE  IInv'
<1>1. /\ inst[i].phase = "callbacks" /\ inst[i].todo = {}
      /\ inst' \in [Instances -> Procs] /\ \A j \in Instances \ {i} : inst'[j] = inst[j]
      /\ inst'[i].phase = "commands" /\ inst'[i].todo = {k \in Keys : command'[k] = "pending"}
      /\ UNCHANGED <<session, lease, live, minted, submitted, origin, thread, handed>>
  BY RecoverUnlinksEffect DEF ProcSet
<1>2. /\ AllIdle /\ account.remote # "pending"
      /\ \A j \in Instances \ {i} : inst[j].phase \in {"unborn", "dead"}
  BY <1>1, Recovering
<1>3. \A j \in Instances : j = i \/ inst'[j].phase \in {"unborn", "dead"}
  BY <1>1, <1>2
<1>4. \A s \in Sessions : session[s].status # "processing"
  BY <1>1 DEF IInv, SessionInv
<1>5. ~Phase({"serving"})'
  BY <1>1, <1>3 DEF Phase
<1>6. SessionInv'
  <2>1. \A j \in Instances : inst'[j].phase # "settle"
    BY <1>1, <1>3
  <2> QED
    BY <1>1, <1>2, <1>4, <2>1, IdleSessions
<1>7. CASE UNCHANGED <<account, command>>
  <2>1. session' \in [Sessions -> SessionRows] /\ command' \in [Keys -> CommandValues]
    BY <1>1, <1>7 DEF IInv, Shapes
  <2>2. Shapes' /\ ProcessInv' /\ AccountInv' /\ LockInv' /\ LeaseInv' /\ TraceInv'
    BY <1>1, <1>7, <2>1, RecoveryRest
  <2>3. CommandInv'
    BY <1>1, <1>2, <1>3, <1>5, <1>7, IdleCommands
  <2>4. RemoteInv'
    BY <1>2, <1>7, IdleRemote DEF IInv, RemoteInv
  <2> QED
    BY <1>6, <2>2, <2>3, <2>4 DEF IInv
<1>8. CASE /\ account.status = "unlinked" /\ account.remote = "unknown" /\ account.command \in Unlinks
           /\ Row(account', account.status, account.cred, account.blob, account.revision, account.claim,
                  account.owner, account.remote, account.remoteOwner, None)
           /\ \/ command[account.command] = "pending" /\ CommandSet(account.command, "revocation_unknown")
              \/ command' = command
  <2>1. /\ account' \in AccountRows /\ account'.status = "unlinked" /\ account'.remote = "unknown"
        /\ account'.cred = account.cred /\ account'.blob = account.blob
        /\ account.status = "unlinked" /\ account.remote = "unknown" /\ account.command \in Unlinks
    BY <1>8 DEF Row
  <2>2. /\ command' \in [Keys -> CommandValues]
        /\ \A k \in Keys : command'[k] = command[k] \/ (k = account.command /\ command'[k] = "revocation_unknown")
    BY <1>8 DEF CommandSet, IInv, Shapes
  <2>3. ProcessInv' /\ LockInv'
    BY <1>2, <1>3, IdleProcess
  <2>4. LeaseInv' /\ Shapes'
    <3>1. LeaseInv'
      BY <1>1, <1>2, <2>1, IdleLeases
    <3> QED
      BY <1>1, <2>1, <2>2, <3>1 DEF IInv, Shapes
  <2>5. AccountInv'
    BY <1>1, <2>1 DEF IInv, AccountInv, Revoked
  <2>6. CommandInv'
    <3>1. \A s \in Sessions : command'[s] = command[s]
      BY <2>1, <2>2, AccountAssumption DEF Keys
    <3> QED
      BY <1>1, <1>2, <1>3, <1>5, <3>1, IdleCommands
  <2>7. RemoteInv'
    <3>1. \A k \in Unlinks : command'[k] \in Answers =>
           account'.status = "unlinked" /\ account'.remote \in Revoked /\ AnswerOf(account'.remote) = command'[k]
      <4>1. AnswerOf("unknown") = "revocation_unknown" /\ "unknown" \in Revoked
        BY DEF AnswerOf, Revoked
      <4>2. \A k \in Unlinks : command[k] \in Answers => AnswerOf("unknown") = command[k]
        BY <2>1 DEF IInv, RemoteInv
      <4> QED
        BY <2>1, <2>2, <4>1, <4>2 DEF Keys
    <3> QED
      BY <1>2, <2>1, <3>1, IdleRemote
  <2>8. TraceInv'
    <3>1. ~GrantGone /\ ~GrantGone'
      BY <2>1 DEF GrantGone
    <3>2. Kept({"refresh", "finish"})
      BY <1>1 DEF Kept
    <3> QED
      BY <1>1, <2>1, <3>1, <3>2, TraceUnlinked
  <2> QED
    BY <1>6, <2>3, <2>4, <2>5, <2>6, <2>7, <2>8 DEF IInv
<1> QED
  BY <1>7, <1>8, RecoverUnlinksEffect

(* The other pending commands are answered, and the process serves. *)
LEMMA RecoverCommandsStep ==
  ASSUME IInv, NEW i \in Instances, RecoverCommands(i)
  PROVE  IInv'
<1>1. /\ inst[i].phase = "commands"
      /\ inst' \in [Instances -> Procs] /\ \A j \in Instances \ {i} : inst'[j] = inst[j]
      /\ UNCHANGED <<session, account, lease, live, minted, submitted, origin, thread, handed>>
      /\ \/ inst[i].todo = {} /\ command' = command /\ inst'[i].phase = "serving"
         \/ \E k \in Keys : /\ CommandSet(k, "result_unknown")
                            /\ inst'[i].phase = "commands" /\ inst'[i].todo = inst[i].todo \ {k}
         \/ command' = command /\ inst'[i].phase = "dead"
  BY RecoverCommandsEffect DEF ProcSet
<1>2. /\ AllIdle /\ account.remote # "pending"
      /\ \A j \in Instances \ {i} : inst[j].phase \in {"unborn", "dead"}
  BY <1>1, Recovering
<1>3. \A j \in Instances : j = i \/ inst'[j].phase \in {"unborn", "dead"}
  BY <1>1, <1>2
<1>4. \A s \in Sessions : session[s].status # "processing"
  <2>1. \A s \in Sessions : ~Someone(Callback, s)
    BY <1>1, <1>2, IdleNowhere DEF AllIdle, Someone
  <2>2. Phase({"commands", "serving"})
    BY <1>1 DEF Phase
  <2> QED
    BY <2>1, <2>2 DEF IInv, SessionInv
<1>5. /\ command' \in [Keys -> CommandValues]
      /\ \A k \in Keys : command'[k] = command[k] \/ command'[k] = "result_unknown"
  <2>1. command \in [Keys -> CommandValues]
    BY DEF IInv, Shapes
  <2> QED
    BY <1>1, <2>1 DEF CommandSet
<1>6. Shapes' /\ ProcessInv' /\ AccountInv' /\ LockInv' /\ LeaseInv' /\ TraceInv'
  <2>1. session' \in [Sessions -> SessionRows]
    BY <1>1 DEF IInv, Shapes
  <2> QED
    BY <1>1, <1>5, <2>1, RecoveryRest
<1>7. SessionInv'
  <2>1. \A j \in Instances : inst'[j].phase # "settle"
    BY <1>1, <1>3
  <2> QED
    BY <1>1, <1>2, <1>4, <2>1, IdleSessions
<1>8. RemoteInv'
  <2>1. "result_unknown" \notin Answers
    BY DEF Answers
  <2>2. \A k \in Unlinks : command'[k] \in Answers => command'[k] = command[k]
    BY <1>5, <2>1 DEF Keys
  <2> QED
    BY <1>1, <1>2, <2>2, IdleRemote DEF IInv, RemoteInv
<1>9. CommandInv'
  <2>1. \A k \in Keys : command[k] = "pending" => k \in inst[i].todo
    BY <1>1 DEF IInv, CommandInv
  <2>2. \A k \in Keys : command'[k] = "pending" => ~Phase({"serving"})'
    BY <1>1, <1>3, <2>1 DEF Phase
  <2>3. \A k \in Keys : inst'[i].phase = "commands" /\ command'[k] = "pending" => k \in inst'[i].todo
    <3>1. CASE inst'[i].phase # "commands"
      BY <3>1
    <3>2. CASE inst'[i].phase = "commands"
      <4>1. PICK m \in Keys : CommandSet(m, "result_unknown") /\ inst'[i].todo = inst[i].todo \ {m}
        BY <1>1, <3>2
      <4> QED
        BY <2>1, <4>1 DEF CommandSet
    <3> QED
      BY <3>1, <3>2
  <2>4. \A s \in Sessions : command'[s] = command[s] \/ command'[s] \notin {"none", "pending"}
    BY <1>5 DEF Keys
  <2>5. \A j \in Instances : inst'[j].phase = "commands" =>
           \A k \in Keys : command'[k] = "pending" => k \in inst'[j].todo
    BY <1>3, <2>3
  <2> QED
    BY <1>1, <1>2, <2>2, <2>4, <2>5, IdleCommands
<1> QED
  BY <1>6, <1>7, <1>8, <1>9 DEF IInv

(* A process starts and settles what the last one left in the tables. *)
LEMMA StartStep ==
  ASSUME IInv, MaxLive = 1, NEW i \in Instances, Start(i)
  PROVE  IInv'
<1>1. /\ \A j \in Instances : inst[j].phase \in {"unborn", "dead"}
      /\ \A t \in Threads : thread[t] = Idle /\ thread[t].pc = "idle"
      /\ inst' \in [Instances -> Procs] /\ \A j \in Instances \ {i} : inst'[j] = inst[j]
      /\ inst'[i].phase = "list"
      /\ session' \in [Sessions -> SessionRows]
      /\ \A s \in Sessions :
           \/ session'[s] = session[s] /\ ~(session[s].status = "processing" /\ session[s].blob = None)
           \/ /\ session'[s].status = "failed" /\ session'[s].blob = None /\ session'[s].outcome = "unknown"
              /\ session[s].status = "processing" /\ session[s].blob = None
      /\ UNCHANGED <<command, live, minted, submitted, origin, thread, handed>>
  BY StartEffect DEF ProcSet
<1>2. AllIdle
  BY <1>1 DEF AllIdle, IInv, Shapes
<1>3. \A j \in Instances : j = i \/ inst'[j].phase \in {"unborn", "dead"}
  BY <1>1
<1>4. ProcessInv' /\ LockInv'
  BY <1>2, <1>3, IdleProcess
<1>5. ~Phase({"serving"})' /\ ~Phase({"commands", "serving"})'
  BY <1>1, <1>3 DEF Phase
<1>6. CommandInv'
  <2>1. \A s \in Sessions : session'[s].status # "none" => session[s].status # "none"
    BY <1>1
  <2> QED
    BY <1>1, <1>2, <1>3, <1>5, <2>1, IdleCommands
<1>7. SessionInv'
  <2>1. \A s \in Sessions :
          /\ session'[s].status \in {"none", "pending"} => session[s].status \in {"none", "pending"}
          /\ session'[s].status = "processing" => session'[s].blob # None
    BY <1>1
  <2>2. \A j \in Instances : inst'[j].phase \notin {"callbacks", "settle"}
    BY <1>1, <1>3
  <2> QED
    BY <1>1, <1>2, <1>5, <2>1, <2>2, IdleSessions
<1>8. (LeaseInv' /\ AccountInv' /\ RemoteInv' /\ TraceInv' /\ account' \in AccountRows
        /\ lease' \in [Leases -> {"none", "open", "redeemed", "deleted"}]) => IInv'
  BY <1>1, <1>4, <1>6, <1>7 DEF IInv, Shapes
<1>9. \A t \in Threads : thread'[t].pc \notin {"refresh", "finish", "set_status"}
  BY <1>1
<1>10. CASE /\ account.cred = "refresh_pending" /\ account.status = "active" /\ DropLeases
            /\ Row(account', "active", "reauthorization_required", None, account.revision, None, None,
                   account.remote, account.remoteOwner, account.command)
  <2>1. /\ account' \in AccountRows /\ account'.status = "active" /\ account'.blob = None
        /\ account'.cred = "reauthorization_required" /\ account'.remote = account.remote
        /\ account'.command = account.command /\ account.status = "active"
    BY <1>10 DEF Row
  <2>2. LeaseInv' /\ lease' \in [Leases -> {"none", "open", "redeemed", "deleted"}]
    BY <1>1, <1>2, <1>10, IdleLeases
  <2>3. account.remote = None /\ account.command = None
    BY <2>1 DEF IInv, AccountInv
  <2>4. AccountInv'
    <3>1. \A k \in Tokens : k # None
      BY AccountAssumption DEF Tokens
    <3> QED
      BY <1>1, <2>1, <2>3, <3>1, AccountAssumption DEF IInv, AccountInv
  <2>5. RemoteInv'
    <3>1. account'.remote # "pending"
      BY <2>1, <2>3, AccountAssumption
    <3>2. \A k \in Unlinks : command'[k] \notin Answers
      BY <1>1, <2>1 DEF IInv, RemoteInv
    <3> QED
      BY <1>2, <3>1, <3>2, IdleRemote
  <2>6. TraceInv'
    <3>1. \A k \in live' : Traced(k)'
      BY <2>1 DEF Traced
    <3>2. ~GrantGone'
      BY <2>1 DEF GrantGone
    <3> QED
      BY <3>1, <3>2 DEF TraceInv
  <2> QED
    BY <1>8, <2>1, <2>2, <2>4, <2>5, <2>6
<1>11. CASE /\ account.status = "unlinked" /\ account.remote = "pending" /\ lease' = lease
            /\ Row(account', "unlinked", "ready", account.blob, account.revision, account.claim,
                   account.owner, "unknown", None, account.command)
  <2>1. /\ account' \in AccountRows /\ account'.status = "unlinked" /\ account'.blob = account.blob
        /\ account'.cred = "ready" /\ account'.remote = "unknown" /\ account.status = "unlinked"
        /\ account.remote = "pending" /\ lease' = lease
    BY <1>11 DEF Row
  <2>2. LeaseInv' /\ lease' \in [Leases -> {"none", "open", "redeemed", "deleted"}]
    BY <1>1, <1>2, <2>1, IdleLeases
  <2>3. AccountInv'
    <3>1. account.blob = None /\ account.cred = "ready"
      BY <2>1 DEF IInv, AccountInv
    <3> QED
      BY <1>1, <2>1, <3>1 DEF IInv, AccountInv, Revoked
  <2>4. RemoteInv'
    <3>1. \A k \in Unlinks : command'[k] \notin Answers
      BY <1>1, <2>1 DEF IInv, RemoteInv, Revoked
    <3> QED
      BY <1>2, <2>1, <3>1, IdleRemote
  <2>5. TraceInv'
    <3>1. ~GrantGone'
      BY <2>1 DEF GrantGone
    <3>2. \A k \in live' : Traced(k)'
      BY <2>1, <3>1 DEF Traced
    <3> QED
      BY <3>1, <3>2 DEF TraceInv
  <2> QED
    BY <1>8, <2>1, <2>2, <2>3, <2>4, <2>5
<1>12. CASE /\ account.cred # "refresh_pending" /\ account.remote # "pending"
            /\ account' = account /\ ((DropLeases /\ account.cred = "reauthorization_required") \/ lease' = lease)
  <2>1. LeaseInv' /\ lease' \in [Leases -> {"none", "open", "redeemed", "deleted"}]
    BY <1>1, <1>2, <1>12, IdleLeases
  <2>2. AccountInv'
    BY <1>1, <1>12, AccountKept DEF IInv
  <2>3. RemoteInv'
    BY <1>1, <1>2, <1>12, IdleRemote DEF IInv, RemoteInv
  <2>4. TraceInv'
    <3>1. Shapes /\ LockInv /\ TraceInv /\ UNCHANGED account
      BY <1>12 DEF IInv
    <3>2. Kept({"refresh", "finish", "set_status"})
      BY <1>1 DEF Kept
    <3>3. /\ \A k \in live : origin'[k] = origin[k]
          /\ \A k \in live' \ live : k \notin 1..minted /\ Traced(k)'
      BY <1>1
    <3>4. \A k \in live, s \in Sessions : origin[k] = s => \/ session'[s] = session[s]
                                                        \/ session'[s].status \in {"processing", "pruned"}
                                                        \/ session'[s].outcome \in {"failed", "unknown"}
      BY <1>1
    <3> QED
      BY <3>1, <3>2, <3>3, <3>4, TraceKept
  <2>5. account' \in AccountRows
    BY <1>12 DEF IInv, Shapes
  <2> QED
    BY <1>8, <2>1, <2>2, <2>3, <2>4, <2>5
<1> QED
  BY <1>10, <1>11, <1>12, StartEffect

-----------------------------------------------------------------------------
(* The invariant holds. *)

(* It holds at the start. *)
LEMMA InitIInv ==
  ASSUME Init
  PROVE  IInv
<1>1. /\ \A t \in Threads : thread[t] = Idle /\ thread[t].pc = "idle"
      /\ \A i \in Instances : inst[i] = Unborn /\ inst[i].phase = "unborn"
      /\ \A s \in Sessions : session[s].status = "none"
      /\ account.status = "none" /\ account.cred = "ready" /\ account.blob = None
      /\ account.remote = None /\ account.command = None
      /\ live = {} /\ minted = 0
      /\ \A k \in Tokens : submitted[k] = 0 /\ origin[k] = None
      /\ \A l \in Leases : lease[l] = "none" /\ handed[l] = 0
      /\ \A k \in Keys : command[k] = "none"
  BY DEF Init, Idle, Unborn, NoSession, NoAccount
<1>2. Shapes
  <2>1. NoSession \in SessionRows
    BY DEF NoSession, SessionRows
  <2>2. NoAccount \in AccountRows
    BY DEF NoAccount, AccountRows, RemoteStatus
  <2>3. Unborn \in Procs
    BY DEF Unborn, Procs, Phases
  <2>4. MaxToken \in Nat
    BY AccountAssumption
  <2> QED
    BY <2>1, <2>2, <2>3, <2>4, IdleTyped DEF Init, Shapes, CommandValues
<1>3. \A i \in Instances : ~Running(i)
  BY <1>1 DEF Running
<1>4. ProcessInv
  BY <1>1, <1>3 DEF ProcessInv
<1>5. AccountInv
  <2>1. \A k \in Tokens : k # None
    BY AccountAssumption DEF Tokens
  <2>2. None # "pending"
    BY AccountAssumption
  <2> QED
    BY <1>1, <2>1, <2>2 DEF AccountInv
<1>6. LockInv
  BY <1>1, IdleNowhere DEF LockInv, LockOK
<1>7. LeaseInv
  BY <1>1, IdleNowhere DEF LeaseInv
<1>8. CommandInv
  BY <1>1, IdleNowhere DEF CommandInv, Someone, Phase
<1>9. RemoteInv
  <2>1. \A k \in Unlinks : command[k] \notin Answers
    BY <1>1 DEF Keys, Answers
  <2>2. account.remote # "pending"
    BY <1>1, AccountAssumption
  <2> QED
    BY <1>1, <2>1, <2>2, IdleNowhere DEF RemoteInv
<1>10. SessionInv
  <2>1. \A k \in Tokens, s \in Sessions : origin[k] # s
    BY <1>1, AccountAssumption DEF Keys
  <2> QED
    BY <1>1, <2>1, IdleNowhere DEF SessionInv
<1>11. TraceInv
  BY <1>1 DEF TraceInv, GrantGone
<1> QED
  BY <1>2, <1>4, <1>5, <1>6, <1>7, <1>8, <1>9, <1>10, <1>11 DEF IInv

(* It holds after a step of a request. *)
LEMMA RequestStep ==
  ASSUME IInv, NEW t \in Threads, Request(t) \/ Handle(t)
  PROVE  IInv'
<1>1. CASE Request(t)
  <2>1. PICK i \in Instances :
          \/ \E s \in Sessions : ReserveBeginLink(t, i, s) \/ ClaimSession(t, i, s)
          \/ \E k \in Unlinks : ReserveUnlink(t, i, k)
          \/ \E l \in Leases : RedeemLease(t, i, l)
    BY <1>1 DEF Request
  <2>2. ASSUME NEW s \in Sessions, ReserveBeginLink(t, i, s) PROVE IInv'
    BY <2>2, ReserveBeginLinkEffect, ReserveStep DEF Keys
  <2>3. ASSUME NEW s \in Sessions, ClaimSession(t, i, s) PROVE IInv'
    BY <2>3, ClaimSessionStep
  <2>4. ASSUME NEW k \in Unlinks, ReserveUnlink(t, i, k) PROVE IInv'
    BY <2>4, ReserveUnlinkEffect, ReserveStep DEF Keys
  <2>5. ASSUME NEW l \in Leases, RedeemLease(t, i, l) PROVE IInv'
    BY <2>5, RedeemLeaseStep
  <2> QED
    BY <2>1, <2>2, <2>3, <2>4, <2>5
<1>2. CASE Handle(t)
  BY <1>2, CreateSessionStep, ExchangeStep, PersistStep, VerifyStep, InsertStep, RevokeMintedStep, SettleStep,
     ReadCredentialStep, ClaimRefreshStep, RefreshStep, FinishStep, FailStep,
     ReadAccountStep, UnlinkStep, RevokeRemoteStep, SetStatusStep, RecordErrorStep DEF Handle
<1> QED
  BY <1>1, <1>2

(* It holds after every step. *)
LEMMA IInvStep ==
  ASSUME MaxLive = 1, IInv, [Next]_vars
  PROVE  IInv'
<1>1. ASSUME NEW t \in Threads, Request(t) \/ Handle(t) PROVE IInv'
  BY <1>1, RequestStep
<1>2. ASSUME NEW i \in Instances, Boot(i) PROVE IInv'
  BY <1>2, StartStep, ListCallbacksStep, RevokeInterruptedStep, SettleInterruptedStep, RecoverUnlinksStep,
     RecoverCommandsStep DEF Boot
<1>3. ASSUME NEW i \in Instances, Crash(i) PROVE IInv'
  BY <1>3, CrashStep
<1>4. ASSUME NEW i \in Instances, Prune(i) PROVE IInv'
  BY <1>4, PruneStep
<1>5. ASSUME NEW i \in Instances, NEW l \in Leases, CreateLease(i, l) PROVE IInv'
  BY <1>5, CreateLeaseStep
<1>6. CASE TokenExpires
  BY <1>6, TokenExpiresStep
<1>7. CASE UNCHANGED vars
  <2>1. UNCHANGED <<session, account, lease, command, live, minted, inst, thread, submitted, handed, origin>>
    BY <1>7 DEF vars
  <2>2. Shapes' /\ ProcessInv' /\ AccountInv'
    BY <2>1 DEF IInv, Shapes, ProcessInv, AccountInv, Running
  <2>3. LockInv' /\ LeaseInv'
    BY <2>1 DEF IInv, LockInv, LockOK, HasClaim, LeaseInv
  <2>4. CommandInv' /\ RemoteInv'
    BY <2>1 DEF IInv, CommandInv, RemoteInv, Someone, Phase, SomeRunning, Running
  <2>5. SessionInv' /\ TraceInv'
    BY <2>1 DEF IInv, SessionInv, CallbackOK, Someone, Phase, TraceInv, Traced, GrantGone
  <2> QED
    BY <2>2, <2>3, <2>4, <2>5 DEF IInv
<1> QED
  BY <1>1, <1>2, <1>3, <1>4, <1>5, <1>6, <1>7 DEF Next

-----------------------------------------------------------------------------
(* The theorems, for one process at a time on the database. *)

(* The invariant holds in every state that threads, crashes and restarts reach. *)
THEOREM AccountInvariant ==
  ASSUME MaxLive = 1
  PROVE  Spec => []IInv
<1>1. Init => IInv
  BY InitIInv
<1>2. IInv /\ [Next]_vars => IInv'
  BY IInvStep
<1> QED
  BY <1>1, <1>2, PTL DEF Spec

(* The tables hold what their schema and their writers allow. *)
THEOREM AccountTyped ==
  ASSUME MaxLive = 1
  PROVE  Spec => []TypeOK
<1>1. ASSUME IInv PROVE TypeOK
  <2>1. live \subseteq Tokens
    BY <1>1, AccountAssumption DEF IInv, Shapes, Tokens
  <2>2. session \in [Sessions -> [blob : Tokens \cup {None},
          status : {"none", "pending", "processing", "completed", "failed", "pruned"},
          outcome : {None, "not_issued", "revoked", "failed", "unknown"}]]
    BY <1>1 DEF IInv, Shapes, SessionRows
  <2>3. account \in [status : {"none", "active", "unlinked"}, blob : Tokens \cup {None},
          cred : {"ready", "refresh_pending", "reauthorization_required"},
          stale : BOOLEAN, revision : Nat,
          claim : Threads \cup {None}, owner : Instances \cup {None}, remote : RemoteStatus,
          remoteOwner : Instances \cup {None}, command : Unlinks \cup {None}]
    BY <1>1 DEF IInv, Shapes, AccountRows
  <2>4. /\ lease \in [Leases -> {"none", "open", "redeemed", "deleted"}]
        /\ command \in [Keys -> {"none", "pending", "value", "error", "result_unknown"} \cup Answers]
        /\ minted \in 0..MaxToken
    BY <1>1 DEF IInv, Shapes, CommandValues
  <2>5. \A t \in Threads : thread[t].pc \in ThreadPC
    BY <1>1 DEF IInv, Shapes, Locals
  <2>6. \A i \in Instances : inst[i].phase \in {"unborn", "list", "callbacks", "settle",
                                                "commands", "serving", "dead"}
    BY <1>1 DEF IInv, Shapes, Procs, Phases
  <2> QED
    BY <2>1, <2>2, <2>3, <2>4, <2>5, <2>6 DEF TypeOK
<1> QED
  BY <1>1, AccountInvariant, PTL

(* _fresh_credential never sends a refresh token twice, and never leaves a     *)
(* token that was sent as a credential to use.                                 *)
THEOREM TokenRotatesOnce ==
  ASSUME MaxLive = 1
  PROVE  Spec => []RotateOnce
<1>1. ASSUME IInv PROVE RotateOnce
  <2> SUFFICES ASSUME NEW k \in Tokens
               PROVE  /\ submitted[k] <= 1
                      /\ submitted[k] = 1 /\ account.blob = k => account.cred = "refresh_pending"
    BY DEF RotateOnce
  <2>1. /\ submitted[k] <= 1 /\ (account.blob = k /\ account.cred = "ready" => submitted[k] = 0)
        /\ account.cred = "reauthorization_required" => account.blob = None
    BY <1>1 DEF IInv, AccountInv
  <2>2. k # None
    BY AccountAssumption DEF Tokens
  <2>3. account.cred \in {"ready", "refresh_pending", "reauthorization_required"}
    BY <1>1 DEF IInv, Shapes, AccountRows
  <2> QED
    BY <2>1, <2>2, <2>3
<1> QED
  BY <1>1, AccountInvariant, PTL

(* A lease gives out one credential at most, and no open lease outlives the    *)
(* credential it was issued for.                                               *)
THEOREM LeasesEnd ==
  ASSUME MaxLive = 1
  PROVE  Spec => []LeasesEndWithCredential
<1>1. IInv => LeasesEndWithCredential
  BY DEF IInv, LeaseInv, LeasesEndWithCredential
<1> QED
  BY <1>1, AccountInvariant, PTL

(* The recorded answer of an unlink command is what became of the account,     *)
(* also when a crash came between the local unlink and the outcome.            *)
THEOREM UnlinkAnswersTruly ==
  ASSUME MaxLive = 1
  PROVE  Spec => []UnlinkTruth
<1>1. ASSUME IInv PROVE UnlinkTruth
  <2>1. None \notin Revoked
    BY AccountAssumption DEF Revoked
  <2> QED
    BY <1>1, <2>1 DEF IInv, RemoteInv, UnlinkTruth
<1> QED
  BY <1>1, AccountInvariant, PTL

(* What a process left undone is taken up by a request or by the recovery of   *)
(* the next process before it serves.                                          *)
THEOREM NothingStaysOrphaned ==
  ASSUME MaxLive = 1
  PROVE  Spec => []NothingOrphaned
<1>1. ASSUME IInv PROVE NothingOrphaned
  <2>1. \A s \in Sessions : session[s].status = "processing" =>
          Someone(Callback, s) \/ ~Phase({"commands", "serving"})
    BY <1>1 DEF IInv, SessionInv
  <2>2. \A k \in Keys : command[k] = "pending" => Someone(Commanding, k) \/ ~Phase({"serving"})
    BY <1>1 DEF IInv, CommandInv
  <2>3. account.remote = "pending" /\ SomeRunning =>
          \E t \in Threads : thread[t].key = account.command
    BY <1>1 DEF IInv, RemoteInv
  <2> QED
    BY <2>1, <2>2, <2>3 DEF NothingOrphaned, Someone, Phase, SomeRunning
<1> QED
  BY <1>1, AccountInvariant, PTL

(* Every token that works at GitHub is the credential of the account, in the   *)
(* hands of a request, or behind a row that admits it, except one whose answer *)
(* was taken for a refusal and recorded as not issued.                         *)
THEOREM TokensAreTracked ==
  ASSUME MaxLive = 1
  PROVE  Spec => []TokenTracked
<1>1. ASSUME IInv PROVE TokenTracked
  <2> SUFFICES ASSUME NEW k \in live
               PROVE  \/ origin[k] = "rejected"
                      \/ account.blob = k
                      \/ account.cred # "ready"
                      \/ account.status = "unlinked" /\ account.remote \in {"pending", "failed", "unknown"}
                      \/ \E t \in Threads : thread[t].tok = k
                      \/ \E s \in Sessions : /\ origin[k] = s
                                             /\ \/ session[s].status \in {"processing", "pruned"}
                                                \/ session[s].outcome \in {"failed", "unknown"}
    BY DEF TokenTracked
  <2>1. Traced(k)
    BY <1>1 DEF IInv, TraceInv
  <2>2. account.status = "unlinked" /\ ~GrantGone => account.remote \in {"pending", "failed", "unknown"}
    BY <1>1 DEF IInv, AccountInv, GrantGone, Revoked
  <2> QED
    BY <2>1, <2>2 DEF Traced
<1> QED
  BY <1>1, AccountInvariant, PTL

=============================================================================
