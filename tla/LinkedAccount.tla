--------------------------- MODULE LinkedAccount ---------------------------
(***************************************************************************)
(* The GitHub account of one person in the account center: the link        *)
(* session and its OAuth callback, single-use credential leases, the       *)
(* durable refresh claim, unlinking with remote revocation, idempotent     *)
(* commands and the recovery a restarted process runs.  Every method of    *)
(* the store is one SQLite transaction, so one action here; the calls to   *)
(* GitHub lie between them and may be rejected or end without an answer.   *)
(*                                                                         *)
(* Source: plugins/accounts/account-center, store.py and plugin.py.        *)
(***************************************************************************)
EXTENDS Naturals, FiniteSets

CONSTANTS
  Threads,      \* request threads of the plugin server
  Sessions,     \* link sessions; also the idempotency keys of begin_link
  Unlinks,      \* idempotency keys of unlink
  Leases,       \* credential leases
  MaxToken,     \* bound: tokens GitHub mints
  MaxInstance,  \* bound: processes started on the database, one crash less
  MaxLive,      \* processes that may use the database at the same time
  None          \* SQL NULL, an absent row, an empty hand

Keys      == Sessions \cup Unlinks
Tokens    == 1..MaxToken
Instances == 1..MaxInstance

ASSUME AccountAssumption ==
  /\ MaxToken \in Nat /\ MaxInstance \in Nat \ {0} /\ MaxLive \in Nat \ {0}
  /\ Sessions \cap Unlinks = {} /\ {"refresh", "rejected"} \cap Keys = {}
  /\ None \notin Keys \cup Leases \cup Threads \cup Nat
  /\ None \notin {"refresh", "rejected", "pending", "revoked", "failed", "unknown"}

VARIABLES
  session,   \* link_sessions
  account,   \* the accounts row of the GitHub identity
  lease,     \* credential_leases
  command,   \* command_idempotency: status or recorded answer
  live,      \* GitHub: the tokens that work
  minted,    \* GitHub: number of tokens minted so far
  inst,      \* the processes: startup phase, work list and callback at hand
  thread,    \* request threads: program counter and locals
  submitted, \* history: how often a token's refresh token was sent to GitHub
  handed,    \* history: how often a lease gave out a credential
  origin,    \* history: the session whose callback minted a token, or "refresh",
             \* or "rejected" for one whose answer was taken for a refusal
  owed       \* history: persisted callback tokens neither linked nor sent to
             \* GitHub for revocation, nor given up by their own callback

vars == <<session, account, lease, command, live, minted, inst, thread,
          submitted, handed, origin, owed>>

RemoteStatus == {None, "pending", "revoked", "failed", "unknown"}
Answers      == {"unlinked", "revocation_failed", "revocation_unknown"}

\* What a thread may be about to do.  The first row is a callback, the second
\* a redemption, the third an unlink.
ThreadPC == {"idle", "create_session",
  "exchange", "persist", "verify", "insert", "revoke_minted", "settle",
  "fresh", "claim", "doomed", "refresh", "finish", "fail",
  "read", "unlink", "revoke_remote", "set_status", "record_error"}

NoSession == [status |-> "none", blob |-> None, outcome |-> None]
NoAccount == [status |-> "none", cred |-> "ready", blob |-> None, stale |-> FALSE,
              revision |-> 0, claim |-> None, owner |-> None,
              remote |-> None, remoteOwner |-> None, command |-> None]
Idle      == [pc |-> "idle", inst |-> None, key |-> None, tok |-> None,
              revision |-> 0, outcome |-> None]
Unborn    == [phase |-> "unborn", todo |-> {}, current |-> None, outcome |-> None]

Init ==
  /\ session   = [s \in Sessions |-> NoSession]
  /\ account   = NoAccount
  /\ lease     = [l \in Leases |-> "none"]
  /\ command   = [k \in Keys |-> "none"]
  /\ live      = {}
  /\ minted    = 0
  /\ inst      = [i \in Instances |-> Unborn]
  /\ thread    = [t \in Threads |-> Idle]
  /\ submitted = [k \in Tokens |-> 0]
  /\ handed    = [l \in Leases |-> 0]
  /\ origin    = [k \in Tokens |-> None]
  /\ owed      = {}

storeVars   == <<session, account, lease, command>>
githubVars  == <<live, minted, submitted, origin>>

-----------------------------------------------------------------------------
(* Helpers.                                                                 *)

Running(i) == inst[i].phase \notin {"unborn", "dead"}

\* A thread takes up a request in some serving process.
Begin(t, i, pc, k) ==
  /\ thread[t].pc = "idle"
  /\ inst[i].phase = "serving"
  /\ thread' = [thread EXCEPT ![t] = [Idle EXCEPT !.pc = pc, !.inst = i, !.key = k]]

At(t, pc)     == thread[t].pc = pc
Goto(t, pc)   == thread' = [thread EXCEPT ![t].pc = pc]
Return(t)     == thread' = [thread EXCEPT ![t] = Idle]
DropLeases    == lease' = [l \in Leases |-> IF lease[l] = "none" THEN "none" ELSE "deleted"]

\* GitHub mints a fresh token; `replaces` stop working.
Mint(from, replaces) ==
  /\ minted < MaxToken
  /\ minted' = minted + 1
  /\ live'   = (live \ replaces) \cup {minted + 1}
  /\ origin' = [origin EXCEPT ![minted + 1] = from]

\* DELETE /applications/{client}/grant: a working token ends the grant of the
\* user and with it all tokens; a call without an answer may have done so.
Revocation(tok, outcome) ==
  /\ \/ tok \in live    /\ outcome = "revoked" /\ live' = {}
     \/ outcome = "failed" /\ live' = live
     \/ outcome = "unknown" /\ live' \in {live} \cup {{} : x \in {tok} \cap live}
  /\ UNCHANGED <<minted, submitted, origin>>

\* _complete_command_in_transaction: one reserved command, once.
CompleteCommand(k, answer) ==
  /\ command[k] = "pending"
  /\ command' = [command EXCEPT ![k] = answer]

-----------------------------------------------------------------------------
(* begin_link: reserve the command, then create the session and record the  *)
(* answer in one transaction.                                               *)

ReserveBeginLink(t, i, s) ==
  /\ command[s] = "none"
  /\ command' = [command EXCEPT ![s] = "pending"]
  /\ Begin(t, i, "create_session", s)
  /\ UNCHANGED <<session, account, lease, githubVars, inst, handed, owed>>

CreateSession(t) ==
  /\ At(t, "create_session")
  /\ LET s == thread[t].key IN
     \/ /\ CompleteCommand(s, "value")
        /\ session' = [session EXCEPT ![s].status = "pending"]
     \/ command[s] # "pending" /\ UNCHANGED <<command, session>>
  /\ Return(t)
  /\ UNCHANGED <<account, lease, githubVars, inst, handed, owed>>

-----------------------------------------------------------------------------
(* complete_github_link.                                                    *)

ClaimSession(t, i, s) ==
  /\ session[s].status = "pending"
  /\ session' = [session EXCEPT ![s].status = "processing"]
  /\ Begin(t, i, "exchange", s)
  /\ UNCHANGED <<account, lease, command, githubVars, inst, handed, owed>>

\* The one-time code buys a token, or is rejected, or the answer is lost with
\* or without a token minted.  An error status, an answer over 256 KB and one
\* that is no token count as a rejection, whatever GitHub did before.  A token
\* that breaks the policy is revoked before it is stored.
ExchangeCode(t) ==
  /\ At(t, "exchange")
  /\ \/ /\ Mint(thread[t].key, {})
        /\ \E pc \in {"persist", "revoke_minted"} :
             thread' = [thread EXCEPT ![t].pc = pc, ![t].tok = minted + 1]
     \/ /\ Mint(thread[t].key, {})
        /\ thread' = [thread EXCEPT ![t].pc = "settle", ![t].outcome = "unknown"]
     \/ /\ Mint("rejected", {})
        /\ thread' = [thread EXCEPT ![t].pc = "settle", ![t].outcome = "not_issued"]
     \/ /\ \E o \in {"not_issued", "unknown"} :
             thread' = [thread EXCEPT ![t].pc = "settle", ![t].outcome = o]
        /\ UNCHANGED <<live, minted, origin>>
  /\ UNCHANGED <<storeVars, submitted, inst, handed, owed>>

\* save_pending_callback_credential, called before the identity is verified.
PersistCredential(t) ==
  /\ At(t, "persist")
  /\ LET s == thread[t].key IN
     IF session[s].status = "processing"
     THEN /\ session' = [session EXCEPT ![s].blob = thread[t].tok]
          /\ owed' = owed \cup {thread[t].tok}
          /\ Goto(t, "verify")
     ELSE Goto(t, "revoke_minted") /\ UNCHANGED <<session, owed>>
  /\ UNCHANGED <<account, lease, command, githubVars, inst, handed>>

\* GitHub names the user, or not; an error that is not one of the code's own
\* ends the callback without a revocation.
VerifyIdentity(t) ==
  /\ At(t, "verify")
  /\ \/ \E pc \in {"insert", "revoke_minted"} : Goto(t, pc)
     \/ thread' = [thread EXCEPT ![t].pc = "settle", ![t].outcome = "unknown"]
  /\ UNCHANGED <<storeVars, githubVars, inst, handed, owed>>

\* Mutant: a refused link drops the token without revoking it.
InsertAccountDropping(t) ==
  /\ At(t, "insert")
  /\ LET s == thread[t].key IN
     IF account.status = "none" /\ session[s].status = "processing"
     THEN /\ account' = [NoAccount EXCEPT !.status = "active", !.blob = thread[t].tok]
          /\ session' = [session EXCEPT ![s] = [NoSession EXCEPT !.status = "completed"]]
          /\ owed' = owed \ {thread[t].tok}
          /\ Return(t)
     ELSE /\ thread' = [thread EXCEPT ![t] = [@ EXCEPT !.pc = "settle", !.tok = None,
                                                      !.outcome = "not_issued"]]
          /\ UNCHANGED <<account, session, owed>>
  /\ UNCHANGED <<lease, command, githubVars, inst, handed>>

\* insert_account: refuses an identity that has a row, linked or unlinked, and
\* rolls back when the session is no longer in processing.
InsertAccount(t) ==
  /\ At(t, "insert")
  /\ LET s == thread[t].key IN
     IF account.status = "none" /\ session[s].status = "processing"
     THEN /\ account' = [NoAccount EXCEPT !.status = "active", !.blob = thread[t].tok]
          /\ session' = [session EXCEPT ![s] = [NoSession EXCEPT !.status = "completed"]]
          /\ owed' = owed \ {thread[t].tok}
          /\ Return(t)
     ELSE Goto(t, "revoke_minted") /\ UNCHANGED <<account, session, owed>>
  /\ UNCHANGED <<lease, command, githubVars, inst, handed>>

RevokeMinted(t) ==
  /\ At(t, "revoke_minted")
  /\ \E o \in RemoteStatus \ {None, "pending"} :
       /\ Revocation(thread[t].tok, o)
       /\ thread' = [thread EXCEPT ![t].pc = "settle", ![t].tok = None, ![t].outcome = o]
  /\ owed' = owed \ {thread[t].tok}
  /\ UNCHANGED <<storeVars, inst, handed>>

\* Mutant: the two parameters of the UPDATE are swapped.
FailedSessionSwapped(s, outcome) ==
  IF session[s].status = "processing"
  THEN [session EXCEPT ![s] = [status |-> outcome, blob |-> None, outcome |-> "failed"]]
  ELSE session

FailedSession(s, outcome) ==
  IF session[s].status = "processing"
  THEN [session EXCEPT ![s] = [status |-> "failed", blob |-> None, outcome |-> outcome]]
  ELSE session

SettleCallback(t) ==
  /\ At(t, "settle")
  /\ session' = FailedSession(thread[t].key, thread[t].outcome)
  /\ owed' = owed \ {thread[t].tok}
  /\ Return(t)
  /\ UNCHANGED <<account, lease, command, githubVars, inst, handed>>

-----------------------------------------------------------------------------
(* Credential leases and the refresh of the token they lead to.             *)

CreateLease(i, l) ==
  /\ inst[i].phase = "serving"
  /\ lease[l] = "none"
  /\ account.status = "active" /\ account.cred = "ready"
  /\ lease' = [lease EXCEPT ![l] = "open"]
  /\ UNCHANGED <<session, account, command, githubVars, inst, thread, handed, owed>>

RedeemLease(t, i, l) ==
  /\ lease[l] = "open"
  /\ account.status = "active"
  /\ account.cred \in {"ready", "refresh_pending"}
  /\ account.blob # None
  /\ lease' = [lease EXCEPT ![l] = "redeemed"]
  /\ Begin(t, i, "fresh", l)
  /\ UNCHANGED <<session, account, command, githubVars, inst, handed, owed>>

\* The per-account lock of a process covers everything after this read.
HoldsLock(t) == thread[t].pc \in {"claim", "doomed", "refresh", "finish", "fail"}
\* Mutant: no lock around the refresh of an account.
LockNotTaken(i) == i \in Instances

LockFree(i)  == \A u \in Threads : ~(HoldsLock(u) /\ thread[u].inst = i)

\* _fresh_credential up to the claim: hand out a token that is not about to
\* expire; `doomed` when there is no usable refresh token.
ReadCredential(t) ==
  /\ At(t, "fresh")
  /\ LockFree(thread[t].inst)
  /\ IF account.status # "active" \/ account.cred # "ready"
     THEN Return(t) /\ UNCHANGED handed
     ELSE IF ~account.stale
     THEN Return(t) /\ handed' = [handed EXCEPT ![thread[t].key] = @ + 1]
     ELSE /\ \E pc \in {"claim", "doomed"} :
               thread' = [thread EXCEPT ![t].pc = pc, ![t].tok = account.blob]
          /\ UNCHANGED handed
  /\ UNCHANGED <<storeVars, githubVars, inst, owed>>

ClaimRefresh(t) ==
  /\ thread[t].pc \in {"claim", "doomed"}
  /\ IF account.status = "active" /\ account.cred = "ready"
     THEN /\ account' = [account EXCEPT !.cred = "refresh_pending", !.revision = @ + 1,
                                        !.claim = t, !.owner = thread[t].inst]
          /\ thread' = [thread EXCEPT ![t].pc = IF @ = "claim" THEN "refresh" ELSE "fail",
                                      ![t].revision = account.revision + 1]
     ELSE Return(t) /\ UNCHANGED account
  /\ UNCHANGED <<session, lease, command, githubVars, inst, handed, owed>>

\* GitHub rotates a working token, rejects another one, or does not answer.
RefreshAtGitHub(t) ==
  /\ At(t, "refresh")
  /\ LET tok == thread[t].tok IN
     /\ submitted' = [submitted EXCEPT ![tok] = @ + 1]
     /\ \/ /\ tok \in live
           /\ Mint("refresh", {tok})
           /\ thread' = [thread EXCEPT ![t].pc = "finish", ![t].tok = minted + 1]
        \/ tok \in live /\ Mint("refresh", {tok}) /\ Goto(t, "fail")
        \/ Goto(t, "fail") /\ UNCHANGED <<live, minted, origin>>
  /\ UNCHANGED <<storeVars, inst, handed, owed>>

HasClaim(t) ==
  /\ account.status = "active" /\ account.cred = "refresh_pending"
  /\ account.claim = t /\ account.owner = thread[t].inst

FinishRefresh(t) ==
  /\ At(t, "finish")
  /\ IF HasClaim(t) /\ account.revision = thread[t].revision
     THEN /\ account' = [account EXCEPT !.cred = "ready", !.blob = thread[t].tok,
                                        !.stale = FALSE, !.claim = None, !.owner = None]
          /\ handed' = [handed EXCEPT ![thread[t].key] = @ + 1]
     ELSE UNCHANGED <<account, handed, owed>>
  /\ Return(t)
  /\ UNCHANGED <<session, lease, command, githubVars, inst, owed>>

Discarded == [account EXCEPT !.cred = "reauthorization_required", !.blob = None,
                             !.claim = None, !.owner = None]

\* Mutant: a failed rotation leaves the leases alone.
FailRefreshKeepingLeases(t) ==
  /\ At(t, "fail")
  /\ IF HasClaim(t) THEN account' = Discarded ELSE UNCHANGED account
  /\ Return(t)
  /\ UNCHANGED <<session, lease, command, githubVars, inst, handed, owed>>

FailRefresh(t) ==
  /\ At(t, "fail")
  /\ IF HasClaim(t) THEN account' = Discarded /\ DropLeases
                    ELSE UNCHANGED <<account, lease>>
  /\ Return(t)
  /\ UNCHANGED <<session, command, githubVars, inst, handed, owed>>

-----------------------------------------------------------------------------
(* unlink: local first, remote second, the outcome third.                   *)

ReserveUnlink(t, i, k) ==
  /\ command[k] = "none"
  /\ command' = [command EXCEPT ![k] = "pending"]
  /\ Begin(t, i, "read", k)
  /\ UNCHANGED <<session, account, lease, githubVars, inst, handed, owed>>

\* Mutant: the answer does not depend on the state of the credential.
ReadAccountOptimistic(t) ==
  /\ At(t, "read")
  /\ \/ account.status = "none" /\ Goto(t, "record_error")
     \/ /\ account.blob # None
        /\ thread' = [thread EXCEPT ![t].pc = "unlink", ![t].tok = account.blob]
     \/ /\ account.status # "none"
        /\ thread' = [thread EXCEPT ![t].pc = "unlink", ![t].outcome = "unlinked"]
  /\ UNCHANGED <<storeVars, githubVars, inst, handed, owed>>

\* get_account and the decryption of the token.  outcome is the answer a row
\* without a readable token leads to.
ReadAccount(t) ==
  /\ At(t, "read")
  /\ \/ account.status = "none" /\ Goto(t, "record_error")
     \/ /\ account.blob # None
        /\ thread' = [thread EXCEPT ![t].pc = "unlink", ![t].tok = account.blob]
     \/ /\ account.status # "none"
        /\ thread' = [thread EXCEPT ![t].pc = "unlink",
             ![t].outcome = IF account.cred # "ready" \/ account.blob # None
                            THEN "revocation_unknown" ELSE "unlinked"]
  /\ UNCHANGED <<storeVars, githubVars, inst, handed, owed>>

\* store.unlink: force_remote_unknown for a token that could not be read; the
\* command is completed here when there is no token to revoke.
Unlink(t) ==
  /\ At(t, "unlink")
  /\ IF \/ account.status # "active"
        \/ thread[t].tok = None /\ command[thread[t].key] # "pending"
     THEN Goto(t, "record_error") /\ UNCHANGED <<account, lease, command>>
     ELSE LET forced == account.blob # None /\ thread[t].tok = None
              remote == IF account.blob # None /\ ~forced THEN "pending"
                        ELSE IF account.cred # "ready" \/ forced THEN "unknown" ELSE None
              due    == remote = "pending"
          IN /\ account' = [NoAccount EXCEPT !.status = "unlinked", !.remote = remote,
                              !.revision = account.revision,
                              !.remoteOwner = IF due THEN thread[t].inst ELSE None,
                              !.command = IF due THEN thread[t].key ELSE None]
             /\ DropLeases
             /\ IF thread[t].tok # None
                THEN Goto(t, "revoke_remote") /\ UNCHANGED command
                ELSE CompleteCommand(thread[t].key, thread[t].outcome) /\ Return(t)
  /\ UNCHANGED <<session, githubVars, inst, handed, owed>>

RevokeRemote(t) ==
  /\ At(t, "revoke_remote")
  /\ \E o \in RemoteStatus \ {None, "pending"} :
       /\ Revocation(thread[t].tok, o)
       /\ thread' = [thread EXCEPT ![t].pc = "set_status", ![t].tok = None, ![t].outcome = o]
  /\ UNCHANGED <<storeVars, inst, handed, owed>>

AnswerOf(outcome) == CASE outcome = "revoked" -> "unlinked"
                       [] outcome = "failed"  -> "revocation_failed"
                       [] outcome = "unknown" -> "revocation_unknown"

\* set_revocation_status: only for the revocation this process started.
SetRevocationStatus(t) ==
  /\ At(t, "set_status")
  /\ IF /\ account.status = "unlinked" /\ account.remote = "pending"
        /\ account.remoteOwner = thread[t].inst
        /\ command[thread[t].key] = "pending"
     THEN /\ account' = [account EXCEPT !.remote = thread[t].outcome,
                                        !.remoteOwner = None, !.command = None]
          /\ CompleteCommand(thread[t].key, AnswerOf(thread[t].outcome))
          /\ Return(t)
     ELSE Goto(t, "record_error") /\ UNCHANGED <<account, command>>
  /\ UNCHANGED <<session, lease, githubVars, inst, handed, owed>>

\* The handler of every failed command in call(): record the error once.
RecordError(t) ==
  /\ At(t, "record_error")
  /\ \/ CompleteCommand(thread[t].key, "error")
     \/ command[thread[t].key] # "pending" /\ UNCHANGED command
  /\ Return(t)
  /\ UNCHANGED <<session, account, lease, githubVars, inst, handed, owed>>

-----------------------------------------------------------------------------
(* prune_expired, which every create_provider_lease runs first: sessions    *)
(* that are not pending and redeemed leases go.                             *)

Prune(i) ==
  /\ inst[i].phase = "serving"
  /\ session' = [s \in Sessions |->
       IF session[s].status \in {"processing", "completed", "failed"}
       THEN [NoSession EXCEPT !.status = "pruned"] ELSE session[s]]
  /\ lease' = [l \in Leases |-> IF lease[l] = "redeemed" THEN "deleted" ELSE lease[l]]
  /\ <<session', lease'>> # <<session, lease>>
  /\ UNCHANGED <<account, command, githubVars, inst, thread, handed, owed>>

\* Time: the access token comes within 30 seconds of its expiry.
TokenExpires ==
  /\ account.status = "active" /\ account.cred = "ready" /\ ~account.stale
  /\ account' = [account EXCEPT !.stale = TRUE]
  /\ UNCHANGED <<session, lease, command, githubVars, inst, thread, handed, owed>>

-----------------------------------------------------------------------------
(* Processes: crash, and the recovery a new process runs before it serves.  *)

Crash(i) ==
  /\ Running(i)
  /\ i < MaxInstance
  /\ inst'   = [inst EXCEPT ![i] = [Unborn EXCEPT !.phase = "dead"]]
  /\ thread' = [t \in Threads |-> IF thread[t].inst = i THEN Idle ELSE thread[t]]
  /\ UNCHANGED <<storeVars, githubVars, handed, owed>>

\* _recover_interrupted_operations: one transaction over all tables.
Start(i) ==
  /\ inst[i].phase = "unborn"
  /\ \A j \in 1..(i - 1) : inst[j].phase \in {"serving", "dead"}
  /\ Cardinality({j \in Instances : Running(j)}) < MaxLive
  /\ inst' = [inst EXCEPT ![i].phase = "list"]
  /\ LET refreshed == IF account.cred = "refresh_pending" THEN Discarded ELSE account
     IN account' = IF refreshed.status = "unlinked" /\ refreshed.remote = "pending"
                   THEN [refreshed EXCEPT !.remote = "unknown", !.remoteOwner = None]
                   ELSE refreshed
  /\ IF account'.cred = "reauthorization_required" THEN DropLeases ELSE UNCHANGED lease
  /\ session' = [s \in Sessions |->
       IF session[s].status = "processing" /\ session[s].blob = None
       THEN [NoSession EXCEPT !.status = "failed", !.outcome = "unknown"] ELSE session[s]]
  /\ UNCHANGED <<command, githubVars, thread, handed, owed>>

\* Mutant: the start does not look for interrupted callbacks.
ListNoCallbacks(i) ==
  /\ inst[i].phase = "list"
  /\ inst' = [inst EXCEPT ![i].phase = "callbacks"]
  /\ UNCHANGED <<storeVars, githubVars, thread, handed, owed>>

ListCallbacks(i) ==
  /\ inst[i].phase = "list"
  /\ inst' = [inst EXCEPT ![i].phase = "callbacks", ![i].todo =
       {s \in Sessions : session[s].status = "processing" /\ session[s].blob # None}]
  /\ UNCHANGED <<storeVars, githubVars, thread, handed, owed>>

\* The token comes from the listed row, the call to GitHub before the write.
RevokeInterrupted(i) ==
  /\ inst[i].phase = "callbacks"
  /\ \E s \in inst[i].todo, o \in RemoteStatus \ {None, "pending"}, tok \in Tokens :
       /\ origin[tok] = s
       /\ Revocation(tok, o)
       /\ owed' = owed \ {tok}
       /\ inst' = [inst EXCEPT ![i] = [phase |-> "settle", todo |-> @.todo \ {s},
                                       current |-> s, outcome |-> o]]
  /\ UNCHANGED <<storeVars, thread, handed>>

\* fail_session raises when the row has moved on, and the process does not start.
SettleInterrupted(i) ==
  /\ inst[i].phase = "settle"
  /\ LET s == inst[i].current IN
     /\ session' = FailedSession(s, inst[i].outcome)
     /\ inst' = [inst EXCEPT ![i] =
          IF session[s].status = "processing"
          THEN [@ EXCEPT !.phase = "callbacks", !.current = None, !.outcome = None]
          ELSE [Unborn EXCEPT !.phase = "dead"]]
  /\ UNCHANGED <<account, lease, command, githubVars, thread, handed, owed>>

\* interrupted_unlink_commands and finalize_interrupted_unlink, then the list
\* of the commands still pending.
RecoverUnlinks(i) ==
  /\ inst[i].phase = "callbacks" /\ inst[i].todo = {}
  /\ LET due == account.status = "unlinked" /\ account.remote = "unknown" /\ account.command # None
     IN /\ account' = IF due THEN [account EXCEPT !.command = None] ELSE account
        /\ command' = IF due /\ command[account.command] = "pending"
                      THEN [command EXCEPT ![account.command] = "revocation_unknown"] ELSE command
  /\ inst' = [inst EXCEPT ![i].phase = "commands",
                          ![i].todo = {k \in Keys : command'[k] = "pending"}]
  /\ UNCHANGED <<session, lease, githubVars, thread, handed, owed>>

RecoverCommands(i) ==
  /\ inst[i].phase = "commands"
  /\ \/ /\ inst[i].todo = {}
        /\ inst' = [inst EXCEPT ![i].phase = "serving"]
        /\ UNCHANGED command
     \/ \E k \in inst[i].todo :
          IF command[k] = "pending"
          THEN CompleteCommand(k, "result_unknown") /\ inst' = [inst EXCEPT ![i].todo = @ \ {k}]
          ELSE inst' = [inst EXCEPT ![i] = [Unborn EXCEPT !.phase = "dead"]] /\ UNCHANGED command
  /\ UNCHANGED <<session, account, lease, githubVars, thread, handed, owed>>

-----------------------------------------------------------------------------

Request(t) == \E i \in Instances :
  \/ \E s \in Sessions : ReserveBeginLink(t, i, s) \/ ClaimSession(t, i, s)
  \/ \E k \in Unlinks : ReserveUnlink(t, i, k)
  \/ \E l \in Leases : RedeemLease(t, i, l)

Handle(t) ==
  \/ CreateSession(t)  \/ ExchangeCode(t)   \/ PersistCredential(t)
  \/ VerifyIdentity(t) \/ InsertAccount(t)  \/ RevokeMinted(t) \/ SettleCallback(t)
  \/ ReadCredential(t) \/ ClaimRefresh(t)   \/ RefreshAtGitHub(t)
  \/ FinishRefresh(t)  \/ FailRefresh(t)
  \/ ReadAccount(t)    \/ Unlink(t)         \/ RevokeRemote(t)
  \/ SetRevocationStatus(t) \/ RecordError(t)

Boot(i) ==
  \/ Start(i) \/ ListCallbacks(i) \/ RevokeInterrupted(i) \/ SettleInterrupted(i)
  \/ RecoverUnlinks(i) \/ RecoverCommands(i)

Next ==
  \/ \E t \in Threads : Request(t) \/ Handle(t)
  \/ \E i \in Instances : Boot(i) \/ Crash(i) \/ Prune(i) \/ \E l \in Leases : CreateLease(i, l)
  \/ TokenExpires

Spec == Init /\ [][Next]_vars

-----------------------------------------------------------------------------
(* Properties.                                                              *)

\* Every table holds the values its schema and its writers allow.
TypeOK ==
  /\ session \in [Sessions -> [blob : Tokens \cup {None},
       status : {"none", "pending", "processing", "completed", "failed", "pruned"},
       outcome : {None, "not_issued", "revoked", "failed", "unknown"}]]
  /\ account \in [status : {"none", "active", "unlinked"}, blob : Tokens \cup {None},
       cred : {"ready", "refresh_pending", "reauthorization_required"},
       stale : BOOLEAN, revision : Nat,
       claim : Threads \cup {None}, owner : Instances \cup {None}, remote : RemoteStatus,
       remoteOwner : Instances \cup {None}, command : Unlinks \cup {None}]
  /\ lease \in [Leases -> {"none", "open", "redeemed", "deleted"}]
  /\ command \in [Keys -> {"none", "pending", "value", "error", "result_unknown"} \cup Answers]
  /\ live \subseteq Tokens /\ minted \in 0..MaxToken
  /\ \A t \in Threads : thread[t].pc \in ThreadPC
  /\ \A i \in Instances : inst[i].phase \in {"unborn", "list", "callbacks", "settle",
                                             "commands", "serving", "dead"}

\* "Refresh once under a durable claim; never retry an uncertain rotation"
\* (_fresh_credential): a refresh token is sent to GitHub at most once, across
\* threads, crashes and restarts, and a token that was sent is never again
\* the credential of a usable account.
RotateOnce ==
  \A k \in Tokens :
    /\ submitted[k] <= 1
    /\ submitted[k] = 1 /\ account.blob = k => account.cred = "refresh_pending"

\* A lease gives out one credential at most, and an open lease never outlives
\* the credential it was issued for: unlink, a failed rotation and the
\* recovery all delete it (redeem_lease, fail_refresh, unlink, recovery).
LeasesEndWithCredential ==
  /\ \A l \in Leases : handed[l] <= 1
  /\ (\E l \in Leases : lease[l] = "open") =>
       account.status = "active" /\ account.cred # "reauthorization_required"

\* The recorded answer of an unlink command is the fate of the account: what a
\* replay of the command reports is what the row says, also when a crash cut
\* the command between the local unlink and the outcome of the revocation.
UnlinkTruth ==
  \A k \in Unlinks : command[k] \in Answers =>
    /\ account.status = "unlinked"
    /\ account.remote # None /\ AnswerOf(account.remote) = command[k]

\* Nothing is left for nobody: once a process has run its recovery, every
\* claimed callback, reserved command and due revocation is in the hands of a
\* request that runs; before that, the recovery still comes.
NothingOrphaned ==
  LET Recovered(phases) == \E i \in Instances : inst[i].phase \in phases
      Working(k) == \E t \in Threads : thread[t].key = k
  IN /\ \A s \in Sessions : session[s].status = "processing" =>
          Working(s) \/ ~Recovered({"commands", "serving"})
     /\ \A k \in Keys : command[k] = "pending" => Working(k) \/ ~Recovered({"serving"})
     /\ account.remote = "pending" =>
          Working(account.command) \/ ~\E i \in Instances : Running(i)

\* No working token is forgotten without a trace: it is the credential of the
\* account, in the hands of a running request, or it stands behind a row that
\* still has to be dealt with or that admits an unknown outcome.  A session
\* row that prune_expired removed leaves no trace (see InterruptedRevoked), and
\* a token whose answer the code took for a refusal is recorded as not issued.
TokenTracked ==
  \A k \in live :
    \/ origin[k] = "rejected"
    \/ account.blob = k
    \/ account.cred # "ready"
    \/ account.status = "unlinked" /\ account.remote \in {"pending", "failed", "unknown"}
    \/ \E t \in Threads : thread[t].tok = k
    \/ \E s \in Sessions : /\ origin[k] = s
                           /\ \/ session[s].status \in {"processing", "pruned"}
                              \/ session[s].outcome \in {"failed", "unknown"}

\* "Revoke tokens persisted by callbacks interrupted before verification"
\* (_recover_interrupted_callback_credentials): a persisted token whose
\* callback did not finish stays in its session row, where the next start finds
\* it, or in the hands of the callback, until its revocation was tried or the
\* callback itself recorded that it does not know.
InterruptedRevoked ==
  \A k \in owed : \/ \E s \in Sessions : session[s].blob = k
                  \/ \E t \in Threads : thread[t].tok = k
=============================================================================
