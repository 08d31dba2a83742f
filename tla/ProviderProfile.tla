-------------------------- MODULE ProviderProfile --------------------------
(***************************************************************************)
(* The credentials of one Hugging Face device_oauth profile in the account *)
(* center: leases, the OAuth refresh under a durable claim that processes  *)
(* share, device renewals with their polls, replacement by the owner,      *)
(* unlinking, and the recovery of a started process.  Every store method   *)
(* is one transaction, the calls to the provider lie between them.  A      *)
(* credential stands for a refresh token and the access token beside it.   *)
(* Clocks are left out: whoever looks at a claim (45 s), a start intent    *)
(* (60 s), a token or a code may find it old or not, so a thread may stall *)
(* for any time between two of its steps.                                  *)
(*                                                                         *)
(* Source: plugins/accounts/account-center, store.py and plugin.py.        *)
(***************************************************************************)
EXTENDS Naturals, FiniteSets

CONSTANTS
  Threads,      \* request threads
  Renewals,     \* device renewal sessions
  Leases,       \* rows for provider credential leases; a deleted one is free again
  MaxToken,     \* bound: credentials ever issued
  MaxRevision,  \* bound: revision from which nobody asks for a lease or a new login
  MaxInstance,  \* bound: processes started
  MaxLive,      \* processes on the database at the same time
  None          \* SQL NULL

Tokens    == 1..MaxToken
Instances == 1..MaxInstance

ASSUME ProfileAssumption ==
  /\ MaxToken \in Nat \ {0} /\ MaxInstance \in Nat \ {0} /\ MaxLive \in Nat \ {0}
  /\ MaxRevision \in Nat
  /\ None \notin Threads \cup Renewals \cup Nat

VARIABLES
  profile,  \* the provider_profiles row
  lease,    \* provider_credential_leases
  renewal,  \* huggingface_device_renewal_sessions
  inst,     \* the processes
  thread,   \* the request threads
  seed,     \* the host secrets: whether one holds a credential, and how often
            \* it was written into the profile
  issued,   \* provider: credentials issued so far
  used,     \* provider: device codes that have been redeemed
  spent,    \* history: credentials whose refresh token was, or may have been, rotated
  base,     \* history: the credential a credential was derived from
  seen      \* history: the credential of the profile when a renewal began

vars == <<profile, lease, renewal, inst, thread, seed, issued, used, spent, base, seen>>

Terminal   == {"succeeded", "failed", "unknown", "expired", "cancelled"}
NoRenewal  == [status |-> "none", revision |-> 0, claim |-> None, owner |-> None]
Idle       == [pc |-> "idle", inst |-> None, item |-> None, tok |-> None,
               revision |-> 0, outcome |-> None]

\* create_provider_profile with the first credential, a host secret, has happened.
Init ==
  /\ profile = [status |-> "active", auth |-> "healthy", cred |-> 1, revision |-> 0,
                claim |-> None, owner |-> None]
  /\ lease   = [l \in Leases |-> "none"]
  /\ renewal = [r \in Renewals |-> NoRenewal]
  /\ inst    = [i \in Instances |-> "unborn"]
  /\ thread  = [t \in Threads |-> Idle]
  /\ seed    = [k \in Tokens |-> IF k = 1 THEN "used" ELSE "none"]
  /\ issued  = 1
  /\ used    = {}
  /\ spent   = {}
  /\ base    = [k \in Tokens |-> None]
  /\ seen    = [r \in Renewals |-> None]

storeVars == <<profile, lease, renewal>>
histVars  == <<seed, issued, used, spent, base, seen>>

At(t, pc)   == thread[t].pc = pc
Goto(t, pc) == thread' = [thread EXCEPT ![t].pc = pc]
Return(t)   == thread' = [thread EXCEPT ![t] = Idle]
Begin(t, i, pc, x) ==
  /\ thread[t].pc = "idle" /\ inst[i] = "serving"
  /\ thread' = [thread EXCEPT ![t] = [Idle EXCEPT !.pc = pc, !.inst = i, !.item = x]]

DropLeases  == lease' = [l \in Leases |-> "none"]
Issue(from) == /\ issued < MaxToken
               /\ issued' = issued + 1
               /\ base' = [base EXCEPT ![issued + 1] = from]

\* What ends a claim: the row without it, one revision later.
Unclaimed(p) == [p EXCEPT !.claim = None, !.owner = None, !.revision = @ + 1]
\* Mutant: the credential is cleared, the claim stays.
ReauthorizeClaimed(p) == [p EXCEPT !.auth = "reauthorization_required", !.cred = None,
                                   !.revision = @ + 1]
\* _mark_provider_reauthorization_required
Reauthorize(p) == [Unclaimed(p) EXCEPT !.auth = "reauthorization_required", !.cred = None]
WithCredential(p, k) == [Unclaimed(p) EXCEPT !.auth = "healthy", !.cred = k]

-----------------------------------------------------------------------------
(* Leases and the refresh they may lead to.                                 *)

\* create_provider_lease; prune_expired first drops the redeemed leases.
CreateLease(i, l) ==
  /\ inst[i] = "serving" /\ lease[l] # "open" /\ profile.revision < MaxRevision
  /\ profile.status = "active" /\ profile.auth = "healthy"
  /\ lease' = [k \in Leases |-> IF k = l THEN "open"
                 ELSE IF lease[k] = "redeemed" THEN "none" ELSE lease[k]]
  /\ UNCHANGED <<profile, renewal, inst, thread, histVars>>

RedeemLease(t, i, l) ==
  /\ lease[l] = "open"
  /\ profile.status = "active" /\ profile.auth = "healthy"
  /\ lease' = [lease EXCEPT ![l] = "redeemed"]
  /\ Begin(t, i, "claim", None)
  /\ UNCHANGED <<profile, renewal, inst, histVars>>

HoldsLock(t) == thread[t].pc \in {"waiting", "refresh", "complete", "release"}
LockFree(t)  == \A u \in Threads \ {t} : HoldsLock(u) => thread[u].inst # thread[t].inst

\* A claim that grew old is never taken over: the credential is given up.
MayClaim == profile.claim = None

\* claim_provider_oauth_refresh, with the loop of the caller: hand out a token
\* that is not about to expire; give up a credential whose refresh token has
\* expired or whose claim has grown old; wait for a claim; or take it.
ClaimRefresh(t) ==
  /\ thread[t].pc \in {"claim", "waiting"} /\ LockFree(t)
  /\ \/ Return(t) /\ UNCHANGED <<profile, lease>>
     \/ /\ profile.status = "active" /\ profile.auth = "healthy"
        /\ \/ /\ profile' = Reauthorize(profile) /\ DropLeases /\ Return(t)
           \/ /\ ~MayClaim
              /\ Goto(t, "waiting")
              /\ UNCHANGED <<profile, lease>>
           \/ /\ MayClaim
              /\ profile' = [profile EXCEPT !.claim = t, !.owner = thread[t].inst]
              /\ thread' = [thread EXCEPT ![t].pc = "refresh", ![t].tok = profile.cred]
              /\ UNCHANGED lease
  /\ UNCHANGED <<renewal, inst, histVars>>

\* The provider rotates the refresh token, or keeps it (an answer without one),
\* with or without the answer coming back, or refuses for certain without
\* touching it; whoami must then name the person of the profile.  outcome is
\* the auth_status the claim is released with.
RefreshAtProvider(t) ==
  /\ At(t, "refresh")
  /\ \/ /\ Issue(thread[t].tok) /\ spent' = spent \cup {thread[t].tok}
        /\ thread' = [thread EXCEPT ![t].pc = "complete", ![t].tok = issued + 1]
     \/ /\ Goto(t, "complete")
        /\ UNCHANGED <<issued, base, spent>>
     \/ /\ spent' = spent \cup {thread[t].tok}
        /\ thread' = [thread EXCEPT ![t].pc = "release", ![t].outcome = "reauthorization_required"]
        /\ UNCHANGED <<issued, base>>
     \/ /\ \E o \in {"healthy", "unavailable", "reauthorization_required"} :
             thread' = [thread EXCEPT ![t].pc = "release", ![t].outcome = o]
        /\ UNCHANGED <<issued, base, spent>>
  /\ UNCHANGED <<storeVars, inst, seed, used, seen>>

HasClaim(t) == /\ profile.status = "active"
               /\ profile.claim = t /\ profile.owner = thread[t].inst

\* Mutant: the commit does not look for the claim.
CompleteUnclaimed(t) ==
  /\ At(t, "complete")
  /\ profile' = IF profile.status = "active" THEN WithCredential(profile, thread[t].tok) ELSE profile
  /\ Return(t)
  /\ UNCHANGED <<lease, renewal, inst, histVars>>

CompleteRefresh(t) ==
  /\ At(t, "complete")
  /\ profile' = IF HasClaim(t) THEN WithCredential(profile, thread[t].tok) ELSE profile
  /\ Return(t)
  /\ UNCHANGED <<lease, renewal, inst, histVars>>

\* Mutant: an uncertain rotation is released with the old credential in place.
ReleaseKeepingCredential(t) ==
  /\ At(t, "release")
  /\ profile' = IF HasClaim(t) THEN [Unclaimed(profile) EXCEPT !.auth = "healthy"] ELSE profile
  /\ Return(t)
  /\ UNCHANGED <<lease, renewal, inst, histVars>>

\* release_provider_oauth_refresh clears the credential of an uncertain or
\* rejected rotation.  It is tried once: a claim that is gone, or a database
\* that cannot be written, leaves everything as it is.
ReleaseRefresh(t) ==
  /\ At(t, "release")
  /\ LET o == thread[t].outcome IN
     \/ UNCHANGED <<profile, lease>>
     \/ /\ HasClaim(t)
        /\ profile' = IF o = "reauthorization_required" THEN Reauthorize(profile)
                      ELSE [Unclaimed(profile) EXCEPT !.auth = o]
        /\ IF o = "healthy" THEN UNCHANGED lease ELSE DropLeases
  /\ Return(t)
  /\ UNCHANGED <<renewal, inst, histVars>>

-----------------------------------------------------------------------------
(* Device renewal: a start intent, the device code, polls under a claim.    *)

\* The caller reads the profile before the transaction that records the intent.
ReadForRenewal(t, i, r) ==
  /\ profile.status = "active" /\ profile.claim = None /\ profile.revision < MaxRevision
  /\ thread[t].pc = "idle" /\ inst[i] = "serving"
  /\ thread' = [thread EXCEPT ![t] = [Idle EXCEPT !.pc = "begin", !.inst = i, !.item = r,
                                                  !.revision = profile.revision]]
  /\ UNCHANGED <<storeVars, inst, histVars>>

\* A session that has ended: no code, no claim, nothing anyone reads again.
Ended(status)     == [NoRenewal EXCEPT !.status = status]
Closed(r, status) == [renewal EXCEPT ![r] = Ended(status)]

\* The intent is recorded, then the provider is asked for a device code, unless
\* the profile has changed since it was read.
BeginRenewal(t) ==
  /\ At(t, "begin")
  /\ LET r == thread[t].item IN
     \/ /\ renewal[r].status = "none" /\ profile.status = "active"
        /\ renewal' = [renewal EXCEPT ![r].status = "starting", ![r].revision = profile.revision]
        /\ seen' = [seen EXCEPT ![r] = profile.cred]
        /\ \E o \in IF profile.revision = thread[t].revision
                   THEN {"waiting_user", "unknown", "failed"} ELSE {"failed"} :
             thread' = [thread EXCEPT ![t].pc = "start", ![t].outcome = o, ![t].revision = 0]
     \/ /\ renewal[r].status # "none" \/ profile.status # "active"
        /\ \/ UNCHANGED renewal
           \/ renewal[r].status = "starting" /\ renewal' = Closed(r, "unknown")
        /\ Return(t) /\ UNCHANGED seen
  /\ UNCHANGED <<profile, lease, inst, seed, issued, used, spent, base>>

\* complete_ and fail_huggingface_device_renewal_start: a session that has left
\* the state starting is only read.
FinishStart(t) ==
  /\ At(t, "start")
  /\ LET r == thread[t].item
         o == thread[t].outcome IN
     renewal' = IF renewal[r].status # "starting" THEN renewal
                ELSE IF o = "waiting_user"
                THEN [renewal EXCEPT ![r].status = o] ELSE Closed(r, o)
  /\ Return(t)
  /\ UNCHANGED <<profile, lease, inst, histVars>>

\* What has no outcome to wait for: an intent, or the claim of a poll.
Interrupted(r) == \/ renewal[r].status = "starting"
                  \/ renewal[r].status = "waiting_user" /\ renewal[r].claim # None

\* claim_huggingface_device_renewal_poll: one poll of a device code at a time;
\* after a poll that did not come back the outcome is unknown for good.
ClaimPoll(t, i, r) ==
  /\ thread[t].pc = "idle" /\ inst[i] = "serving"
  /\ \/ /\ Interrupted(r)
        /\ renewal' = Closed(r, "unknown") /\ UNCHANGED thread
     \/ /\ renewal[r].status = "waiting_user"
        /\ renewal' = Closed(r, "expired") /\ UNCHANGED thread
     \/ /\ renewal[r].status = "waiting_user" /\ renewal[r].claim = None
        /\ renewal' = [renewal EXCEPT ![r].claim = t, ![r].owner = i]
        /\ Begin(t, i, "check", r)
  /\ UNCHANGED <<profile, lease, inst, histVars>>

\* The profile must be as the renewal found it before the provider is asked.
CheckProfile(t) ==
  /\ At(t, "check")
  /\ IF profile.status # "active" THEN Return(t)
     ELSE IF profile.revision # renewal[thread[t].item].revision \/ profile.claim # None
     THEN thread' = [thread EXCEPT ![t].pc = "fail_poll", ![t].outcome = "failed"]
     ELSE Goto(t, "poll")
  /\ UNCHANGED <<storeVars, inst, histVars>>

\* The user has decided, or not yet.  A code yields one credential; an answer
\* that is lost is recorded as unknown, "failed" stands for every refusal.
PollProvider(t) ==
  /\ At(t, "poll")
  /\ LET r == thread[t].item IN
     \/ Goto(t, "defer") /\ UNCHANGED <<issued, base, used>>
     \/ /\ \E o \in {"failed", "unknown"} :
             thread' = [thread EXCEPT ![t].pc = "fail_poll", ![t].outcome = o]
        /\ UNCHANGED <<issued, base, used>>
     \/ /\ r \notin used /\ used' = used \cup {r}
        /\ Issue(seen[r])
        /\ \/ thread' = [thread EXCEPT ![t].pc = "install", ![t].tok = issued + 1]
           \/ \E o \in {"failed", "unknown"} :
                thread' = [thread EXCEPT ![t].pc = "fail_poll", ![t].outcome = o]
  /\ UNCHANGED <<storeVars, inst, seed, spent, seen>>

HasPoll(t) == LET s == renewal[thread[t].item] IN
  s.status = "waiting_user" /\ s.claim = t /\ s.owner = thread[t].inst

DeferPoll(t) ==
  /\ At(t, "defer")
  /\ renewal' = IF HasPoll(t) THEN [renewal EXCEPT ![thread[t].item] =
                  [@ EXCEPT !.claim = None, !.owner = None]] ELSE renewal
  /\ Return(t)
  /\ UNCHANGED <<profile, lease, inst, histVars>>

\* Mutant: an uncertain poll is put off like a pending one.
FailPollDeferring(t) ==
  /\ At(t, "fail_poll")
  /\ renewal' = IF ~HasPoll(t) THEN renewal
                ELSE IF thread[t].outcome = "unknown"
                THEN [renewal EXCEPT ![thread[t].item] =
                       [@ EXCEPT !.claim = None, !.owner = None]]
                ELSE Closed(thread[t].item, thread[t].outcome)
  /\ Return(t)
  /\ UNCHANGED <<profile, lease, inst, histVars>>

FailPoll(t) ==
  /\ At(t, "fail_poll")
  /\ renewal' = IF HasPoll(t) THEN Closed(thread[t].item, thread[t].outcome) ELSE renewal
  /\ Return(t)
  /\ UNCHANGED <<profile, lease, inst, histVars>>

\* Mutant: the renewal forgets the leases of the old credential.
InstallKeepingLeases(t) ==
  /\ At(t, "install")
  /\ LET r == thread[t].item IN
     IF ~HasPoll(t) \/ profile.status # "active" THEN UNCHANGED <<profile, renewal>>
     ELSE IF profile.revision # renewal[r].revision \/ profile.claim # None
     THEN renewal' = Closed(r, "failed") /\ UNCHANGED profile
     ELSE /\ profile' = WithCredential(profile, thread[t].tok)
          /\ renewal' = Closed(r, "succeeded")
  /\ Return(t)
  /\ UNCHANGED <<lease, inst, histVars>>

\* complete_huggingface_device_renewal: one transaction over session, profile
\* and leases, for the revision the renewal began with.
InstallRenewal(t) ==
  /\ At(t, "install")
  /\ LET r == thread[t].item IN
     IF ~HasPoll(t) \/ profile.status # "active" THEN UNCHANGED storeVars
     ELSE IF profile.revision # renewal[r].revision \/ profile.claim # None
     THEN renewal' = Closed(r, "failed") /\ UNCHANGED <<profile, lease>>
     ELSE /\ profile' = WithCredential(profile, thread[t].tok)
          /\ renewal' = Closed(r, "succeeded")
          /\ DropLeases
  /\ Return(t)
  /\ UNCHANGED <<inst, histVars>>

-----------------------------------------------------------------------------
(* The owner replaces the credential or unlinks the profile.                *)

CloseOpen(status) == [r \in Renewals |->
  IF renewal[r].status \in {"starting", "waiting_user"}
  THEN Ended(status) ELSE renewal[r]]

\* The command names a host secret: one the provider has just issued, or any
\* one that was there before, also after it was in the profile.  It is sent to
\* whoami before anything is written.
ReadForReplacement(t, i) ==
  /\ profile.status = "active" /\ profile.revision < MaxRevision
  /\ thread[t].pc = "idle" /\ inst[i] = "serving"
  /\ \/ /\ Issue(None)
        /\ seed' = [seed EXCEPT ![issued + 1] = "unused"]
        /\ thread' = [thread EXCEPT ![t] = [Idle EXCEPT !.pc = "replace", !.inst = i,
                                                        !.tok = issued + 1]]
     \/ /\ \E k \in {k \in Tokens : seed[k] # "none"} :
             thread' = [thread EXCEPT ![t] = [Idle EXCEPT !.pc = "replace", !.inst = i, !.tok = k]]
        /\ UNCHANGED <<seed, issued, base>>
  /\ UNCHANGED <<storeVars, inst, used, spent, seen>>

\* update_huggingface_profile_credentials, unless whoami refused: whatever the
\* profile holds by now, and whoever has claimed it, is replaced.
ReplaceCredential(t) ==
  /\ At(t, "replace")
  /\ \/ /\ profile.status = "active"
        /\ profile' = WithCredential(profile, thread[t].tok)
        /\ renewal' = CloseOpen("failed")
        /\ DropLeases
        /\ seed' = [seed EXCEPT ![thread[t].tok] = IF @ = "unused" THEN "used" ELSE "again"]
     \/ UNCHANGED <<storeVars, seed>>
  /\ Return(t)
  /\ UNCHANGED <<inst, issued, used, spent, base, seen>>

UnlinkProfile(i) ==
  /\ inst[i] = "serving" /\ profile.status = "active"
  /\ profile' = [Unclaimed(profile) EXCEPT !.status = "unlinked", !.auth = "revoked",
                                           !.cred = None, !.revision = profile.revision]
  /\ renewal' = CloseOpen("cancelled")
  /\ DropLeases
  /\ UNCHANGED <<inst, thread, histVars>>

-----------------------------------------------------------------------------
(* Crashes and starts.                                                      *)

Crash(i) ==
  /\ inst[i] = "serving" /\ i < MaxInstance
  /\ inst' = [inst EXCEPT ![i] = "dead"]
  /\ thread' = [t \in Threads |-> IF thread[t].inst = i THEN Idle ELSE thread[t]]
  /\ UNCHANGED <<storeVars, histVars>>

\* _recover_interrupted_operations: only claims and intents that grew old, for
\* another process may be at work.
Start(i) ==
  /\ inst[i] = "unborn" /\ \A j \in 1..(i - 1) : inst[j] # "unborn"
  /\ Cardinality({j \in Instances : inst[j] = "serving"}) < MaxLive
  /\ inst' = [inst EXCEPT ![i] = "serving"]
  /\ \/ /\ profile.status = "active" /\ profile.claim # None
        /\ profile' = Reauthorize(profile)
     \/ UNCHANGED profile
  /\ IF profile'.auth = "reauthorization_required" THEN DropLeases ELSE UNCHANGED lease
  /\ \E old \in SUBSET Renewals :
       renewal' = [r \in Renewals |->
         IF r \in old /\ Interrupted(r) THEN Ended("unknown") ELSE renewal[r]]
  /\ UNCHANGED <<thread, histVars>>

Handle(t) ==
  \/ ClaimRefresh(t) \/ RefreshAtProvider(t)
  \/ CompleteRefresh(t) \/ ReleaseRefresh(t)
  \/ BeginRenewal(t) \/ FinishStart(t)
  \/ CheckProfile(t) \/ PollProvider(t) \/ DeferPoll(t) \/ FailPoll(t) \/ InstallRenewal(t)
  \/ ReplaceCredential(t)

Request(t) == \E i \in Instances :
  \/ \E l \in Leases : RedeemLease(t, i, l)
  \/ \E r \in Renewals : ReadForRenewal(t, i, r) \/ ClaimPoll(t, i, r)
  \/ ReadForReplacement(t, i)

Next ==
  \/ \E t \in Threads : Request(t) \/ Handle(t)
  \/ \E i \in Instances : \/ Start(i) \/ Crash(i) \/ UnlinkProfile(i)
                          \/ \E l \in Leases : CreateLease(i, l)

Spec == Init /\ [][Next]_vars

-----------------------------------------------------------------------------
(* Properties.                                                              *)

\* The rows hold what their writers allow; a healthy active profile has a
\* credential, and a profile that asks for a new login has none.
TypeOK ==
  /\ profile.status \in {"active", "unlinked"}
  /\ profile.auth \in {"healthy", "unavailable", "reauthorization_required", "revoked"}
  /\ profile.cred \in Tokens \cup {None} /\ profile.revision \in Nat
  /\ profile.claim \in Threads \cup {None} /\ profile.owner \in Instances \cup {None}
  /\ profile.auth = "healthy" => profile.cred # None
  /\ profile.auth \in {"reauthorization_required", "revoked"} =>
       profile.cred = None /\ profile.claim = None
  /\ lease \in [Leases -> {"none", "open", "redeemed"}]
  /\ \A r \in Renewals : renewal[r].status \in {"none", "starting", "waiting_user"} \cup Terminal
  /\ \A i \in Instances : inst[i] \in {"unborn", "serving", "dead"}

\* A refresh token that was or may have been rotated is never sent again, by
\* any process, after any crash or stall ("Refresh an HF OAuth grant under a
\* persisted cross-process claim"), and no two threads hold the same one.  The
\* exception is a host secret that the owner has written into the profile a
\* second time, for rotate_huggingface_profile does not know what became of it.
\* A token the provider kept is no rotated one: it is sent at the next refresh.
NeverReplayed ==
  \A t \in Threads : At(t, "refresh") /\ seed[thread[t].tok] # "again" =>
    /\ thread[t].tok \notin spent
    /\ \A u \in Threads \ {t} : At(u, "refresh") => thread[u].tok # thread[t].tok

\* No refresh and no renewal overwrites a credential it has not seen: a refresh
\* replaces only the credential it was made from, and a renewal only the one its
\* profile had when it began, however the owner, a renewal and a refresh
\* interleave.  The owner's command is unconditional: the last write wins.
NoLostUpdate ==
  [][LET new == profile'.cred IN
     new # None /\ new # profile.cred =>
       \/ profile.cred = base[new]
       \/ \E t \in Threads : At(t, "replace") /\ thread'[t].pc = "idle"]_vars

\* An open lease belongs to a healthy profile and to its present credential
\* line: renewal, replacement, unlinking and every way to lose the credential
\* end it, so that no lease of an old login is ever redeemed under a new one.
LeaseEndsWithLogin ==
  [][\A l \in Leases : lease'[l] = "open" =>
       /\ profile'.status = "active" /\ profile'.auth = "healthy"
       /\ \/ profile'.cred = profile.cred
          \/ \E t \in Threads : thread[t].pc = "complete" /\ thread'[t].pc = "idle"]_vars

\* A device code whose credential may have been issued is never polled again:
\* its session is closed or still under the claim of the poll (one that grew old
\* becomes "device_poll_outcome_unknown"), and one thread polls a session at a time.
CodePolledOnce ==
  \A r \in Renewals :
    /\ r \in used /\ renewal[r].status = "waiting_user" => renewal[r].claim # None
    /\ Cardinality({t \in Threads : At(t, "poll") /\ thread[t].item = r /\ r \notin used}) <= 1
=============================================================================
