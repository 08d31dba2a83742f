---------------------------- MODULE ProfileProofs ----------------------------
(***************************************************************************)
(* Theorems about a provider profile's credentials for any number of       *)
(* threads, processes, renewals, leases and issued credentials.            *)
(***************************************************************************)
EXTENDS ProviderProfile, FiniteSetTheorems, TLAPS

-----------------------------------------------------------------------------
(* The inductive invariant. *)

Profiles ==
  [status : {"active", "unlinked"},
   auth : {"healthy", "unavailable", "reauthorization_required", "revoked"},
   cred : Tokens \cup {None}, revision : Nat, claim : Threads \cup {None},
   owner : Instances \cup {None}]

Statuses == {"none", "starting", "waiting_user"} \cup Terminal

Sessions ==
  [status : Statuses, revision : Nat, claim : Threads \cup {None},
   owner : Instances \cup {None}]

AuthOutcomes == {"healthy", "unavailable", "reauthorization_required"}

ThreadPCs == {"idle", "claim", "waiting", "refresh", "complete", "release", "begin", "start",
              "check", "poll", "defer", "fail_poll", "install", "replace"}

Outcomes == {None, "waiting_user"} \cup AuthOutcomes \cup Terminal

Locals ==
  [pc : ThreadPCs, inst : Instances \cup {None}, item : Renewals \cup {None},
   tok : Tokens \cup {None}, revision : Nat,
   outcome : Outcomes]

(* The rows, the locals and the history in shape. *)
Shapes ==
  /\ profile \in Profiles
  /\ lease \in [Leases -> {"none", "open", "redeemed"}]
  /\ renewal \in [Renewals -> Sessions]
  /\ inst \in [Instances -> {"unborn", "serving", "dead"}]
  /\ thread \in [Threads -> Locals]
  /\ seed \in [Tokens -> {"none", "unused", "used", "again"}]
  /\ issued \in Tokens /\ used \subseteq Renewals /\ spent \subseteq 1..issued
  /\ base \in [Tokens -> Tokens \cup {None}] /\ seen \in [Renewals -> Tokens \cup {None}]

(* What the steps of a request leave in its locals. *)
LocalsInv ==
  \A t \in Threads :
    /\ thread[t].pc \in {"begin", "start", "check", "poll", "defer", "fail_poll", "install"} =>
         thread[t].item \in Renewals
    /\ thread[t].pc = "start" => thread[t].outcome \in {"waiting_user", "unknown", "failed"}
    /\ thread[t].pc = "fail_poll" => thread[t].outcome \in Terminal
    /\ thread[t].pc = "release" => thread[t].outcome \in AuthOutcomes

(* A profile that has lost its login has lost the credential too. *)
ProfileInv ==
  /\ profile.cred \in 1..issued \cup {None}
  /\ profile.auth = "healthy" => profile.cred # None
  /\ profile.auth \in {"reauthorization_required", "revoked"} =>
       profile.cred = None /\ profile.claim = None

(* Threads that hold a credential: the one they refresh or release, or one *)
(* the provider has just issued to them.                                   *)
Carry == {"refresh", "release", "complete", "install"}

(* The holder of the claim has the profile's credential in its hands, or one *)
(* the provider made from it.                                                *)
ClaimInv ==
  \A t \in Threads : thread[t].pc \in Carry =>
    /\ thread[t].tok \in 1..issued
    /\ profile.claim = t /\ thread[t].pc \in {"refresh", "release"} => profile.cred = thread[t].tok
    /\ profile.claim = t /\ thread[t].pc = "complete" =>
         profile.cred = thread[t].tok \/ profile.cred = base[thread[t].tok]

(* Not a host secret that the owner wrote into the profile more than once. *)
Once(k) == seed[k] # "again"

(* Nobody has had the credential: it is not spent, not the profile's, and no *)
(* thread carries it.                                                        *)
Untouched(k) ==
  /\ k \notin spent /\ profile.cred # k
  /\ \A t \in Threads : thread[t].pc \in Carry => thread[t].tok # k

(* A credential has one holder; the profile's is held under its claim only, *)
(* and one that may be spent is not the profile's once the claim is gone.   *)
Exclusive(k) ==
  /\ k \in spent /\ profile.cred = k => profile.claim # None
  /\ \A t \in Threads : thread[t].pc \in Carry /\ thread[t].tok = k =>
       /\ thread[t].pc # "release" \/ thread[t].outcome # "reauthorization_required" => k \notin spent
       /\ profile.cred = k => thread[t].pc # "install" /\ profile.claim = t
       /\ \A u \in Threads \ {t} : thread[u].pc \in Carry => thread[u].tok # k

(* So it is as long as the owner brings no host secret back that the profile *)
(* has had.                                                                  *)
CredentialInv ==
  \A k \in Tokens : /\ seed[k] = "unused" => Untouched(k)
                    /\ Once(k) => Exclusive(k)

(* A host secret holds a credential, and so does what the owner writes. *)
SeedInv ==
  /\ \A k \in Tokens : k \notin 1..issued => seed[k] = "none"
  /\ \A t \in Threads : thread[t].pc = "replace" =>
       thread[t].tok \in 1..issued /\ seed[thread[t].tok] # "none"

Polling == {"check", "poll", "defer", "fail_poll", "install"}

(* A session has one poller, which has its claim as long as it is open; a *)
(* code that was redeemed is out of every other poller's reach.           *)
PollInv ==
  /\ \A r \in used : /\ renewal[r].status \notin {"none", "starting"}
                     /\ renewal[r].status = "waiting_user" => renewal[r].claim # None
  /\ \A t \in Threads : thread[t].pc \in Polling =>
       LET r == thread[t].item IN
       /\ renewal[r].status \notin {"none", "starting"}
       /\ renewal[r].status = "waiting_user" => renewal[r].claim = t
       /\ renewal[r].status = "waiting_user" /\ thread[t].pc \in {"check", "poll", "defer"} => r \notin used
       /\ thread[t].pc = "install" => base[thread[t].tok] = seen[r]
       /\ \A u \in Threads \ {t} : thread[u].pc \in Polling => thread[u].item # r

(* An open renewal that still has the profile's revision has seen its     *)
(* credential.                                                            *)
RevisionInv ==
  \A r \in Renewals : renewal[r].status \in {"starting", "waiting_user"} =>
    /\ renewal[r].revision <= profile.revision
    /\ renewal[r].revision = profile.revision => seen[r] = profile.cred

LeaseInv ==
  (\E l \in Leases : lease[l] = "open") => profile.status = "active" /\ profile.auth = "healthy"

IInv == /\ Shapes /\ LocalsInv /\ ProfileInv /\ ClaimInv /\ CredentialInv
        /\ SeedInv /\ PollInv /\ RevisionInv /\ LeaseInv

-----------------------------------------------------------------------------
(* The moves of the threads and of the rows. *)

(* Thread t has moved, the others have not. *)
Moved(t, pc, item, tok, outcome) ==
  /\ thread' \in [Threads -> Locals]
  /\ \A u \in Threads \ {t} : thread'[u] = thread[u]
  /\ thread'[t].pc = pc /\ thread'[t].item = item /\ thread'[t].tok = tok
  /\ thread'[t].outcome = outcome

(* A thread at rest has no locals. *)
LEMMA IdleTyped == Idle \in Locals /\ Idle.pc = "idle" /\ Idle.item = None /\ Idle.tok = None
                   /\ Idle.outcome = None
BY DEF Idle, Locals, ThreadPCs, Outcomes

(* The ways to update a thread. *)
LEMMA ThreadMoves ==
  ASSUME Shapes, NEW t \in Threads, NEW pc \in ThreadPCs, NEW tok \in Tokens \cup {None},
         NEW o \in Outcomes
  PROVE  /\ Return(t) => Moved(t, "idle", None, None, None)
         /\ Goto(t, pc) => Moved(t, pc, thread[t].item, thread[t].tok, thread[t].outcome)
         /\ thread' = [thread EXCEPT ![t].pc = pc, ![t].tok = tok]
              => Moved(t, pc, thread[t].item, tok, thread[t].outcome)
         /\ thread' = [thread EXCEPT ![t].pc = pc, ![t].outcome = o]
              => Moved(t, pc, thread[t].item, thread[t].tok, o)
         /\ thread' = [thread EXCEPT ![t].pc = pc, ![t].outcome = o, ![t].revision = 0]
              => Moved(t, pc, thread[t].item, thread[t].tok, o)
<1>a. thread \in [Threads -> Locals]
  BY DEF Shapes
<1>1. Return(t) => Moved(t, "idle", None, None, None)
  BY <1>a, IdleTyped DEF Return, Moved
<1>2. Goto(t, pc) => Moved(t, pc, thread[t].item, thread[t].tok, thread[t].outcome)
  BY <1>a DEF Goto, Moved, Locals
<1>3. thread' = [thread EXCEPT ![t].pc = pc, ![t].tok = tok]
              => Moved(t, pc, thread[t].item, tok, thread[t].outcome)
  <2> DEFINE g == [thread[t] EXCEPT !.pc = pc, !.tok = tok]
  <2>1. [thread EXCEPT ![t].pc = pc, ![t].tok = tok] = [thread EXCEPT ![t] = g]
    BY <1>a
  <2>2. g \in Locals /\ g.pc = pc /\ g.item = thread[t].item /\ g.tok = tok
        /\ g.outcome = thread[t].outcome
    BY <1>a DEF Locals
  <2> HIDE DEF g
  <2> QED
    BY <1>a, <2>1, <2>2 DEF Moved
<1>4. thread' = [thread EXCEPT ![t].pc = pc, ![t].outcome = o]
              => Moved(t, pc, thread[t].item, thread[t].tok, o)
  <2> DEFINE g == [thread[t] EXCEPT !.pc = pc, !.outcome = o]
  <2>1. [thread EXCEPT ![t].pc = pc, ![t].outcome = o] = [thread EXCEPT ![t] = g]
    BY <1>a
  <2>2. g \in Locals /\ g.pc = pc /\ g.item = thread[t].item /\ g.tok = thread[t].tok
        /\ g.outcome = o
    BY <1>a DEF Locals
  <2> HIDE DEF g
  <2> QED
    BY <1>a, <2>1, <2>2 DEF Moved
<1>5. thread' = [thread EXCEPT ![t].pc = pc, ![t].outcome = o, ![t].revision = 0]
              => Moved(t, pc, thread[t].item, thread[t].tok, o)
  <2> DEFINE g == [thread[t] EXCEPT !.pc = pc, !.outcome = o, !.revision = 0]
  <2>1. [thread EXCEPT ![t].pc = pc, ![t].outcome = o, ![t].revision = 0] = [thread EXCEPT ![t] = g]
    BY <1>a
  <2>2. g \in Locals /\ g.pc = pc /\ g.item = thread[t].item /\ g.tok = thread[t].tok
        /\ g.outcome = o
    BY <1>a DEF Locals
  <2> HIDE DEF g
  <2> QED
    BY <1>a, <2>1, <2>2 DEF Moved
<1> QED
  BY <1>1, <1>2, <1>3, <1>4, <1>5

(* A thread that takes up a request. *)
LEMMA BeginMoves ==
  ASSUME Shapes, NEW t \in Threads, NEW i \in Instances, NEW pc \in ThreadPCs,
         NEW x \in Renewals \cup {None}, NEW n \in Nat
  PROVE  /\ Begin(t, i, pc, x) => Moved(t, pc, x, None, None)
         /\ thread' = [thread EXCEPT ![t] = [Idle EXCEPT !.pc = pc, !.inst = i, !.item = x, !.revision = n]]
              => Moved(t, pc, x, None, None)
<1>a. thread \in [Threads -> Locals]
  BY DEF Shapes
<1>b. LET g == [Idle EXCEPT !.pc = pc, !.inst = i, !.item = x]
      IN  g \in Locals /\ g.pc = pc /\ g.item = x /\ g.tok = None /\ g.outcome = None
  BY DEF Idle, Locals, Outcomes
<1>c. LET g == [Idle EXCEPT !.pc = pc, !.inst = i, !.item = x, !.revision = n]
      IN  g \in Locals /\ g.pc = pc /\ g.item = x /\ g.tok = None /\ g.outcome = None
  BY DEF Idle, Locals, Outcomes
<1>1. Begin(t, i, pc, x) => Moved(t, pc, x, None, None)
  BY <1>a, <1>b DEF Begin, Moved
<1>2. thread' = [thread EXCEPT ![t] = [Idle EXCEPT !.pc = pc, !.inst = i, !.item = x, !.revision = n]]
              => Moved(t, pc, x, None, None)
  BY <1>a, <1>c DEF Moved
<1> QED
  BY <1>1, <1>2

(* The row p is the profile with another login, credential and claim. *)
Row(p, status, auth, cred, revision, claim) ==
  /\ p \in Profiles
  /\ p.status = status /\ p.auth = auth /\ p.cred = cred /\ p.revision = revision /\ p.claim = claim

(* The updates of the profile's row. *)
LEMMA RowMoves ==
  ASSUME NEW p \in Profiles, NEW k \in Tokens, NEW o \in AuthOutcomes
  PROVE  /\ Row(WithCredential(p, k), p.status, "healthy", k, p.revision + 1, None)
         /\ Row(Reauthorize(p), p.status, "reauthorization_required", None, p.revision + 1, None)
         /\ Row([Unclaimed(p) EXCEPT !.auth = o], p.status, o, p.cred, p.revision + 1, None)
         /\ Row([Unclaimed(p) EXCEPT !.status = "unlinked", !.auth = "revoked", !.cred = None,
                                     !.revision = p.revision],
                "unlinked", "revoked", None, p.revision, None)
         /\ Row(p, p.status, p.auth, p.cred, p.revision, p.claim)
<1>1. Unclaimed(p) \in Profiles /\ Row(Unclaimed(p), p.status, p.auth, p.cred, p.revision + 1, None)
  <2>1. PICK n \in Nat : n = p.revision + 1
    BY DEF Profiles
  <2>2. Unclaimed(p) = [p EXCEPT !.claim = None, !.owner = None, !.revision = n]
    BY <2>1 DEF Unclaimed
  <2> QED
    BY <2>1, <2>2 DEF Row, Profiles
<1> DEFINE q == Unclaimed(p)
<1>2. q \in Profiles /\ Row(q, p.status, p.auth, p.cred, p.revision + 1, None)
  BY <1>1
<1>3. WithCredential(p, k) = [q EXCEPT !.auth = "healthy", !.cred = k]
  BY DEF WithCredential
<1>4. Reauthorize(p) = [q EXCEPT !.auth = "reauthorization_required", !.cred = None]
  BY DEF Reauthorize
<1> HIDE DEF q
<1>5. Row(WithCredential(p, k), p.status, "healthy", k, p.revision + 1, None)
  BY <1>2, <1>3 DEF Row, Profiles
<1>6. Row(Reauthorize(p), p.status, "reauthorization_required", None, p.revision + 1, None)
  BY <1>2, <1>4 DEF Row, Profiles
<1>7. Row([q EXCEPT !.auth = o], p.status, o, p.cred, p.revision + 1, None)
  BY <1>2 DEF Row, Profiles, AuthOutcomes
<1>8. Row([q EXCEPT !.status = "unlinked", !.auth = "revoked", !.cred = None,
                    !.revision = p.revision],
          "unlinked", "revoked", None, p.revision, None)
  BY <1>2 DEF Row, Profiles
<1>9. Row(p, p.status, p.auth, p.cred, p.revision, p.claim)
  BY DEF Row, Profiles
<1> QED
  BY <1>5, <1>6, <1>7, <1>8, <1>9 DEF q

(* What the updates of the row leave as the credential. *)
LEMMA CredentialMoves ==
  ASSUME NEW p \in Profiles, NEW k \in Tokens, NEW o \in AuthOutcomes
  PROVE  /\ WithCredential(p, k).cred = k
         /\ Reauthorize(p).cred = None
         /\ [Unclaimed(p) EXCEPT !.auth = o].cred = p.cred
<1>1. /\ Row(WithCredential(p, k), p.status, "healthy", k, p.revision + 1, None)
      /\ Row(Reauthorize(p), p.status, "reauthorization_required", None, p.revision + 1, None)
      /\ Row([Unclaimed(p) EXCEPT !.auth = o], p.status, o, p.cred, p.revision + 1, None)
  BY RowMoves
<1>2. \A q, st, a, c, n, h : Row(q, st, a, c, n, h) => q.cred = c
  BY DEF Row
<1> QED
  BY <1>1, <1>2, Zenon


(* The claim of a refresh leaves login, credential and revision. *)
LEMMA ClaimRow ==
  ASSUME NEW p \in Profiles, NEW t \in Threads, NEW i \in Instances \cup {None}
  PROVE  Row([p EXCEPT !.claim = t, !.owner = i],
             p.status, p.auth, p.cred, p.revision, t)
BY DEF Row, Profiles

(* The session s in its fields that matter. *)
Session(s, status, revision, claim) ==
  s \in Sessions /\ s.status = status /\ s.revision = revision /\ s.claim = claim

(* The updates of a session. *)
LEMMA SessionMoves ==
  ASSUME NEW s \in Sessions, NEW t \in Threads, NEW i \in Instances, NEW st \in Statuses,
         NEW n \in Nat
  PROVE  /\ Session(Ended(st), st, 0, None)
         /\ Session([s EXCEPT !.status = "starting", !.revision = n], "starting", n, s.claim)
         /\ Session([s EXCEPT !.status = "waiting_user"],
                    "waiting_user", s.revision, s.claim)
         /\ Session([s EXCEPT !.claim = t, !.owner = i], s.status, s.revision, t)
         /\ Session([s EXCEPT !.claim = None, !.owner = None],
                    s.status, s.revision, None)
<1>1. Session(Ended(st), st, 0, None)
  <2>1. NoRenewal \in Sessions /\ NoRenewal.revision = 0 /\ NoRenewal.claim = None
    BY DEF NoRenewal, Sessions, Statuses
  <2> QED
    BY <2>1 DEF Session, Ended, Sessions
<1>2. /\ Session([s EXCEPT !.status = "starting", !.revision = n], "starting", n, s.claim)
      /\ Session([s EXCEPT !.status = "waiting_user"],
                 "waiting_user", s.revision, s.claim)
  BY DEF Session, Sessions, Statuses
<1>3. /\ Session([s EXCEPT !.claim = t, !.owner = i], s.status, s.revision, t)
      /\ Session([s EXCEPT !.claim = None, !.owner = None],
                 s.status, s.revision, None)
  BY DEF Session, Sessions
<1> QED
  BY <1>1, <1>2, <1>3

(* Session r has changed, the others have not. *)
Became(r, status, revision, claim) ==
  /\ renewal' \in [Renewals -> Sessions]
  /\ \A q \in Renewals \ {r} : renewal'[q] = renewal[q]
  /\ Session(renewal'[r], status, revision, claim)

(* The ways to update one session. *)
LEMMA RenewalMoves ==
  ASSUME Shapes, NEW r \in Renewals, NEW t \in Threads, NEW i \in Instances, NEW st \in Statuses,
         NEW n \in Nat
  PROVE  /\ renewal' = Closed(r, st) => Became(r, st, 0, None)
         /\ renewal' = [renewal EXCEPT ![r].status = "starting", ![r].revision = n]
              => Became(r, "starting", n, renewal[r].claim)
         /\ renewal' = [renewal EXCEPT ![r].status = "waiting_user"]
              => Became(r, "waiting_user", renewal[r].revision, renewal[r].claim)
         /\ renewal' = [renewal EXCEPT ![r].claim = t, ![r].owner = i]
              => Became(r, renewal[r].status, renewal[r].revision, t)
         /\ renewal' = [renewal EXCEPT ![r] = [@ EXCEPT !.claim = None, !.owner = None]]
              => Became(r, renewal[r].status, renewal[r].revision, None)
<1>a. renewal \in [Renewals -> Sessions]
  BY DEF Shapes
<1>b. renewal[r] \in Sessions
  BY <1>a
<1>1. renewal' = Closed(r, st) => Became(r, st, 0, None)
  <2>1. Ended(st) \in Sessions /\ Session(Ended(st), st, 0, None)
    <3>1. NoRenewal \in Sessions /\ NoRenewal.revision = 0 /\ NoRenewal.claim = None
      BY DEF NoRenewal, Sessions, Statuses
    <3> QED
      BY <3>1 DEF Session, Ended, Sessions
  <2> QED
    BY <1>a, <2>1 DEF Closed, Became
<1>2. renewal' = [renewal EXCEPT ![r].status = "starting", ![r].revision = n]
              => Became(r, "starting", n, renewal[r].claim)
  <2> DEFINE g == [renewal[r] EXCEPT !.status = "starting", !.revision = n]
  <2>1. [renewal EXCEPT ![r].status = "starting", ![r].revision = n] = [renewal EXCEPT ![r] = g]
    BY <1>a
  <2>2. g \in Sessions /\ Session(g, "starting", n, renewal[r].claim)
    BY <1>b DEF Session, Sessions, Statuses
  <2> HIDE DEF g
  <2> QED
    BY <1>a, <2>1, <2>2 DEF Became
<1>3. renewal' = [renewal EXCEPT ![r].status = "waiting_user"]
              => Became(r, "waiting_user", renewal[r].revision, renewal[r].claim)
  <2> DEFINE g == [renewal[r] EXCEPT !.status = "waiting_user"]
  <2>1. [renewal EXCEPT ![r].status = "waiting_user"] = [renewal EXCEPT ![r] = g]
    BY <1>a
  <2>2. g \in Sessions /\ Session(g, "waiting_user", renewal[r].revision, renewal[r].claim)
    BY <1>b, SessionMoves DEF Session
  <2> HIDE DEF g
  <2> QED
    BY <1>a, <2>1, <2>2 DEF Became
<1>4. renewal' = [renewal EXCEPT ![r].claim = t, ![r].owner = i]
              => Became(r, renewal[r].status, renewal[r].revision, t)
  <2> DEFINE g == [renewal[r] EXCEPT !.claim = t, !.owner = i]
  <2>1. [renewal EXCEPT ![r].claim = t, ![r].owner = i] = [renewal EXCEPT ![r] = g]
    BY <1>a
  <2>2. g \in Sessions /\ Session(g, renewal[r].status, renewal[r].revision, t)
    BY <1>b DEF Session, Sessions, Statuses
  <2> HIDE DEF g
  <2> QED
    BY <1>a, <2>1, <2>2 DEF Became
<1>5. renewal' = [renewal EXCEPT ![r] = [@ EXCEPT !.claim = None, !.owner = None]]
              => Became(r, renewal[r].status, renewal[r].revision, None)
  <2> DEFINE g == [renewal[r] EXCEPT !.claim = None, !.owner = None]
  <2>1. [renewal EXCEPT ![r] = [@ EXCEPT !.claim = None, !.owner = None]]
          = [renewal EXCEPT ![r] = g]
    BY <1>a
  <2>2. g \in Sessions /\ Session(g, renewal[r].status, renewal[r].revision, None)
    BY <1>b, SessionMoves DEF Session
  <2> HIDE DEF g
  <2> QED
    BY <1>a, <2>1, <2>2 DEF Became
<1> QED
  BY <1>1, <1>2, <1>3, <1>4, <1>5

(* Sessions have at most ended. *)
Settled ==
  /\ renewal' \in [Renewals -> Sessions]
  /\ \A r \in Renewals :
       \/ Session(renewal'[r], renewal[r].status, renewal[r].revision, renewal[r].claim)
       \/ renewal'[r].status \in Terminal

(* Steps that end sessions. *)
LEMMA Settling ==
  ASSUME Shapes, NEW st \in Terminal
  PROVE  /\ renewal' = renewal => Settled
         /\ \A r \in Renewals : renewal' = Closed(r, st) => Settled
         /\ renewal' = CloseOpen(st) =>
              /\ Settled
              /\ \A r \in Renewals : renewal'[r].status \notin {"starting", "waiting_user"}
<1>a. renewal \in [Renewals -> Sessions]
  BY DEF Shapes
<1>b. \A r \in Renewals :
        Session(renewal[r], renewal[r].status, renewal[r].revision, renewal[r].claim)
  BY <1>a DEF Session
<1>c. Ended(st) \in Sessions /\ Ended(st).status = st /\ st \in Statuses
        /\ st \notin {"starting", "waiting_user"}
  <2>1. NoRenewal \in Sessions
    BY DEF NoRenewal, Sessions, Statuses
  <2>2. st \in Statuses
    BY DEF Statuses
  <2> QED
    BY <2>1, <2>2 DEF Ended, Sessions, Terminal
<1>1. renewal' = renewal => Settled
  BY <1>a, <1>b DEF Settled
<1>2. ASSUME NEW r \in Renewals, renewal' = Closed(r, st) PROVE Settled
  BY <1>2, <1>a, <1>b, <1>c DEF Settled, Closed
<1>3. ASSUME renewal' = CloseOpen(st)
      PROVE /\ Settled
            /\ \A r \in Renewals : renewal'[r].status \notin {"starting", "waiting_user"}
  <2>1. \A r \in Renewals :
          renewal'[r] = IF renewal[r].status \in {"starting", "waiting_user"}
                        THEN Ended(st) ELSE renewal[r]
    BY <1>3 DEF CloseOpen
  <2>2. renewal' \in [Renewals -> Sessions]
    BY <1>3, <1>a, <1>c DEF CloseOpen
  <2> QED
    BY <2>1, <2>2, <1>b, <1>c DEF Settled
<1> QED
  BY <1>1, <1>2, <1>3

-----------------------------------------------------------------------------
(* The parts of the invariant under the steps that hardly touch them. *)

(* Threads have kept their locals or are outside the states pcs. *)
Left(pcs) ==
  /\ thread' \in [Threads -> Locals]
  /\ \A t \in Threads : thread'[t] = thread[t] \/ thread'[t].pc \notin pcs

(* What a thread may have in its hands. *)
Holding == Carry \cup {"replace"}

(* No host secret, and nobody who writes one, is new. *)
LEMMA SeedsRest ==
  ASSUME Shapes, SeedInv, Left({"replace"}), issued' = issued \/ issued' = issued + 1, seed' = seed
  PROVE  SeedInv'
<1>1. issued \in Nat /\ \A k \in 1..issued : k \in 1..issued'
  BY DEF Shapes, Tokens
<1>2. ASSUME NEW t \in Threads, thread'[t].pc = "replace"
      PROVE  thread'[t] = thread[t]
  BY <1>2 DEF Left
<1> QED
  BY <1>1, <1>2 DEF SeedInv

(* No thread takes up a credential, and the profile keeps its own. *)
LEMMA CredentialsRest ==
  ASSUME Shapes, ClaimInv, CredentialInv, Left(Carry), profile'.cred = profile.cred,
         profile'.claim = profile.claim, issued' = issued \/ issued' = issued + 1, spent' = spent,
         \A k \in 1..issued : base'[k] = base[k], seed' = seed
  PROVE  ClaimInv' /\ CredentialInv'
<1>1. ASSUME NEW t \in Threads, thread'[t].pc \in Carry
      PROVE  thread'[t] = thread[t] /\ thread[t].pc \in Carry
  BY <1>1 DEF Left
<1>2. \A k \in 1..issued : k \in 1..issued'
  BY DEF Shapes, Tokens
<1>3. ClaimInv'
  BY <1>1, <1>2 DEF ClaimInv
<1>4. ASSUME NEW k \in Tokens, seed[k] = "unused" PROVE Untouched(k)'
  BY <1>1, <1>4 DEF CredentialInv, Untouched
<1>5. ASSUME NEW k \in Tokens, Once(k) PROVE Exclusive(k)'
  BY <1>1, <1>5 DEF CredentialInv, Exclusive
<1> QED
  BY <1>3, <1>4, <1>5 DEF CredentialInv, Once

(* The profile has lost credential and claim. *)
LEMMA CredentialsLost ==
  ASSUME Shapes, ClaimInv, CredentialInv, Left(Carry), profile'.cred = None,
         profile'.claim = None, issued' = issued, spent' = spent, base' = base, seed' = seed
  PROVE  ClaimInv' /\ CredentialInv'
<1>0. None \notin Tokens /\ \A t \in Threads : t # None
  BY ProfileAssumption DEF Tokens
<1>1. ASSUME NEW t \in Threads, thread'[t].pc \in Carry
      PROVE  thread'[t] = thread[t] /\ thread[t].pc \in Carry
  BY <1>1 DEF Left
<1>2. ClaimInv'
  BY <1>0, <1>1 DEF ClaimInv
<1>3. ASSUME NEW k \in Tokens, seed[k] = "unused" PROVE Untouched(k)'
  BY <1>0, <1>1, <1>3 DEF CredentialInv, Untouched
<1>4. ASSUME NEW k \in Tokens, Once(k) PROVE Exclusive(k)'
  BY <1>0, <1>1, <1>4 DEF CredentialInv, Exclusive
<1> QED
  BY <1>2, <1>3, <1>4 DEF CredentialInv, Once

(* The profile has got the credential k, and no claim: k is nobody else's, or *)
(* the owner has brought it back.                                             *)
LEMMA CredentialsRenewed ==
  ASSUME Shapes, ClaimInv, CredentialInv, Left(Carry), NEW k \in Tokens, profile'.cred = k,
         profile'.claim = None, issued' = issued, spent' = spent, base' = base,
         \A j \in Tokens \ {k} : seed'[j] = seed[j], seed'[k] # "unused",
         seed'[k] # "again" =>
           /\ seed[k] # "again" /\ k \notin spent
           /\ \A t \in Threads : thread'[t].pc \in Carry => thread'[t].tok # k
  PROVE  ClaimInv' /\ CredentialInv'
<1>0. \A t \in Threads : t # None
  BY ProfileAssumption
<1>1. ASSUME NEW t \in Threads, thread'[t].pc \in Carry
      PROVE  thread'[t] = thread[t] /\ thread[t].pc \in Carry
  BY <1>1 DEF Left
<1>2. ClaimInv'
  BY <1>0, <1>1 DEF ClaimInv
<1>3. ASSUME NEW j \in Tokens, seed'[j] = "unused" PROVE Untouched(j)'
  <2>1. j # k /\ seed[j] = "unused"
    BY <1>3
  <2> QED
    BY <1>1, <2>1 DEF CredentialInv, Untouched
<1>4. ASSUME NEW j \in Tokens, seed'[j] # "again" PROVE Exclusive(j)'
  <2>1. CASE j = k
    BY <1>4, <2>1 DEF Exclusive
  <2>2. CASE j # k
    <3>1. Exclusive(j)
      BY <1>4, <2>2 DEF CredentialInv, Once
    <3> QED
      BY <1>1, <2>2, <3>1 DEF Exclusive
  <2> QED
    BY <2>1, <2>2
<1> QED
  BY <1>2, <1>3, <1>4 DEF CredentialInv, Once

(* Thread t has taken up the credential n, which nobody else holds unless the *)
(* owner has brought it back; the credential k it had may have been spent.    *)
LEMMA CredentialsCarried ==
  ASSUME Shapes, ClaimInv, CredentialInv, NEW t \in Threads, NEW pc \in Carry, NEW item,
         NEW n \in Tokens, NEW k \in Tokens, NEW o, Moved(t, pc, item, n, o),
         profile'.cred = profile.cred,
         profile'.claim = profile.claim \/ (profile.claim = None /\ profile'.claim = t),
         issued' = issued \/ issued' = issued + 1, n \in 1..issued',
         \A j \in 1..issued : base'[j] = base[j], seed' = seed,
         profile'.claim = t =>
           /\ pc \in {"refresh", "release"} => profile.cred = n
           /\ pc = "complete" => profile.cred = n \/ profile.cred = base'[n],
         seed[n] # "unused",
         Once(n) =>
           /\ pc # "release" \/ o # "reauthorization_required" => n \notin spent'
           /\ profile.cred = n => pc # "install" /\ profile'.claim = t
           /\ \A u \in Threads \ {t} : thread[u].pc \in Carry => thread[u].tok # n,
         \/ spent' = spent
         \/ /\ spent' = spent \cup {k} /\ seed[k] # "unused"
            /\ Once(k) => /\ profile.cred = k => profile'.claim # None
                          /\ \A u \in Threads \ {t} : thread[u].pc \in Carry => thread[u].tok # k
  PROVE  ClaimInv' /\ CredentialInv'
<1>0. t # None /\ \A j \in 1..issued : j \in 1..issued'
  BY ProfileAssumption DEF Shapes, Tokens
<1>1. /\ thread'[t].pc = pc /\ thread'[t].tok = n /\ thread'[t].outcome = o
      /\ \A u \in Threads \ {t} : thread'[u] = thread[u]
  BY DEF Moved
<1>2. \A u \in Threads \ {t} : profile'.claim = u => profile.claim = u
  BY ProfileAssumption
<1>3. ClaimInv'
  <2>1. ASSUME NEW u \in Threads, u # t, thread'[u].pc \in Carry
        PROVE  /\ thread'[u].tok \in 1..issued'
               /\ profile'.claim = u /\ thread'[u].pc \in {"refresh", "release"} =>
                    profile'.cred = thread'[u].tok
               /\ profile'.claim = u /\ thread'[u].pc = "complete" =>
                    profile'.cred = thread'[u].tok \/ profile'.cred = base'[thread'[u].tok]
    <3>1. thread'[u] = thread[u] /\ thread[u].tok \in 1..issued
      BY <1>1, <2>1 DEF ClaimInv
    <3>2. base'[thread[u].tok] = base[thread[u].tok] /\ thread[u].tok \in 1..issued'
      BY <1>0, <3>1
    <3> QED
      BY <1>2, <2>1, <3>1, <3>2 DEF ClaimInv
  <2> QED
    BY <1>1, <2>1 DEF ClaimInv
<1>4. ASSUME NEW j \in Tokens, seed[j] = "unused" PROVE Untouched(j)'
  <2>1. j # n /\ j \notin spent'
    BY <1>4 DEF CredentialInv, Untouched
  <2> QED
    BY <1>1, <1>4, <2>1 DEF CredentialInv, Untouched
<1>5. ASSUME NEW j \in Tokens, Once(j) PROVE Exclusive(j)'
  <2>1. Exclusive(j)
    BY <1>5 DEF CredentialInv
  <2>2. j \in spent' /\ profile'.cred = j => profile'.claim # None
    BY <1>0, <1>5, <2>1 DEF Exclusive
  <2>3. ASSUME NEW u \in Threads, thread'[u].pc \in Carry, thread'[u].tok = j
        PROVE  /\ thread'[u].pc # "release" \/ thread'[u].outcome # "reauthorization_required" =>
                    j \notin spent'
               /\ profile'.cred = j => thread'[u].pc # "install" /\ profile'.claim = u
               /\ \A v \in Threads \ {u} : thread'[v].pc \in Carry => thread'[v].tok # j
    <3>1. CASE u = t
      BY <1>1, <1>5, <2>3, <3>1
    <3>2. CASE u # t
      <4>1. thread'[u] = thread[u] /\ j # n
        BY <1>1, <1>5, <2>3, <3>2
      <4>2. j \in spent' => j \in spent
        BY <1>1, <1>5, <2>3, <3>2
      <4>3. profile.cred = j => profile'.claim = profile.claim
        BY <2>1, <2>3, <3>2, <4>1, ProfileAssumption DEF Exclusive
      <4>4. \A v \in Threads \ {u} : thread'[v].pc \in Carry => thread'[v].tok # j
        BY <1>1, <2>1, <2>3, <3>2, <4>1 DEF Exclusive
      <4> QED
        BY <2>1, <2>3, <3>2, <4>1, <4>2, <4>3, <4>4 DEF Exclusive
    <3> QED
      BY <3>1, <3>2
  <2> QED
    BY <2>2, <2>3 DEF Exclusive
<1> QED
  BY <1>3, <1>4, <1>5 DEF CredentialInv, Once

(* Sessions have at most ended, codes are as they were. *)
LEMMA PollsRest ==
  ASSUME Shapes, LocalsInv, PollInv, Settled, Left(Polling), used' = used, seen' = seen,
         \A t \in Threads : thread[t].pc = "install" => base'[thread[t].tok] = base[thread[t].tok]
  PROVE  PollInv'
<1>0. \A r \in Renewals :
        \/ renewal'[r].status = renewal[r].status /\ renewal'[r].claim = renewal[r].claim
        \/ renewal'[r].status \notin {"none", "starting", "waiting_user"}
  BY DEF Settled, Session, Terminal
<1>1. \A r \in used' : /\ renewal'[r].status \notin {"none", "starting"}
                       /\ renewal'[r].status = "waiting_user" => renewal'[r].claim # None
  BY <1>0 DEF PollInv, Shapes
<1>2. ASSUME NEW t \in Threads, thread'[t].pc \in Polling
      PROVE  thread'[t] = thread[t] /\ thread[t].pc \in Polling
  BY <1>2 DEF Left
<1>3. ASSUME NEW t \in Threads, thread'[t].pc \in Polling, NEW r \in Renewals, r = thread'[t].item
      PROVE  /\ renewal'[r].status \notin {"none", "starting"}
             /\ renewal'[r].status = "waiting_user" => renewal'[r].claim = t
             /\ renewal'[r].status = "waiting_user" /\ thread'[t].pc \in {"check", "poll", "defer"} => r \notin used'
             /\ thread'[t].pc = "install" => base'[thread'[t].tok] = seen'[r]
             /\ \A u \in Threads \ {t} : thread'[u].pc \in Polling => thread'[u].item # r
  <2>1. thread'[t] = thread[t] /\ thread[t].pc \in Polling
    BY <1>2, <1>3
  <2>2. /\ renewal[r].status \notin {"none", "starting"}
        /\ renewal[r].status = "waiting_user" => renewal[r].claim = t
        /\ renewal[r].status = "waiting_user" /\ thread[t].pc \in {"check", "poll", "defer"} => r \notin used
        /\ thread[t].pc = "install" => base[thread[t].tok] = seen[r]
        /\ \A u \in Threads \ {t} : thread[u].pc \in Polling => thread[u].item # r
    BY <2>1, <1>3 DEF PollInv
  <2> QED
    BY <1>0, <1>2, <1>3, <2>1, <2>2
<1>4. \A t \in Threads : thread'[t].pc \in Polling => thread'[t].item \in Renewals
  BY <1>2 DEF LocalsInv, Polling
<1> QED
  BY <1>1, <1>3, <1>4 DEF PollInv

(* Sessions have at most ended, and the profile has its credential or a new revision. *)
LEMMA RevisionsRest ==
  ASSUME Shapes, RevisionInv, Settled, seen' = seen,
         \/ profile'.revision = profile.revision /\ profile'.cred = profile.cred
         \/ profile'.revision = profile.revision + 1
         \/ /\ profile'.revision = profile.revision
            /\ \A r \in Renewals : renewal'[r].status \notin {"starting", "waiting_user"}
  PROVE  RevisionInv'
<1>0. \A r \in Renewals :
        \/ renewal'[r].status = renewal[r].status /\ renewal'[r].revision = renewal[r].revision
        \/ renewal'[r].status \notin {"starting", "waiting_user"}
  BY DEF Settled, Session, Terminal
<1>1. profile.revision \in Nat /\ \A r \in Renewals : renewal[r].revision \in Nat
  BY DEF Shapes, Profiles, Sessions
<1> QED
  BY <1>0, <1>1 DEF RevisionInv

(* A thread that is at rest, or gone outside pcs, has left them. *)
LEMMA Leaving ==
  ASSUME Shapes, NEW pcs
  PROVE  /\ thread' = thread => Left(pcs)
         /\ \A t \in Threads : \A pc, item, tok, o :
              Moved(t, pc, item, tok, o) /\ pc \notin pcs => Left(pcs)
BY DEF Left, Moved, Shapes

(* The locals after a move of one thread. *)
LEMMA LocalsMoved ==
  ASSUME LocalsInv, NEW t \in Threads, NEW pc, NEW item, NEW tok, NEW o, Moved(t, pc, item, tok, o),
         pc \in {"begin", "start", "check", "poll", "defer", "fail_poll", "install"} => item \in Renewals,
         pc = "start" => o \in {"waiting_user", "unknown", "failed"},
         pc = "fail_poll" => o \in Terminal,
         pc = "release" => o \in AuthOutcomes
  PROVE  LocalsInv'
BY DEF LocalsInv, Moved

(* The locals when nothing moves. *)
LEMMA LocalsStay ==
  ASSUME LocalsInv, thread' = thread
  PROVE  LocalsInv'
BY DEF LocalsInv

(* Leases that have not been opened. *)
LeasesKept ==
  /\ lease' \in [Leases -> {"none", "open", "redeemed"}]
  /\ (\E l \in Leases : lease'[l] = "open") => profile.status = "active" /\ profile.auth = "healthy"

LeasesGone ==
  /\ lease' \in [Leases -> {"none", "open", "redeemed"}]
  /\ \A l \in Leases : lease'[l] # "open"

(* Leases are dropped or left alone. *)
LEMMA LeasesMove ==
  ASSUME Shapes, LeaseInv
  PROVE  /\ DropLeases => LeasesGone
         /\ lease' = lease => LeasesKept
         /\ LeasesGone => LeasesKept
<1>1. DropLeases => LeasesGone
  BY DEF Shapes, DropLeases, LeasesGone
<1>2. lease' = lease => LeasesKept
  BY DEF Shapes, LeaseInv, LeasesKept
<1>3. LeasesGone => LeasesKept
  BY DEF LeasesGone, LeasesKept
<1> QED
  BY <1>1, <1>2, <1>3

(* The processes and the provider's side in shape. *)
Aside ==
  /\ inst' \in [Instances -> {"unborn", "serving", "dead"}]
  /\ issued' = issued /\ used' = used /\ spent' = spent /\ base' = base /\ seen' = seen
  /\ seed' = seed

(* A thread that takes up nothing takes up no credential and no secret. *)
LEMMA HoldingLeft ==
  ASSUME Left(Holding)
  PROVE  Left(Carry) /\ Left({"replace"})
BY DEF Left, Holding

(* A step that leaves credential and claim, and at most ends sessions. *)
LEMMA Calm ==
  ASSUME IInv, LocalsInv', Left(Holding), Left(Polling), Settled, LeasesKept, Aside,
         Row(profile', profile.status, profile.auth, profile.cred, profile.revision, profile.claim)
  PROVE  IInv'
<1>1. Shapes'
  BY DEF IInv, Shapes, Left, Settled, LeasesKept, Aside, Row
<1>2. ClaimInv' /\ CredentialInv' /\ SeedInv'
  BY HoldingLeft, CredentialsRest, SeedsRest DEF IInv, Row, Aside
<1>3. PollInv'
  BY PollsRest DEF IInv, Aside
<1>4. RevisionInv'
  BY RevisionsRest DEF IInv, Aside, Row
<1>5. ProfileInv' /\ LeaseInv'
  BY DEF IInv, ProfileInv, LeaseInv, LeasesKept, Row, Aside
<1> QED
  BY <1>1, <1>2, <1>3, <1>4, <1>5 DEF IInv

(* A step that gives up the credential. *)
LEMMA Losing ==
  ASSUME IInv, LocalsInv', Left(Holding), Left(Polling), Settled, LeasesGone, Aside,
         Row(profile', profile.status, "reauthorization_required", None, profile.revision + 1, None)
  PROVE  IInv'
<1>1. Shapes'
  BY DEF IInv, Shapes, Left, Settled, LeasesGone, Aside, Row
<1>2. ClaimInv' /\ CredentialInv' /\ SeedInv'
  BY HoldingLeft, CredentialsLost, SeedsRest DEF IInv, Row, Aside
<1>3. PollInv'
  BY PollsRest DEF IInv, Aside
<1>4. RevisionInv'
  BY RevisionsRest DEF IInv, Aside, Row
<1>5. ProfileInv' /\ LeaseInv'
  BY DEF IInv, ProfileInv, LeaseInv, LeasesGone, Row, Aside
<1> QED
  BY <1>1, <1>2, <1>3, <1>4, <1>5 DEF IInv

-----------------------------------------------------------------------------
(* Leases and the refresh. *)

(* The owner's lease requests. *)
LEMMA LeaseSteps ==
  ASSUME IInv, NEW i \in Instances, NEW l \in Leases,
         CreateLease(i, l) \/ \E t \in Threads : RedeemLease(t, i, l)
  PROVE  IInv'
<1>0. Settled /\ Aside /\ Row(profile', profile.status, profile.auth, profile.cred, profile.revision, profile.claim)
  <2>1. renewal' = renewal /\ profile' = profile /\ inst' = inst /\ UNCHANGED histVars
    BY DEF CreateLease, RedeemLease
  <2>2. Settled
    BY <2>1, Settling DEF IInv, Terminal
  <2>3. Aside /\ Row(profile', profile.status, profile.auth, profile.cred, profile.revision, profile.claim)
    BY <2>1, RowMoves DEF Aside, IInv, Shapes, histVars, Row
  <2> QED
    BY <2>2, <2>3
<1>1. LeasesKept
  BY DEF CreateLease, RedeemLease, LeasesKept, IInv, Shapes
<1>2. LocalsInv' /\ Left(Holding) /\ Left(Polling)
  <2>1. CASE CreateLease(i, l)
    BY <2>1, LocalsStay, Leaving DEF IInv, CreateLease
  <2>2. ASSUME NEW t \in Threads, RedeemLease(t, i, l)
        PROVE  LocalsInv' /\ Left(Holding) /\ Left(Polling)
    <3>1. Moved(t, "claim", None, None, None)
      BY <2>2, BeginMoves DEF IInv, RedeemLease, ThreadPCs
    <3> QED
      BY <3>1, LocalsMoved, Leaving DEF IInv, Holding, Carry, Polling
  <2> QED
    BY <2>1, <2>2
<1> QED
  BY <1>0, <1>1, <1>2, Calm

(* A request for the token waits, gives up, or takes a claim that nobody has:  *)
(* then nobody holds the profile's credential.                                 *)
LEMMA ClaimRefreshStep ==
  ASSUME IInv, NEW t \in Threads, ClaimRefresh(t)
  PROVE  IInv'
<1>0. Settled /\ Aside /\ renewal' = renewal /\ UNCHANGED histVars
  <2>1. renewal' = renewal /\ inst' = inst /\ UNCHANGED histVars
    BY DEF ClaimRefresh
  <2>2. Settled
    BY <2>1, Settling DEF IInv, Terminal
  <2> QED
    BY <2>1, <2>2 DEF Aside, IInv, Shapes, histVars
<1>a. Shapes /\ LocalsInv /\ LeaseInv /\ profile \in Profiles
  BY DEF IInv, Shapes
<1>b. ASSUME Return(t) \/ Goto(t, "waiting") PROVE LocalsInv' /\ Left(Holding) /\ Left(Polling)
  <2>1. Moved(t, "idle", None, None, None) \/
        Moved(t, "waiting", thread[t].item, thread[t].tok, thread[t].outcome)
    <3>1. None \in Tokens \cup {None} /\ None \in Outcomes /\ "waiting" \in ThreadPCs
      BY DEF Outcomes, ThreadPCs
    <3> QED
      BY <3>1, <1>a, <1>b, ThreadMoves
  <2> QED
    BY <2>1, <1>a, LocalsMoved, Leaving DEF Holding, Carry, Polling
<1>1. CASE (Return(t) \/ Goto(t, "waiting")) /\ profile' = profile /\ lease' = lease
  <2>1. Row(profile', profile.status, profile.auth, profile.cred, profile.revision, profile.claim)
    BY <1>1, <1>a DEF Row
  <2> QED
    BY <1>1, <1>0, <1>a, <1>b, <2>1, LeasesMove, Calm
<1>2. CASE profile' = Reauthorize(profile) /\ DropLeases /\ Return(t)
  <2>1. Row(profile', profile.status, "reauthorization_required", None, profile.revision + 1, None)
    <3>1. 1 \in Tokens /\ "healthy" \in AuthOutcomes
      BY ProfileAssumption DEF Tokens, AuthOutcomes
    <3> QED
      BY <3>1, <1>2, <1>a, RowMoves
  <2> QED
    BY <1>2, <1>0, <1>a, <1>b, <2>1, LeasesMove, Losing
<1>3. ASSUME MayClaim, profile.auth = "healthy", thread[t].pc \in {"claim", "waiting"},
             profile' = [profile EXCEPT !.claim = t, !.owner = thread[t].inst],
             thread' = [thread EXCEPT ![t].pc = "refresh", ![t].tok = profile.cred],
             lease' = lease
      PROVE  IInv'
  <2>0. profile.cred \in 1..issued /\ profile.cred \in Tokens /\ profile.claim = None
    BY <1>3 DEF IInv, ProfileInv, MayClaim, Shapes, Profiles
  <2>1. Row(profile', profile.status, profile.auth, profile.cred, profile.revision, t)
    <3>1. thread[t].inst \in Instances \cup {None}
      BY DEF IInv, Shapes, Locals
    <3> QED
      BY <1>3, <3>1, <1>a, ClaimRow
  <2>2. Moved(t, "refresh", thread[t].item, profile.cred, thread[t].outcome)
    <3>1. "refresh" \in ThreadPCs /\ profile.cred \in Tokens \cup {None} /\ None \in Outcomes
      BY <2>0 DEF ThreadPCs, Outcomes
    <3> QED
      BY <1>3, <3>1, <1>a, ThreadMoves
  <2>3. LocalsInv' /\ Left(Polling)
    BY <2>2, <1>a, LocalsMoved, Leaving DEF Polling
  <2>8. Left({"replace"})
    BY <2>2, <1>a, Leaving
  <2>4. Shapes'
    BY <1>0, <1>3, <2>1, <2>2 DEF IInv, Shapes, Settled, Aside, Row, Moved
  <2>5. ClaimInv' /\ CredentialInv' /\ SeedInv'
    <3>1. seed[profile.cred] # "unused"
      BY <2>0 DEF IInv, CredentialInv, Untouched
    <3>2. Once(profile.cred) =>
            /\ profile.cred \notin spent
            /\ \A u \in Threads : thread[u].pc \in Carry => thread[u].tok # profile.cred
      BY <2>0, ProfileAssumption DEF IInv, CredentialInv, Exclusive
    <3>3. profile'.cred = profile.cred /\ profile'.claim = t
      BY <2>1 DEF Row
    <3>4. issued' = issued /\ spent' = spent /\ base' = base /\ seed' = seed
      BY <1>0 DEF Aside
    <3>5. ClaimInv' /\ CredentialInv'
      BY <1>a, <2>0, <2>2, <3>1, <3>2, <3>3, <3>4, CredentialsCarried DEF IInv, Carry
    <3> QED
      BY <1>a, <2>8, <3>4, <3>5, SeedsRest DEF IInv
  <2>6. PollInv'
    BY <1>0, <1>a, <2>3, PollsRest DEF IInv, Aside
  <2>7. RevisionInv'
    BY <1>0, <1>a, <2>1, RevisionsRest DEF IInv, Aside, Row
  <2>9. ProfileInv' /\ LeaseInv'
    BY <1>3, <1>0, <2>0, <2>1 DEF IInv, ProfileInv, LeaseInv, Row, Aside
  <2> QED
    BY <2>3, <2>4, <2>5, <2>6, <2>7, <2>9 DEF IInv
<1> QED
  BY <1>1, <1>2, <1>3 DEF ClaimRefresh

(* A new credential is no older one's successor. *)
LEMMA Issuing ==
  ASSUME Shapes, NEW from \in Tokens \cup {None}, Issue(from)
  PROVE  /\ issued \in Nat /\ issued + 1 \in Tokens /\ issued' = issued + 1 /\ issued + 1 \notin 1..issued
         /\ base' \in [Tokens -> Tokens \cup {None}] /\ base'[issued + 1] = from
         /\ \A k \in 1..issued : k \in 1..issued' /\ base'[k] = base[k]
<1>1. issued \in Nat /\ issued + 1 \in Tokens /\ issued' = issued + 1 /\ issued + 1 \notin 1..issued
  BY ProfileAssumption DEF Shapes, Tokens, Issue
<1>2. base' = [base EXCEPT ![issued + 1] = from] /\ base \in [Tokens -> Tokens \cup {None}]
  BY DEF Issue, Shapes
<1>3. base' \in [Tokens -> Tokens \cup {None}] /\ base'[issued + 1] = from
  BY <1>1, <1>2
<1>4. \A k \in 1..issued : k \in 1..issued' /\ k \in Tokens /\ k # issued + 1
  BY <1>1, ProfileAssumption DEF Tokens, Shapes
<1> QED
  BY <1>1, <1>2, <1>3, <1>4

(* A new credential is nobody's yet, and no host secret. *)
LEMMA NewCredential ==
  ASSUME Shapes, ProfileInv, ClaimInv, SeedInv, issued + 1 \in Tokens, issued' = issued + 1
  PROVE  /\ issued + 1 \in 1..issued' /\ issued + 1 \notin spent /\ profile.cred # issued + 1
         /\ seed[issued + 1] = "none"
         /\ \A u \in Threads : thread[u].pc \in Carry => thread[u].tok # issued + 1
<1>1. issued \in Nat /\ issued + 1 \in 1..issued' /\ issued + 1 \notin 1..issued /\ issued + 1 # None
  BY ProfileAssumption DEF Shapes, Tokens
<1> QED
  BY <1>1 DEF Shapes, ProfileInv, ClaimInv, SeedInv

(* The holder of a credential after its call to the provider. *)
LEMMA RefreshAtProviderStep ==
  ASSUME IInv, NEW t \in Threads, RefreshAtProvider(t)
  PROVE  IInv'
<1> DEFINE k == thread[t].tok
<1>a. /\ Shapes /\ LocalsInv /\ LeaseInv /\ ClaimInv /\ CredentialInv /\ SeedInv /\ ProfileInv
      /\ profile \in Profiles
  BY DEF IInv, Shapes
<1>b. thread[t].pc = "refresh" /\ thread[t].pc \in Carry
  BY DEF RefreshAtProvider, At, Carry
<1>c. k \in 1..issued /\ k \in Tokens /\ issued \in Nat
  <2>1. k \in 1..issued
    BY <1>a, <1>b DEF ClaimInv
  <2> QED
    BY <1>a, <2>1, ProfileAssumption DEF Shapes, Tokens
<1>d. /\ profile' = profile /\ lease' = lease /\ renewal' = renewal /\ inst' = inst
      /\ used' = used /\ seen' = seen /\ seed' = seed
  BY DEF RefreshAtProvider, storeVars
<1>e. profile.claim = t => profile.cred = k
  BY <1>a, <1>b DEF ClaimInv
<1>f. /\ seed[k] # "unused"
      /\ Once(k) => /\ k \notin spent
                    /\ profile.cred = k => profile.claim = t
                    /\ \A u \in Threads \ {t} : thread[u].pc \in Carry => thread[u].tok # k
  <2>1. seed[k] # "unused"
    BY <1>a, <1>b, <1>c DEF CredentialInv, Untouched
  <2>2. ASSUME Once(k)
        PROVE  /\ k \notin spent
               /\ profile.cred = k => profile.claim = t
               /\ \A u \in Threads \ {t} : thread[u].pc \in Carry => thread[u].tok # k
    <3>1. Exclusive(k)
      BY <1>a, <1>c, <2>2 DEF CredentialInv
    <3> QED
      BY <1>b, <3>1 DEF Exclusive
  <2> QED
    BY <2>1, <2>2
<1>g. t # None
  BY ProfileAssumption
<1>h. Settled
  BY <1>a, <1>d, Settling DEF Terminal
<1>i. ASSUME NEW pc \in {"complete", "release"}, NEW tok, NEW o,
             Moved(t, pc, thread[t].item, tok, o), pc = "release" => o \in AuthOutcomes,
             \A x \in 1..issued : base'[x] = base[x], issued' = issued \/ issued' = issued + 1
      PROVE  LocalsInv' /\ PollInv' /\ SeedInv'
  <2>1. LocalsInv' /\ Left(Polling) /\ Left({"replace"})
    BY <1>a, <1>i, LocalsMoved, Leaving DEF Polling
  <2>2. \A u \in Threads : thread[u].pc = "install" => base'[thread[u].tok] = base[thread[u].tok]
    BY <1>a, <1>i DEF ClaimInv, Carry
  <2> QED
    BY <1>a, <1>d, <1>h, <1>i, <2>1, <2>2, PollsRest, SeedsRest DEF IInv
<1>j. RevisionInv' /\ LeaseInv'
  BY <1>a, <1>d, <1>h DEF IInv, RevisionInv, LeaseInv
<1>k. None \in Tokens \cup {None} /\ {"complete", "release"} \subseteq ThreadPCs /\ None \in Outcomes
      /\ AuthOutcomes \subseteq Outcomes /\ {"complete", "release"} \subseteq Carry
  BY DEF Outcomes, AuthOutcomes, ThreadPCs, Carry
<1> HIDE DEF k
<1>1. ASSUME Issue(k), spent' = spent \cup {k},
             thread' = [thread EXCEPT ![t].pc = "complete", ![t].tok = issued + 1]
      PROVE  IInv'
  <2>1. /\ issued + 1 \in Tokens /\ issued' = issued + 1 /\ issued + 1 \notin 1..issued
        /\ base' \in [Tokens -> Tokens \cup {None}] /\ base'[issued + 1] = k
        /\ \A x \in 1..issued : x \in 1..issued' /\ base'[x] = base[x]
    BY <1>1, <1>a, <1>c, Issuing
  <2>2. Moved(t, "complete", thread[t].item, issued + 1, thread[t].outcome)
    BY <1>1, <1>a, <1>k, <2>1, ThreadMoves
  <2>3. LocalsInv' /\ PollInv' /\ SeedInv'
    BY <1>i, <2>1, <2>2
  <2>4. Shapes'
    <3>1. spent' \subseteq 1..issued' /\ issued' \in Tokens
      BY <1>1, <1>a, <1>c, <2>1 DEF Shapes
    <3> QED
      BY <1>a, <1>d, <2>1, <2>2, <3>1 DEF Shapes, Moved
  <2>5. ProfileInv'
    BY <1>a, <1>d, <2>1 DEF ProfileInv
  <2>6. ClaimInv' /\ CredentialInv'
    <3>1. /\ issued + 1 \in 1..issued' /\ issued + 1 \notin spent' /\ profile.cred # issued + 1
          /\ seed[issued + 1] = "none"
          /\ \A u \in Threads : thread[u].pc \in Carry => thread[u].tok # issued + 1
      <4>1. issued + 1 # k
        BY <1>c, <2>1
      <4> QED
        BY <4>1, <1>1, <1>a, <2>1, NewCredential
    <3>2. /\ issued + 1 \notin spent'
          /\ \A u \in Threads \ {t} : thread[u].pc \in Carry => thread[u].tok # issued + 1
      BY <3>1
    <3>3. profile'.claim = t => profile.cred = base'[issued + 1]
      BY <1>d, <1>e, <2>1
    <3>4. /\ spent' = spent \cup {k} /\ seed[k] # "unused"
          /\ Once(k) => /\ profile.cred = k => profile'.claim # None
                        /\ \A u \in Threads \ {t} : thread[u].pc \in Carry => thread[u].tok # k
      BY <1>1, <1>d, <1>f, <1>g
    <3>5. "complete" \in Carry /\ profile'.cred = profile.cred /\ profile'.claim = profile.claim
      BY <1>d, <1>k
    <3> QED
      BY <1>a, <1>c, <1>d, <2>1, <2>2, <3>1, <3>2, <3>3, <3>4, <3>5, CredentialsCarried
  <2> QED
    BY <2>3, <2>4, <2>5, <2>6, <1>j DEF IInv
<1>2. ASSUME NEW pc \in {"complete", "release"}, NEW o \in Outcomes, Moved(t, pc, thread[t].item, k, o),
             pc = "release" => o \in AuthOutcomes, issued' = issued, base' = base,
             \/ spent' = spent
             \/ spent' = spent \cup {k} /\ pc = "release" /\ o = "reauthorization_required"
      PROVE  IInv'
  <2>1. LocalsInv' /\ PollInv' /\ SeedInv'
    BY <1>i, <1>2
  <2>2. Shapes'
    <3>1. spent' \subseteq 1..issued'
      BY <1>2, <1>a, <1>c DEF Shapes
    <3> QED
      BY <1>a, <1>d, <1>2, <3>1 DEF Shapes, Moved
  <2>3. ProfileInv'
    BY <1>a, <1>d, <1>2 DEF ProfileInv
  <2>4. ClaimInv' /\ CredentialInv'
    <3>1. Once(k) => (pc # "release" \/ o # "reauthorization_required" => k \notin spent')
      BY <1>2, <1>f
    <3> QED
      BY <1>2, <1>a, <1>c, <1>d, <1>e, <1>f, <1>g, <1>k, <3>1, CredentialsCarried
  <2> QED
    BY <2>1, <2>2, <2>3, <2>4, <1>j DEF IInv
<1>3. ASSUME Goto(t, "complete"), UNCHANGED <<issued, base, spent>> PROVE IInv'
  <2>1. Moved(t, "complete", thread[t].item, k, thread[t].outcome) /\ thread[t].outcome \in Outcomes
    BY <1>3, <1>a, <1>k, ThreadMoves DEF k, Shapes, Locals
  <2> QED
    BY <1>2, <1>3, <2>1
<1>4. ASSUME NEW o \in AuthOutcomes, thread' = [thread EXCEPT ![t].pc = "release", ![t].outcome = o],
             UNCHANGED <<issued, base>>,
             spent' = spent \/ (spent' = spent \cup {k} /\ o = "reauthorization_required")
      PROVE  IInv'
  <2>1. Moved(t, "release", thread[t].item, k, o) /\ o \in Outcomes
    BY <1>4, <1>a, <1>k, ThreadMoves DEF k
  <2> QED
    BY <1>2, <1>4, <2>1
<1> QED
  BY <1>1, <1>3, <1>4 DEF RefreshAtProvider, k, AuthOutcomes

(* The end of a refresh: the holder of the claim writes a credential nobody   *)
(* else holds, keeps one it has not spent, or gives it up.                    *)
LEMMA EndRefreshSteps ==
  ASSUME IInv, NEW t \in Threads, CompleteRefresh(t) \/ ReleaseRefresh(t)
  PROVE  IInv'
<1>a. /\ Shapes /\ LocalsInv /\ LeaseInv /\ ClaimInv /\ CredentialInv /\ SeedInv /\ ProfileInv
      /\ profile \in Profiles
  BY DEF IInv, Shapes
<1>b. thread[t].pc \in {"complete", "release"} /\ thread[t].pc \in Carry
  BY DEF CompleteRefresh, ReleaseRefresh, At, Carry
<1>c. Return(t) /\ renewal' = renewal /\ inst' = inst /\ UNCHANGED histVars
  BY DEF CompleteRefresh, ReleaseRefresh
<1>d. Settled /\ Aside
  <2>1. Settled
    BY <1>c, <1>a, Settling DEF Terminal
  <2> QED
    BY <1>a, <1>c, <2>1 DEF Aside, Shapes, histVars
<1>e. Moved(t, "idle", None, None, None)
  <2>1. None \in Tokens \cup {None} /\ None \in Outcomes /\ "idle" \in ThreadPCs
    BY DEF Outcomes, ThreadPCs
  <2> QED
    BY <2>1, <1>a, <1>c, ThreadMoves
<1>f. LocalsInv' /\ Left(Holding) /\ Left(Polling) /\ SeedInv'
  <2>1. LocalsInv' /\ Left(Holding) /\ Left(Polling)
    BY <1>e, <1>a, LocalsMoved, Leaving DEF Holding, Carry, Polling
  <2> QED
    BY <2>1, <1>a, <1>d, HoldingLeft, SeedsRest DEF Aside
<1> DEFINE k == thread[t].tok
<1>g. k \in 1..issued /\ k \in Tokens
  <2>1. k \in 1..issued
    BY <1>a, <1>b DEF ClaimInv
  <2> QED
    BY <1>a, <2>1, ProfileAssumption DEF Shapes, Tokens
<1>h. /\ seed[k] # "unused"
      /\ Once(k) => \A u \in Threads : thread'[u].pc \in Carry => thread'[u].tok # k
  <2>1. seed[k] # "unused"
    BY <1>a, <1>b, <1>g DEF CredentialInv, Untouched
  <2>2. ASSUME Once(k), NEW u \in Threads, thread'[u].pc \in Carry PROVE thread'[u].tok # k
    <3>1. u # t /\ thread'[u] = thread[u]
      BY <2>2, <1>e DEF Moved, Carry
    <3>2. Exclusive(k)
      BY <2>2, <1>a, <1>g DEF CredentialInv
    <3> QED
      BY <2>2, <3>1, <3>2, <1>b DEF Exclusive
  <2> QED
    BY <2>1, <2>2
<1>i. PollInv'
  BY <1>a, <1>d, <1>f, PollsRest DEF IInv, Aside
<1>j. 1 \in Tokens /\ "healthy" \in AuthOutcomes
  BY ProfileAssumption DEF Tokens, AuthOutcomes
<1> HIDE DEF k
<1>1. CASE profile' = profile /\ lease' = lease
  <2>1. Row(profile', profile.status, profile.auth, profile.cred, profile.revision, profile.claim)
    BY <1>1, <1>a DEF Row
  <2> QED
    BY <1>1, <1>a, <1>d, <1>f, <2>1, LeasesMove, Calm
<1>2. CASE profile' = Reauthorize(profile) /\ DropLeases
  <2>1. Row(profile', profile.status, "reauthorization_required", None, profile.revision + 1, None)
    BY <1>2, <1>a, <1>j, RowMoves
  <2> QED
    BY <1>2, <1>a, <1>d, <1>f, <2>1, LeasesMove, Losing
<1>3. ASSUME NEW auth \in AuthOutcomes, auth # "reauthorization_required",
             Row(profile', "active", auth, k, profile.revision + 1, None), Once(k) => k \notin spent,
             (lease' = lease /\ auth = "healthy") \/ LeasesGone, profile.status = "active"
      PROVE  IInv'
  <2>1. ClaimInv' /\ CredentialInv'
    BY <1>3, <1>a, <1>d, <1>f, <1>g, <1>h, HoldingLeft, CredentialsRenewed DEF Row, Aside, Once
  <2>2. RevisionInv'
    BY <1>3, <1>d, RevisionsRest DEF IInv, Row, Aside
  <2>3. Shapes'
    BY <1>3, <1>a, <1>d, <1>e DEF Shapes, Row, Aside, Moved, LeasesGone, Settled
  <2>4. ProfileInv'
    BY <1>3, <1>d, <1>g, ProfileAssumption DEF ProfileInv, Row, Aside, AuthOutcomes
  <2>5. LeaseInv'
    BY <1>3, <1>a DEF LeaseInv, Row, LeasesGone
  <2> QED
    BY <2>1, <2>2, <2>3, <2>4, <2>5, <1>f, <1>i DEF IInv
<1>4. CASE CompleteRefresh(t)
  <2>1. lease' = lease /\ thread[t].pc = "complete" /\ (Once(k) => k \notin spent)
    BY <1>4, <1>a, <1>b, <1>g DEF CompleteRefresh, At, CredentialInv, Exclusive, k
  <2>2. CASE HasClaim(t)
    <3>1. Row(profile', "active", "healthy", k, profile.revision + 1, None) /\ profile.status = "active"
      BY <1>4, <2>2, <1>a, <1>g, <1>j, RowMoves DEF CompleteRefresh, HasClaim, k
    <3> QED
      BY <1>3, <2>1, <3>1, <1>j
  <2>3. CASE ~HasClaim(t)
    BY <1>4, <2>1, <2>3, <1>1 DEF CompleteRefresh
  <2> QED
    BY <2>2, <2>3
<1>5. CASE ReleaseRefresh(t)
  <2> DEFINE o == thread[t].outcome
  <2>1. thread[t].pc = "release" /\ o \in AuthOutcomes
    BY <1>5, <1>a DEF ReleaseRefresh, At, LocalsInv
  <2>2. ASSUME HasClaim(t), o # "reauthorization_required",
               profile' = [Unclaimed(profile) EXCEPT !.auth = o],
               IF o = "healthy" THEN UNCHANGED lease ELSE DropLeases
        PROVE  IInv'
    <3>1. profile.cred = k /\ (Once(k) => k \notin spent) /\ profile.status = "active"
      BY <2>1, <2>2, <1>a, <1>b, <1>g DEF HasClaim, ClaimInv, CredentialInv, Exclusive, k
    <3>2. Row(profile', "active", o, k, profile.revision + 1, None)
      BY <2>1, <2>2, <3>1, <1>a, <1>j, RowMoves
    <3>3. (lease' = lease /\ o = "healthy") \/ LeasesGone
      BY <2>2, <1>a, LeasesMove
    <3> QED
      BY <1>3, <2>1, <2>2, <3>1, <3>2, <3>3
  <2> QED
    BY <1>5, <1>1, <1>2, <2>2 DEF ReleaseRefresh
<1> QED
  BY <1>4, <1>5

-----------------------------------------------------------------------------
(* The owner and processes. *)

(* The secret of the owner's command: a new credential is nobody's yet. *)
LEMMA ReadForReplacementStep ==
  ASSUME IInv, NEW t \in Threads, NEW i \in Instances, ReadForReplacement(t, i)
  PROVE  IInv'
<1>a. /\ Shapes /\ LocalsInv /\ LeaseInv /\ ClaimInv /\ CredentialInv /\ SeedInv /\ ProfileInv
      /\ profile \in Profiles
  BY DEF IInv, Shapes
<1>b. /\ profile' = profile /\ lease' = lease /\ renewal' = renewal /\ inst' = inst
      /\ used' = used /\ spent' = spent /\ seen' = seen
  BY DEF ReadForReplacement, storeVars
<1>1. ASSUME NEW k \in Tokens, thread' = [thread EXCEPT ![t] = [Idle EXCEPT !.pc = "replace", !.inst = i, !.tok = k]],
             k \in 1..issued', issued' \in Tokens, issued' = issued \/ issued' = issued + 1,
             base' \in [Tokens -> Tokens \cup {None}], \A j \in 1..issued : base'[j] = base[j],
             seed' \in [Tokens -> {"none", "unused", "used", "again"}], seed'[k] # "none",
             \A j \in Tokens \ {k} : seed'[j] = seed[j],
             seed'[k] = seed[k] \/ (seed'[k] = "unused" /\ k \notin 1..issued)
      PROVE  IInv'
  <2>1. Moved(t, "replace", None, k, None)
    <3>1. LET g == [Idle EXCEPT !.pc = "replace", !.inst = i, !.tok = k]
          IN  g \in Locals /\ g.pc = "replace" /\ g.item = None /\ g.tok = k /\ g.outcome = None
      BY DEF Idle, Locals, Outcomes, ThreadPCs
    <3> QED
      BY <1>1, <1>a, <3>1 DEF Moved, Shapes
  <2>2. LocalsInv' /\ Left(Carry) /\ Left(Polling)
    BY <1>a, <2>1, LocalsMoved, Leaving DEF Carry, Polling
  <2>3. Settled
    BY <1>a, <1>b, Settling DEF Terminal
  <2>4. \A j \in 1..issued : j \in 1..issued' /\ j \in Tokens
    BY <1>1, <1>a, ProfileAssumption DEF Shapes, Tokens
  <2>5. Shapes'
    <3>1. spent' \subseteq 1..issued'
      BY <1>a, <1>b, <2>4 DEF Shapes
    <3> QED
      BY <1>1, <1>a, <1>b, <2>1, <3>1 DEF Shapes, Moved
  <2>6. ProfileInv' /\ LeaseInv' /\ RevisionInv'
    BY <1>a, <1>b, <2>4 DEF IInv, ProfileInv, LeaseInv, RevisionInv
  <2>7. PollInv'
    <3>1. \A u \in Threads : thread[u].pc = "install" => base'[thread[u].tok] = base[thread[u].tok]
      BY <1>1, <1>a DEF ClaimInv, Carry
    <3> QED
      BY <1>a, <1>b, <2>2, <2>3, <3>1, PollsRest DEF IInv
  <2>8. SeedInv'
    <3>1. ASSUME NEW j \in Tokens, j \notin 1..issued' PROVE seed'[j] = "none"
      BY <1>1, <1>a, <2>4, <3>1 DEF SeedInv
    <3>2. ASSUME NEW u \in Threads, thread'[u].pc = "replace"
          PROVE  thread'[u].tok \in 1..issued' /\ seed'[thread'[u].tok] # "none"
      <4>1. CASE u = t
        BY <1>1, <2>1, <4>1 DEF Moved
      <4>2. CASE u # t
        <5>1. thread'[u] = thread[u] /\ thread[u].tok \in 1..issued /\ seed[thread[u].tok] # "none"
          BY <1>a, <2>1, <3>2, <4>2 DEF Moved, SeedInv
        <5> QED
          BY <1>1, <2>4, <5>1
      <4> QED
        BY <4>1, <4>2
    <3> QED
      BY <3>1, <3>2 DEF SeedInv
  <2>9. ClaimInv' /\ CredentialInv'
    <3>1. ASSUME NEW u \in Threads, thread'[u].pc \in Carry
          PROVE  /\ thread'[u] = thread[u] /\ thread[u].pc \in Carry
                 /\ thread[u].tok \in 1..issued /\ base'[thread[u].tok] = base[thread[u].tok]
      <4>1. thread'[u] = thread[u] /\ thread[u].pc \in Carry
        BY <2>2, <3>1 DEF Left
      <4> QED
        BY <1>1, <1>a, <4>1 DEF ClaimInv
    <3>2. ClaimInv'
      BY <1>a, <1>b, <2>4, <3>1 DEF ClaimInv
    <3>3. ASSUME NEW j \in Tokens, seed'[j] = "unused" PROVE Untouched(j)'
      <4>1. CASE seed[j] = "unused"
        BY <1>a, <1>b, <3>1, <4>1 DEF CredentialInv, Untouched
      <4>2. CASE j \notin 1..issued
        <5>1. j \notin spent /\ profile.cred # j
          BY <1>a, <4>2, ProfileAssumption DEF Shapes, ProfileInv, Tokens
        <5> QED
          BY <1>b, <3>1, <4>2, <5>1 DEF Untouched
      <4> QED
        BY <1>1, <3>3, <4>1, <4>2
    <3>4. ASSUME NEW j \in Tokens, seed'[j] # "again" PROVE Exclusive(j)'
      <4>1. seed[j] # "again"
        BY <1>1, <1>a, <3>4 DEF SeedInv
      <4> QED
        BY <1>a, <1>b, <3>1, <4>1 DEF CredentialInv, Exclusive, Once
    <3> QED
      BY <3>2, <3>3, <3>4 DEF CredentialInv, Once
  <2> QED
    BY <2>2, <2>5, <2>6, <2>7, <2>8, <2>9 DEF IInv
<1>2. ASSUME Issue(None), seed' = [seed EXCEPT ![issued + 1] = "unused"],
             thread' = [thread EXCEPT ![t] = [Idle EXCEPT !.pc = "replace", !.inst = i, !.tok = issued + 1]]
      PROVE  IInv'
  <2>1. /\ issued \in Nat /\ issued + 1 \in Tokens /\ issued' = issued + 1 /\ issued + 1 \notin 1..issued
        /\ base' \in [Tokens -> Tokens \cup {None}]
        /\ \A x \in 1..issued : x \in 1..issued' /\ base'[x] = base[x]
    BY <1>2, <1>a, Issuing
  <2>2. /\ seed' \in [Tokens -> {"none", "unused", "used", "again"}] /\ seed'[issued + 1] = "unused"
        /\ \A j \in Tokens \ {issued + 1} : seed'[j] = seed[j]
    BY <1>2, <1>a, <2>1 DEF Shapes
  <2>3. issued + 1 \in 1..issued'
    BY <2>1
  <2> QED
    BY <1>1, <1>2, <2>1, <2>2, <2>3
<1>3. ASSUME NEW k \in Tokens, seed[k] # "none", UNCHANGED <<seed, issued, base>>,
             thread' = [thread EXCEPT ![t] = [Idle EXCEPT !.pc = "replace", !.inst = i, !.tok = k]]
      PROVE  IInv'
  <2>1. k \in 1..issued
    BY <1>3, <1>a DEF SeedInv
  <2> QED
    BY <1>1, <1>3, <1>a, <2>1 DEF Shapes
<1> QED
  BY <1>2, <1>3 DEF ReadForReplacement

(* The owner's write: a secret that has been in the profile before may be in  *)
(* anybody's hands, one that has not is nobody's.                             *)
LEMMA ReplaceCredentialStep ==
  ASSUME IInv, NEW t \in Threads, ReplaceCredential(t)
  PROVE  IInv'
<1> DEFINE k == thread[t].tok
<1>a. /\ Shapes /\ LocalsInv /\ LeaseInv /\ ClaimInv /\ CredentialInv /\ SeedInv /\ ProfileInv
      /\ profile \in Profiles
  BY DEF IInv, Shapes
<1>b. /\ thread[t].pc = "replace" /\ Return(t) /\ inst' = inst
      /\ issued' = issued /\ used' = used /\ spent' = spent /\ base' = base /\ seen' = seen
  BY DEF ReplaceCredential, At
<1>c. Moved(t, "idle", None, None, None)
  <2>1. None \in Tokens \cup {None} /\ None \in Outcomes /\ "idle" \in ThreadPCs
    BY DEF Outcomes, ThreadPCs
  <2> QED
    BY <2>1, <1>a, <1>b, ThreadMoves
<1>d. LocalsInv' /\ Left(Holding) /\ Left(Polling)
  BY <1>c, <1>a, LocalsMoved, Leaving DEF Holding, Carry, Polling
<1>e. k \in 1..issued /\ k \in Tokens /\ k # None /\ seed[k] # "none"
  <2>1. k \in 1..issued /\ seed[k] # "none"
    BY <1>a, <1>b DEF SeedInv
  <2> QED
    BY <1>a, <2>1, ProfileAssumption DEF Shapes, Tokens
<1> HIDE DEF k
<1>1. CASE UNCHANGED <<storeVars, seed>>
  <2>1. Settled /\ LeasesKept
    BY <1>1, <1>a, Settling, LeasesMove DEF storeVars, Terminal
  <2>2. Aside /\ Row(profile', profile.status, profile.auth, profile.cred, profile.revision, profile.claim)
    BY <1>1, <1>a, <1>b DEF storeVars, Row, Aside, Shapes
  <2> QED
    BY <1>d, <2>1, <2>2, Calm
<1>2. ASSUME profile.status = "active", profile' = WithCredential(profile, k),
             renewal' = CloseOpen("failed"), DropLeases,
             seed' = [seed EXCEPT ![k] = IF @ = "unused" THEN "used" ELSE "again"]
      PROVE  IInv'
  <2>1. Row(profile', "active", "healthy", k, profile.revision + 1, None)
    <3>1. "healthy" \in AuthOutcomes
      BY DEF AuthOutcomes
    <3> QED
      BY <1>2, <1>a, <1>e, <3>1, RowMoves
  <2>2. /\ Settled
        /\ \A r \in Renewals : renewal'[r].status \notin {"starting", "waiting_user"}
    BY <1>2, <1>a, Settling DEF Terminal
  <2>3. LeasesGone
    BY <1>2, <1>a, LeasesMove
  <2>4. /\ seed' \in [Tokens -> {"none", "unused", "used", "again"}]
        /\ \A j \in Tokens \ {k} : seed'[j] = seed[j]
        /\ seed'[k] = IF seed[k] = "unused" THEN "used" ELSE "again"
    BY <1>2, <1>a, <1>e DEF Shapes
  <2>5. ClaimInv' /\ CredentialInv'
    <3>1. ASSUME seed[k] = "unused"
          PROVE  k \notin spent /\ \A u \in Threads : thread'[u].pc \in Carry => thread'[u].tok # k
      <4>1. Untouched(k)
        BY <1>a, <1>e, <3>1 DEF CredentialInv
      <4>2. \A u \in Threads : thread'[u].pc \in Carry => thread'[u] = thread[u] /\ thread[u].pc \in Carry
        BY <1>d DEF Left, Holding
      <4> QED
        BY <4>1, <4>2 DEF Untouched
    <3> QED
      BY <1>a, <1>b, <1>d, <1>e, <2>1, <2>4, <3>1, HoldingLeft, CredentialsRenewed DEF Row
  <2>6. SeedInv'
    <3>1. ASSUME NEW u \in Threads, thread'[u].pc = "replace"
          PROVE  thread'[u] = thread[u]
      BY <3>1, <1>d DEF Left, Holding
    <3>2. ASSUME NEW j \in Tokens PROVE (seed'[j] = "none") <=> (seed[j] = "none")
      BY <1>e, <2>4, <3>2
    <3>3. \A j \in 1..issued : j \in Tokens
      BY <1>a, ProfileAssumption DEF Shapes, Tokens
    <3> QED
      BY <1>a, <1>b, <3>1, <3>2, <3>3 DEF SeedInv
  <2>7. PollInv' /\ RevisionInv'
    BY <1>a, <1>b, <1>d, <2>2, PollsRest DEF IInv, RevisionInv
  <2>8. Shapes'
    BY <1>a, <1>b, <1>c, <2>1, <2>2, <2>3, <2>4 DEF Shapes, Settled, LeasesGone, Row, Moved
  <2>9. ProfileInv' /\ LeaseInv'
    BY <1>b, <1>e, <2>1, <2>3 DEF ProfileInv, LeaseInv, LeasesGone, Row
  <2> QED
    BY <1>d, <2>5, <2>6, <2>7, <2>8, <2>9 DEF IInv
<1> QED
  BY <1>1, <1>2 DEF ReplaceCredential, k

(* The end of the profile. *)
LEMMA UnlinkStep ==
  ASSUME IInv, NEW i \in Instances, UnlinkProfile(i)
  PROVE  IInv'
<1>a. /\ Shapes /\ LocalsInv /\ LeaseInv /\ ClaimInv /\ CredentialInv /\ SeedInv /\ ProfileInv
      /\ profile \in Profiles
  BY DEF IInv, Shapes
<1>b. thread' = thread /\ inst' = inst /\ UNCHANGED histVars /\ DropLeases
  BY DEF UnlinkProfile
<1>c. LocalsInv' /\ Left(Holding) /\ Left(Polling)
  BY <1>a, <1>b, LocalsStay, Leaving
<1>d. /\ Settled
      /\ \A r \in Renewals : renewal'[r].status \notin {"starting", "waiting_user"}
  BY <1>a, Settling DEF UnlinkProfile, Terminal
<1>e. LeasesGone /\ LeaseInv'
  BY <1>a, <1>b, LeasesMove DEF LeasesGone, LeaseInv
<1>1. Row(profile', "unlinked", "revoked", None, profile.revision, None)
  <2>1. 1 \in Tokens /\ "healthy" \in AuthOutcomes
    BY ProfileAssumption DEF Tokens, AuthOutcomes
  <2> QED
    BY <1>a, <2>1, RowMoves DEF UnlinkProfile
<1>2. ClaimInv' /\ CredentialInv' /\ SeedInv'
  BY <1>a, <1>b, <1>c, <1>1, HoldingLeft, CredentialsLost, SeedsRest DEF Row, histVars
<1>3. PollInv' /\ RevisionInv'
  BY <1>a, <1>b, <1>c, <1>d, PollsRest DEF IInv, RevisionInv, histVars
<1>4. Shapes'
  BY <1>a, <1>b, <1>d, <1>e, <1>1 DEF Shapes, Settled, LeasesGone, Row, histVars
<1>5. ProfileInv'
  BY <1>1 DEF ProfileInv, Row
<1> QED
  BY <1>c, <1>e, <1>2, <1>3, <1>4, <1>5 DEF IInv

(* A process ends with its threads, or starts and settles what grew old. *)
LEMMA ProcessSteps ==
  ASSUME IInv, NEW i \in Instances, Crash(i) \/ Start(i)
  PROVE  IInv'
<1>a. Shapes /\ LocalsInv /\ LeaseInv /\ profile \in Profiles /\ renewal \in [Renewals -> Sessions]
  BY DEF IInv, Shapes
<1>b. Aside
  BY <1>a DEF Crash, Start, Aside, Shapes, histVars
<1>j. 1 \in Tokens /\ "healthy" \in AuthOutcomes
  BY ProfileAssumption DEF Tokens, AuthOutcomes
<1>1. CASE Crash(i)
  <2>1. \A t \in Threads : thread'[t] = thread[t] \/ thread'[t] = Idle
    BY <1>1 DEF Crash
  <2>2. thread' \in [Threads -> Locals]
    BY <1>1, <1>a, IdleTyped DEF Crash, Shapes
  <2>3. LocalsInv' /\ Left(Holding) /\ Left(Polling)
    BY <1>a, <2>1, <2>2, IdleTyped DEF LocalsInv, Left, Holding, Carry, Polling
  <2>4. renewal' = renewal /\ profile' = profile /\ lease' = lease
    BY <1>1 DEF Crash, storeVars
  <2>5. Settled /\ LeasesKept
    BY <1>a, <2>4, Settling, LeasesMove DEF Terminal
  <2>6. Row(profile', profile.status, profile.auth, profile.cred, profile.revision, profile.claim)
    BY <1>a, <2>4 DEF Row
  <2> QED
    BY <1>b, <2>3, <2>5, <2>6, Calm
<1>2. CASE Start(i)
  <2>1. LocalsInv' /\ Left(Holding) /\ Left(Polling)
    BY <1>2, <1>a, LocalsStay, Leaving DEF Start
  <2>2. Settled
    <3>1. Ended("unknown") \in Sessions /\ Ended("unknown").status \in Terminal
      <4>1. NoRenewal \in Sessions
        BY DEF NoRenewal, Sessions, Statuses
      <4> QED
        BY <4>1 DEF Ended, Sessions, Statuses, Terminal
    <3>2. \A r \in Renewals : renewal'[r] = renewal[r] \/ renewal'[r] = Ended("unknown")
      BY <1>2 DEF Start
    <3>3. renewal' \in [Renewals -> Sessions]
      BY <1>2, <1>a, <3>1 DEF Start
    <3>4. \A r \in Renewals :
            Session(renewal[r], renewal[r].status, renewal[r].revision, renewal[r].claim)
      BY <1>a DEF Session
    <3> QED
      BY <3>1, <3>2, <3>3, <3>4 DEF Settled
  <2>3. DropLeases \/ lease' = lease
    BY <1>2 DEF Start
  <2>4. CASE profile' = profile
    <3>1. Row(profile', profile.status, profile.auth, profile.cred, profile.revision, profile.claim)
      BY <1>a, <2>4 DEF Row
    <3>2. LeasesKept
      BY <1>a, <2>3, LeasesMove
    <3> QED
      BY <1>b, <2>1, <2>2, <3>1, <3>2, Calm
  <2>5. CASE profile' = Reauthorize(profile)
    <3>1. Row(profile', profile.status, "reauthorization_required", None, profile.revision + 1, None)
      BY <1>a, <1>j, <2>5, RowMoves
    <3>2. LeasesGone
      BY <1>2, <1>a, <3>1, LeasesMove DEF Start, Row
    <3> QED
      BY <1>b, <2>1, <2>2, <3>1, <3>2, Losing
  <2> QED
    BY <1>2, <2>4, <2>5 DEF Start
<1> QED
  BY <1>1, <1>2

-----------------------------------------------------------------------------
(* Device renewals. *)

(* A new intent carries the profile's revision and credential. *)
LEMMA BeginSteps ==
  ASSUME IInv, NEW t \in Threads, NEW i \in Instances, NEW x \in Renewals,
         ReadForRenewal(t, i, x) \/ BeginRenewal(t)
  PROVE  IInv'
<1>a. Shapes /\ LocalsInv /\ LeaseInv /\ ProfileInv /\ profile \in Profiles /\ renewal \in [Renewals -> Sessions]
  BY DEF IInv, Shapes
<1>b. /\ profile' = profile /\ lease' = lease /\ inst' = inst
      /\ issued' = issued /\ used' = used /\ spent' = spent /\ base' = base /\ seed' = seed
  BY DEF ReadForRenewal, BeginRenewal, storeVars, histVars
<1>c. LeasesKept /\ Row(profile', profile.status, profile.auth, profile.cred, profile.revision, profile.claim)
  BY <1>a, <1>b, LeasesMove DEF Row
<1>k. /\ {"begin", "start", "idle"} \subseteq ThreadPCs /\ None \in Tokens \cup {None} /\ None \in Outcomes
      /\ {"waiting_user", "unknown", "failed"} \subseteq Outcomes
  BY DEF Outcomes, ThreadPCs, Terminal
<1>1. ASSUME seen' = seen, Settled, Return(t) PROVE IInv'
  <2>1. Moved(t, "idle", None, None, None)
    BY <1>1, <1>a, <1>k, ThreadMoves
  <2>2. LocalsInv' /\ Left(Holding) /\ Left(Polling)
    BY <2>1, <1>a, LocalsMoved, Leaving DEF Holding, Carry, Polling
  <2> QED
    BY <1>1, <1>a, <1>b, <1>c, <2>2, Calm DEF Aside, Shapes
<1>2. CASE ReadForRenewal(t, i, x)
  <2>1. Moved(t, "begin", x, None, None)
    <3>1. profile.revision \in Nat
      BY <1>a DEF Profiles
    <3> QED
      BY <1>2, <1>a, <1>k, <3>1, BeginMoves DEF ReadForRenewal
  <2>2. LocalsInv' /\ Left(Holding) /\ Left(Polling)
    BY <2>1, <1>a, LocalsMoved, Leaving DEF Holding, Carry, Polling
  <2>3. Settled /\ seen' = seen
    <3>1. renewal' = renewal /\ seen' = seen
      BY <1>2 DEF ReadForRenewal, storeVars, histVars
    <3> QED
      BY <1>a, <3>1, Settling DEF Terminal
  <2> QED
    BY <1>a, <1>b, <1>c, <2>2, <2>3, Calm DEF Aside, Shapes
<1>3. ASSUME BeginRenewal(t), NEW r \in Renewals, r = thread[t].item, renewal[r].status = "none",
             renewal' = [renewal EXCEPT ![r].status = "starting", ![r].revision = profile.revision],
             seen' = [seen EXCEPT ![r] = profile.cred],
             NEW o \in {"waiting_user", "unknown", "failed"},
             thread' = [thread EXCEPT ![t].pc = "start", ![t].outcome = o, ![t].revision = 0]
      PROVE  IInv'
  <2>1. Moved(t, "start", r, thread[t].tok, o)
    BY <1>3, <1>a, <1>k, ThreadMoves
  <2>2. LocalsInv' /\ Left(Holding) /\ Left(Polling)
    BY <2>1, <1>3, <1>a, LocalsMoved, Leaving DEF Holding, Carry, Polling
  <2>3. Became(r, "starting", profile.revision, renewal[r].claim)
    <3>1. profile.revision \in Nat /\ "starting" \in Statuses
      BY <1>a DEF Profiles, Statuses
    <3> QED
      BY <1>3, <1>a, <3>1, RenewalMoves
  <2>4. /\ seen' \in [Renewals -> Tokens \cup {None}] /\ seen'[r] = profile.cred
        /\ \A q \in Renewals \ {r} : seen'[q] = seen[q]
    BY <1>3, <1>a DEF Shapes, Profiles
  <2>5. Shapes'
    BY <1>a, <1>b, <2>1, <2>3, <2>4 DEF Shapes, Moved, Became
  <2>6. ProfileInv' /\ LeaseInv'
    BY <1>a, <1>b DEF ProfileInv, LeaseInv
  <2>7. ClaimInv' /\ CredentialInv' /\ SeedInv'
    BY <1>a, <1>b, <2>2, HoldingLeft, CredentialsRest, SeedsRest DEF IInv
  <2>8. PollInv'
    <3>1. r \notin used /\ \A u \in Threads : thread[u].pc \in Polling => thread[u].item # r
      BY <1>3 DEF IInv, PollInv
    <3>2. \A q \in used' : q \in Renewals /\ renewal'[q] = renewal[q]
      BY <1>a, <1>b, <2>3, <3>1 DEF Became, Shapes
    <3>3. ASSUME NEW u \in Threads, thread'[u].pc \in Polling
          PROVE  /\ thread'[u] = thread[u] /\ thread[u].pc \in Polling
                 /\ thread[u].item \in Renewals
                 /\ renewal'[thread[u].item] = renewal[thread[u].item]
                 /\ seen'[thread[u].item] = seen[thread[u].item]
      <4>1. thread'[u] = thread[u] /\ thread[u].pc \in Polling
        BY <3>3, <2>2 DEF Left
      <4>2. thread[u].item \in Renewals \ {r}
        BY <4>1, <3>1, <1>a DEF LocalsInv, Polling
      <4> QED
        BY <4>1, <4>2, <2>3, <2>4 DEF Became
    <3> QED
      BY <1>b, <3>2, <3>3 DEF IInv, PollInv
  <2>9. RevisionInv'
    <3>1. profile.revision \in Nat
      BY <1>a DEF Profiles
    <3>2. ASSUME NEW q \in Renewals, q # r
          PROVE  renewal'[q] = renewal[q] /\ seen'[q] = seen[q]
      BY <3>2, <2>3, <2>4 DEF Became
    <3> QED
      BY <1>b, <2>3, <2>4, <3>1, <3>2 DEF IInv, RevisionInv, Became, Session
  <2> QED
    BY <2>2, <2>5, <2>6, <2>7, <2>8, <2>9 DEF IInv
<1>4. CASE BeginRenewal(t)
  <2>1. thread[t].item \in Renewals
    BY <1>4, <1>a DEF BeginRenewal, At, LocalsInv
  <2>2. ASSUME renewal' = renewal \/ renewal' = Closed(thread[t].item, "unknown"), Return(t), seen' = seen
        PROVE  IInv'
    <3>1. Settled
      BY <2>1, <2>2, <1>a, Settling DEF Terminal
    <3> QED
      BY <1>1, <2>2, <3>1
  <2> QED
    BY <1>4, <1>3, <2>1, <2>2 DEF BeginRenewal
<1> QED
  BY <1>2, <1>4

(* The device code arrives, or the session ends: no code of it was polled. *)
LEMMA FinishStartStep ==
  ASSUME IInv, NEW t \in Threads, FinishStart(t)
  PROVE  IInv'
<1>a. Shapes /\ LocalsInv /\ LeaseInv /\ ProfileInv /\ profile \in Profiles /\ renewal \in [Renewals -> Sessions]
  BY DEF IInv, Shapes
<1>b. profile' = profile /\ lease' = lease /\ inst' = inst /\ UNCHANGED histVars /\ Return(t)
  BY DEF FinishStart
<1>c. Aside /\ LeasesKept /\ Row(profile', profile.status, profile.auth, profile.cred, profile.revision, profile.claim)
  BY <1>a, <1>b, LeasesMove DEF Row, Aside, Shapes, histVars
<1>d. Moved(t, "idle", None, None, None)
  <2>1. None \in Tokens \cup {None} /\ None \in Outcomes /\ "idle" \in ThreadPCs
    BY DEF Outcomes, ThreadPCs
  <2> QED
    BY <2>1, <1>a, <1>b, ThreadMoves
<1>e. LocalsInv' /\ Left(Holding) /\ Left(Polling)
  BY <1>d, <1>a, LocalsMoved, Leaving DEF Holding, Carry, Polling
<1>1. CASE Settled
  BY <1>1, <1>c, <1>e, Calm
<1>2. ASSUME NEW r \in Renewals, renewal[r].status = "starting",
             renewal' = [renewal EXCEPT ![r].status = "waiting_user"]
      PROVE  IInv'
  <2>1. Became(r, "waiting_user", renewal[r].revision, renewal[r].claim)
    <3>1. "starting" \in Statuses /\ 0 \in Nat
      BY DEF Statuses
    <3>2. 1 \in Instances
      BY ProfileAssumption DEF Instances
    <3> QED
      BY <1>2, <1>a, <3>1, <3>2, RenewalMoves
  <2>2. Shapes'
    BY <1>a, <1>b, <1>d, <2>1 DEF Shapes, Moved, Became, histVars
  <2>3. ProfileInv' /\ LeaseInv'
    BY <1>a, <1>b DEF ProfileInv, LeaseInv, histVars
  <2>4. ClaimInv' /\ CredentialInv' /\ SeedInv'
    BY <1>a, <1>b, <1>e, HoldingLeft, CredentialsRest, SeedsRest DEF IInv, histVars
  <2>5. PollInv'
    <3>1. r \notin used /\ \A u \in Threads : thread[u].pc \in Polling => thread[u].item # r
      BY <1>2 DEF IInv, PollInv
    <3>2. \A q \in used' : q \in Renewals /\ renewal'[q] = renewal[q]
      BY <1>a, <1>b, <2>1, <3>1 DEF Became, Shapes, histVars
    <3>3. ASSUME NEW u \in Threads, thread'[u].pc \in Polling
          PROVE  /\ thread'[u] = thread[u] /\ thread[u].pc \in Polling
                 /\ thread[u].item \in Renewals
                 /\ renewal'[thread[u].item] = renewal[thread[u].item]
      <4>1. thread'[u] = thread[u] /\ thread[u].pc \in Polling
        BY <3>3, <1>e DEF Left
      <4>2. thread[u].item \in Renewals \ {r}
        BY <4>1, <3>1, <1>a DEF LocalsInv, Polling
      <4> QED
        BY <4>1, <4>2, <2>1 DEF Became
    <3>4. used' = used /\ base' = base /\ seen' = seen
      BY <1>b DEF histVars
    <3> QED
      BY <3>4, <3>2, <3>3 DEF IInv, PollInv
  <2>6. RevisionInv'
    <3>1. \A q \in Renewals \ {r} : renewal'[q] = renewal[q]
      BY <2>1 DEF Became
    <3>2. renewal'[r].revision = renewal[r].revision
      BY <2>1 DEF Became, Session
    <3>3. seen' = seen
      BY <1>b DEF histVars
    <3> QED
      BY <1>2, <1>b, <3>1, <3>2, <3>3 DEF IInv, RevisionInv
  <2> QED
    BY <1>e, <2>2, <2>3, <2>4, <2>5, <2>6 DEF IInv
<1>3. thread[t].item \in Renewals /\ thread[t].outcome \in {"waiting_user", "unknown", "failed"}
  BY <1>a DEF FinishStart, At, LocalsInv
<1>4. CASE renewal' = renewal
  BY <1>4, <1>a, <1>1, Settling DEF Terminal
<1>5. ASSUME thread[t].outcome # "waiting_user", renewal' = Closed(thread[t].item, thread[t].outcome)
      PROVE  IInv'
  <2>1. thread[t].outcome \in Terminal
    BY <1>3, <1>5 DEF Terminal
  <2> QED
    BY <1>3, <1>5, <2>1, <1>a, <1>1, Settling
<1> QED
  BY <1>2, <1>3, <1>4, <1>5 DEF FinishStart

(* A poll is claimed when nobody has the claim: then nobody polls the session *)
(* and its code is not redeemed.                                              *)
LEMMA ClaimPollStep ==
  ASSUME IInv, NEW t \in Threads, NEW i \in Instances, NEW r \in Renewals, ClaimPoll(t, i, r)
  PROVE  IInv'
<1>a. Shapes /\ LocalsInv /\ LeaseInv /\ ProfileInv /\ profile \in Profiles /\ renewal \in [Renewals -> Sessions]
  BY DEF IInv, Shapes
<1>b. profile' = profile /\ lease' = lease /\ inst' = inst /\ UNCHANGED histVars
  BY DEF ClaimPoll
<1>c. Aside /\ LeasesKept /\ Row(profile', profile.status, profile.auth, profile.cred, profile.revision, profile.claim)
  BY <1>a, <1>b, LeasesMove DEF Row, Aside, Shapes, histVars
<1>1. ASSUME NEW st \in Terminal, renewal' = Closed(r, st), thread' = thread
      PROVE  IInv'
  <2>1. Settled
    BY <1>1, <1>a, Settling
  <2>2. LocalsInv' /\ Left(Holding) /\ Left(Polling)
    BY <1>1, <1>a, LocalsStay, Leaving
  <2> QED
    BY <1>c, <2>1, <2>2, Calm
<1>2. ASSUME renewal[r].status = "waiting_user", renewal[r].claim = None,
             renewal' = [renewal EXCEPT ![r].claim = t, ![r].owner = i],
             Begin(t, i, "check", r)
      PROVE  IInv'
  <2>0. Moved(t, "check", r, None, None) /\ thread[t].pc = "idle"
    <3>1. "check" \in ThreadPCs /\ 0 \in Nat
      BY DEF ThreadPCs
    <3> QED
      BY <1>2, <3>1, <1>a, BeginMoves DEF Begin
  <2>1. Became(r, "waiting_user", renewal[r].revision, t)
    <3>1. "starting" \in Statuses /\ 0 \in Nat
      BY DEF Statuses
    <3> QED
      BY <1>2, <1>a, <3>1, RenewalMoves
  <2>2. Shapes'
    BY <1>a, <1>b, <2>0, <2>1 DEF Shapes, Moved, Became, histVars
  <2>3. ProfileInv' /\ LeaseInv'
    BY <1>a, <1>b DEF ProfileInv, LeaseInv, histVars
  <2>e. LocalsInv' /\ Left(Holding)
    BY <2>0, <1>a, LocalsMoved, Leaving DEF Holding, Carry
  <2>4. ClaimInv' /\ CredentialInv' /\ SeedInv'
    BY <1>a, <1>b, <2>e, HoldingLeft, CredentialsRest, SeedsRest DEF IInv, histVars
  <2>5. PollInv'
    <3>0. t # None
      BY ProfileAssumption
    <3>1. r \notin used /\ \A u \in Threads : thread[u].pc \in Polling => thread[u].item # r
      BY <1>2, ProfileAssumption DEF IInv, PollInv
    <3>2. \A q \in used' : q \in Renewals /\ renewal'[q] = renewal[q]
      BY <1>a, <1>b, <2>1, <3>1 DEF Became, Shapes, histVars
    <3>3. ASSUME NEW u \in Threads, u # t, thread'[u].pc \in Polling
          PROVE  /\ thread'[u] = thread[u] /\ thread[u].pc \in Polling
                 /\ thread[u].item \in Renewals /\ thread[u].item # r
                 /\ renewal'[thread[u].item] = renewal[thread[u].item]
      <4>1. thread'[u] = thread[u] /\ thread[u].pc \in Polling
        BY <3>3, <2>0 DEF Moved
      <4>2. thread[u].item \in Renewals \ {r}
        BY <4>1, <3>1, <1>a DEF LocalsInv, Polling
      <4> QED
        BY <4>1, <4>2, <2>1 DEF Became
    <3>4. used' = used /\ base' = base /\ seen' = seen
      BY <1>b DEF histVars
    <3>5. thread'[t].pc = "check" /\ thread'[t].item = r /\ renewal'[r].claim = t /\ renewal'[r].status = "waiting_user"
      BY <2>0, <2>1 DEF Moved, Became, Session
    <3>6. ASSUME NEW u \in Threads, u # t, thread'[u].pc \in Polling, NEW q \in Renewals, q = thread'[u].item
          PROVE  /\ renewal'[q].status \notin {"none", "starting"}
                 /\ renewal'[q].status = "waiting_user" => renewal'[q].claim = u
                 /\ renewal'[q].status = "waiting_user" /\ thread'[u].pc \in {"check", "poll", "defer"} => q \notin used'
                 /\ thread'[u].pc = "install" => base'[thread'[u].tok] = seen'[q]
                 /\ \A v \in Threads \ {u} : thread'[v].pc \in Polling => thread'[v].item # q
      <4>1. \A v \in Threads \ {u, t} : thread'[v].pc \in Polling => thread[v].pc \in Polling /\ thread'[v] = thread[v]
        BY <3>3
      <4>2. thread'[u] = thread[u] /\ thread[u].pc \in Polling /\ q # r /\ renewal'[q] = renewal[q]
        BY <3>3, <3>6
      <4> QED
        BY <4>1, <4>2, <3>4, <3>5, <3>6 DEF IInv, PollInv
    <3>7. \A u \in Threads \ {t} : thread'[u].pc \in Polling => thread'[u].item \in Renewals /\ thread'[u].item # r
      BY <3>3
    <3>8. \A q \in used' : /\ renewal'[q].status \notin {"none", "starting"}
                           /\ renewal'[q].status = "waiting_user" => renewal'[q].claim # None
      BY <3>2, <3>4 DEF IInv, PollInv
    <3> QED
      BY <3>1, <3>4, <3>5, <3>6, <3>7, <3>8 DEF PollInv
  <2>6. RevisionInv'
    <3>1. \A q \in Renewals \ {r} : renewal'[q] = renewal[q]
      BY <2>1 DEF Became
    <3>2. renewal'[r].revision = renewal[r].revision
      BY <2>1 DEF Became, Session
    <3>3. seen' = seen
      BY <1>b DEF histVars
    <3> QED
      BY <1>2, <1>b, <3>1, <3>2, <3>3 DEF IInv, RevisionInv
  <2> QED
    BY <2>e, <2>2, <2>3, <2>4, <2>5, <2>6 DEF IInv
<1> QED
  <2>1. {"unknown", "expired"} \subseteq Terminal
    BY DEF Terminal
  <2> QED
    BY <1>1, <1>2, <2>1 DEF ClaimPoll

(* A poller goes on with its session and has no credential yet. *)
LEMMA PollMoves ==
  ASSUME IInv, NEW t \in Threads, NEW pc \in {"poll", "defer", "fail_poll"}, NEW o,
         Moved(t, pc, thread[t].item, thread[t].tok, o), thread[t].pc \in {"check", "poll"},
         pc = "fail_poll" => o \in Terminal, UNCHANGED <<storeVars, inst, histVars>>
  PROVE  IInv'
<1>a. Shapes /\ LocalsInv /\ LeaseInv /\ ProfileInv /\ PollInv /\ thread[t].item \in Renewals
  BY DEF IInv, LocalsInv
<1>b. /\ profile' = profile /\ lease' = lease /\ renewal' = renewal /\ inst' = inst
      /\ issued' = issued /\ used' = used /\ spent' = spent /\ base' = base /\ seen' = seen /\ seed' = seed
  BY DEF storeVars, histVars
<1>1. LocalsInv' /\ Left(Holding)
  BY <1>a, LocalsMoved, Leaving DEF Holding, Carry
<1>2. Shapes'
  BY <1>a, <1>b DEF Shapes, Moved
<1>3. ProfileInv' /\ LeaseInv' /\ RevisionInv'
  BY <1>b DEF IInv, ProfileInv, LeaseInv, RevisionInv
<1>4. ClaimInv' /\ CredentialInv' /\ SeedInv'
  BY <1>a, <1>b, <1>1, HoldingLeft, CredentialsRest, SeedsRest DEF IInv
<1>5. PollInv'
  <2>1. \A u \in Threads : thread'[u].item = thread[u].item /\ (thread'[u].pc \in Polling => thread[u].pc \in Polling)
    BY DEF Moved, Polling
  <2>2. \A u \in Threads : /\ thread'[u].pc \in {"check", "poll", "defer"} => thread[u].pc \in {"check", "poll", "defer"}
                           /\ thread'[u].pc = "install" => thread[u].pc = "install" /\ thread'[u].tok = thread[u].tok
    BY DEF Moved
  <2> QED
    BY <1>a, <1>b, <2>1, <2>2 DEF PollInv
<1> QED
  BY <1>1, <1>2, <1>3, <1>4, <1>5 DEF IInv

(* The poll of a code and its answer. *)
LEMMA PollSteps ==
  ASSUME IInv, NEW t \in Threads, CheckProfile(t) \/ PollProvider(t)
  PROVE  IInv'
<1>a. /\ Shapes /\ LocalsInv /\ LeaseInv /\ ProfileInv /\ PollInv
      /\ ClaimInv /\ CredentialInv /\ SeedInv
      /\ profile \in Profiles /\ thread[t].item \in Renewals
  BY DEF IInv, Shapes, LocalsInv, CheckProfile, PollProvider, At
<1>k. /\ {"poll", "defer", "fail_poll", "install", "idle"} \subseteq ThreadPCs
      /\ None \in Tokens \cup {None} /\ None \in Outcomes
      /\ {"failed", "unknown", "expired", "cancelled"} \subseteq Outcomes
      /\ {"failed", "unknown", "expired", "cancelled"} \subseteq Terminal
  BY DEF Outcomes, ThreadPCs, Terminal
<1>1. ASSUME NEW pc \in {"poll", "defer"}, Goto(t, pc), UNCHANGED <<storeVars, inst, histVars>>
      PROVE  IInv'
  <2>1. Moved(t, pc, thread[t].item, thread[t].tok, thread[t].outcome)
    BY <1>1, <1>a, <1>k, ThreadMoves
  <2> QED
    BY <1>1, <2>1, PollMoves DEF CheckProfile, PollProvider, At
<1>2. ASSUME NEW o \in {"failed", "unknown", "expired", "cancelled"},
             thread' = [thread EXCEPT ![t].pc = "fail_poll", ![t].outcome = o],
             UNCHANGED <<storeVars, inst, histVars>>
      PROVE  IInv'
  <2>1. Moved(t, "fail_poll", thread[t].item, thread[t].tok, o)
    BY <1>2, <1>a, <1>k, ThreadMoves
  <2> QED
    BY <1>2, <1>k, <2>1, PollMoves DEF CheckProfile, PollProvider, At
<1>3. ASSUME Return(t), UNCHANGED <<storeVars, inst, histVars>>
      PROVE  IInv'
  <2>1. Moved(t, "idle", None, None, None)
    BY <1>3, <1>a, <1>k, ThreadMoves
  <2>2. LocalsInv' /\ Left(Holding) /\ Left(Polling)
    BY <2>1, <1>a, LocalsMoved, Leaving DEF Holding, Carry, Polling
  <2>3. Settled
    BY <1>3, <1>a, Settling DEF storeVars, Terminal
  <2>4. Aside /\ LeasesKept /\ Row(profile', profile.status, profile.auth, profile.cred, profile.revision, profile.claim)
    BY <1>3, <1>a, LeasesMove DEF storeVars, Row, Aside, Shapes, histVars
  <2> QED
    BY <2>2, <2>3, <2>4, Calm
<1>4. CASE CheckProfile(t)
  BY <1>4, <1>1, <1>2, <1>3 DEF CheckProfile
<1>5. ASSUME NEW pc \in {"install", "fail_poll"}, NEW tok, NEW o, NEW r \in Renewals, r = thread[t].item,
             Moved(t, pc, r, tok, o), pc = "install" => tok = issued + 1, pc = "fail_poll" => o \in Terminal,
             thread[t].pc = "poll", r \notin used, used' = used \cup {r}, Issue(seen[r]),
             UNCHANGED <<storeVars, inst, seed, spent, seen>>
      PROVE  IInv'
  <2>1. /\ issued \in Nat /\ issued + 1 \in Tokens /\ issued' = issued + 1 /\ issued + 1 \notin 1..issued
        /\ base' \in [Tokens -> Tokens \cup {None}] /\ base'[issued + 1] = seen[r]
        /\ \A x \in 1..issued : x \in 1..issued' /\ base'[x] = base[x]
    <3>1. seen[r] \in Tokens \cup {None}
      BY <1>a, <1>5 DEF Shapes
    <3> QED
      BY <3>1, <1>5, <1>a, Issuing
  <2>2. profile' = profile /\ lease' = lease /\ renewal' = renewal /\ inst' = inst /\ spent' = spent /\ seen' = seen /\ seed' = seed
    BY <1>5 DEF storeVars
  <2>3. LocalsInv'
    BY <1>5, <1>a, LocalsMoved
  <2>4. Shapes'
    <3>1. issued' \in Tokens /\ spent' \subseteq 1..issued' /\ used' \subseteq Renewals
      BY <1>5, <1>a, <2>1, <2>2 DEF Shapes
    <3> QED
      BY <1>5, <1>a, <2>1, <2>2, <3>1 DEF Shapes, Moved
  <2>5. ProfileInv' /\ LeaseInv' /\ RevisionInv'
    <3>1. ProfileInv'
      BY <1>a, <2>1, <2>2 DEF ProfileInv
    <3> QED
      BY <3>1, <2>2 DEF IInv, LeaseInv, RevisionInv
  <2>6. ClaimInv' /\ CredentialInv' /\ SeedInv'
    <3>1. CASE pc = "fail_poll"
      <4>1. Left(Holding)
        BY <1>5, <1>a, <3>1, Leaving DEF Holding, Carry
      <4> QED
        BY <4>1, <1>a, <2>1, <2>2, HoldingLeft, CredentialsRest, SeedsRest
    <3>2. CASE pc = "install"
      <4>1. /\ issued + 1 \in 1..issued' /\ issued + 1 \notin spent' /\ profile.cred # issued + 1
            /\ seed[issued + 1] = "none"
            /\ \A u \in Threads : thread[u].pc \in Carry => thread[u].tok # issued + 1
        BY <1>a, <2>1, <2>2, NewCredential
      <4>2. Left({"replace"})
        BY <1>5, <1>a, <3>2, Leaving
      <4>3. ClaimInv' /\ CredentialInv'
        BY <1>5, <1>a, <2>1, <2>2, <3>2, <4>1, CredentialsCarried DEF Carry
      <4> QED
        BY <4>2, <4>3, <1>a, <2>1, <2>2, SeedsRest
    <3> QED
      BY <1>5, <3>1, <3>2
  <2>7. PollInv'
    <3>0. /\ thread'[t].pc = pc /\ thread'[t].tok = tok /\ thread'[t].item = r
          /\ \A u \in Threads \ {t} : thread'[u] = thread[u]
      BY <1>5 DEF Moved
    <3>1. /\ renewal[r].status \notin {"none", "starting"}
          /\ renewal[r].status = "waiting_user" => renewal[r].claim = t /\ t # None
          /\ \A u \in Threads \ {t} : thread[u].pc \in Polling => thread[u].item # r
      BY <1>5, <1>a, ProfileAssumption DEF PollInv, Polling
    <3>2. \A q \in used' : /\ renewal'[q].status \notin {"none", "starting"}
                           /\ renewal'[q].status = "waiting_user" => renewal'[q].claim # None
      BY <1>5, <1>a, <2>2, <3>1 DEF PollInv
    <3>3. ASSUME NEW u \in Threads, u # t, thread'[u].pc \in Polling, NEW q \in Renewals, q = thread'[u].item
          PROVE  /\ renewal'[q].status \notin {"none", "starting"}
                 /\ renewal'[q].status = "waiting_user" => renewal'[q].claim = u
                 /\ renewal'[q].status = "waiting_user" /\ thread'[u].pc \in {"check", "poll", "defer"} => q \notin used'
                 /\ thread'[u].pc = "install" => base'[thread'[u].tok] = seen'[q]
                 /\ \A v \in Threads \ {u} : thread'[v].pc \in Polling => thread'[v].item # q
      <4>1. thread'[u] = thread[u] /\ thread[u].pc \in Polling /\ q # r /\ q = thread[u].item
        BY <3>0, <3>1, <3>3
      <4>2. thread[u].pc = "install" => base'[thread[u].tok] = base[thread[u].tok]
        BY <1>a, <2>1 DEF ClaimInv, Carry
      <4>3. /\ renewal[q].status \notin {"none", "starting"}
            /\ renewal[q].status = "waiting_user" => renewal[q].claim = u
            /\ renewal[q].status = "waiting_user" /\ thread[u].pc \in {"check", "poll", "defer"} => q \notin used
            /\ thread[u].pc = "install" => base[thread[u].tok] = seen[q]
            /\ \A v \in Threads \ {u} : thread[v].pc \in Polling => thread[v].item # q
        BY <4>1, <1>a DEF PollInv
      <4>4. \A v \in Threads \ {u} : thread'[v].pc \in Polling => thread'[v].item # q
        BY <4>1, <4>3, <3>0
      <4> QED
        BY <1>5, <2>2, <4>1, <4>2, <4>3, <4>4
    <3>4. \A u \in Threads \ {t} : thread'[u].pc \in Polling => thread'[u].item \in Renewals /\ thread'[u].item # r
      BY <3>0, <3>1, <1>a DEF LocalsInv, Polling
    <3>5. pc = "install" => base'[tok] = seen'[r]
      BY <1>5, <2>1, <2>2
    <3>6. pc \notin {"check", "poll", "defer"}
      BY <1>5
    <3> QED
      BY <2>2, <3>0, <3>1, <3>2, <3>3, <3>4, <3>5, <3>6 DEF PollInv
  <2> QED
    BY <2>3, <2>4, <2>5, <2>6, <2>7 DEF IInv
<1>6. CASE PollProvider(t)
  <2> DEFINE r == thread[t].item
  <2>1. thread[t].pc = "poll" /\ UNCHANGED <<storeVars, inst, seed, spent, seen>>
    BY <1>6 DEF PollProvider, At
  <2>2. ASSUME UNCHANGED <<issued, base, used>> PROVE UNCHANGED <<storeVars, inst, histVars>>
    BY <2>1, <2>2 DEF histVars
  <2>3. ASSUME r \notin used, used' = used \cup {r}, Issue(seen[r]),
               thread' = [thread EXCEPT ![t].pc = "install", ![t].tok = issued + 1]
        PROVE  IInv'
    <3>1. issued + 1 \in Tokens
      BY <2>3, <1>a, ProfileAssumption DEF Issue, Shapes, Tokens
    <3>2. Moved(t, "install", r, issued + 1, thread[t].outcome)
      BY <2>3, <3>1, <1>a, <1>k, ThreadMoves
    <3> QED
      BY <1>5, <1>a, <2>1, <2>3, <3>2
  <2>4. ASSUME r \notin used, used' = used \cup {r}, Issue(seen[r]), NEW o \in {"failed", "unknown"},
               thread' = [thread EXCEPT ![t].pc = "fail_poll", ![t].outcome = o]
        PROVE  IInv'
    <3>1. Moved(t, "fail_poll", r, thread[t].tok, o)
      BY <2>4, <1>a, <1>k, ThreadMoves
    <3> QED
      BY <1>5, <1>a, <1>k, <2>1, <2>4, <3>1
  <2> QED
    BY <1>6, <1>1, <1>2, <2>2, <2>3, <2>4 DEF PollProvider
<1> QED
  BY <1>4, <1>6

(* The end of a poll: put off, recorded, or installed for the revision the    *)
(* renewal began with.                                                        *)
LEMMA EndPollSteps ==
  ASSUME IInv, NEW t \in Threads, DeferPoll(t) \/ FailPoll(t) \/ InstallRenewal(t)
  PROVE  IInv'
<1> DEFINE r == thread[t].item
           k == thread[t].tok
<1>a. /\ Shapes /\ LocalsInv /\ LeaseInv /\ ProfileInv /\ PollInv
      /\ ClaimInv /\ CredentialInv /\ SeedInv
      /\ profile \in Profiles /\ r \in Renewals /\ thread[t].pc \in {"defer", "fail_poll", "install"}
  BY DEF IInv, Shapes, LocalsInv, DeferPoll, FailPoll, InstallRenewal, At
<1>b. Return(t) /\ inst' = inst /\ UNCHANGED histVars
  BY DEF DeferPoll, FailPoll, InstallRenewal
<1>c. Aside
  BY <1>a, <1>b DEF Aside, Shapes, histVars
<1>d. Moved(t, "idle", None, None, None)
  <2>1. None \in Tokens \cup {None} /\ None \in Outcomes /\ "idle" \in ThreadPCs
    BY DEF Outcomes, ThreadPCs
  <2> QED
    BY <2>1, <1>a, <1>b, ThreadMoves
<1>e. LocalsInv' /\ Left(Holding) /\ Left(Polling) /\ SeedInv'
  <2>1. LocalsInv' /\ Left(Holding) /\ Left(Polling)
    BY <1>d, <1>a, LocalsMoved, Leaving DEF Holding, Carry, Polling
  <2> QED
    BY <2>1, <1>a, <1>c, HoldingLeft, SeedsRest DEF Aside
<1>1. ASSUME Settled, profile' = profile, lease' = lease PROVE IInv'
  <2>1. LeasesKept /\ Row(profile', profile.status, profile.auth, profile.cred, profile.revision, profile.claim)
    BY <1>1, <1>a, LeasesMove DEF Row
  <2> QED
    BY <1>1, <1>c, <1>e, <2>1, Calm
<1>2. CASE renewal' = renewal /\ profile' = profile /\ lease' = lease
  BY <1>2, <1>1, <1>a, Settling DEF Terminal
<1>3. ASSUME NEW st \in Terminal, renewal' = Closed(r, st), profile' = profile, lease' = lease
      PROVE  IInv'
  BY <1>3, <1>1, <1>a, Settling
<1>4. CASE DeferPoll(t)
  <2>1. profile' = profile /\ lease' = lease /\ thread[t].pc = "defer"
    BY <1>4 DEF DeferPoll, At
  <2>2. CASE HasPoll(t)
    <3>0. renewal[r].status = "waiting_user"
      BY <2>2 DEF HasPoll
    <3>1. Became(r, "waiting_user", renewal[r].revision, None)
      <4>1. "starting" \in Statuses /\ 0 \in Nat /\ 1 \in Instances
        BY ProfileAssumption DEF Statuses, Instances
      <4> QED
        BY <1>4, <2>2, <3>0, <1>a, <4>1, RenewalMoves DEF DeferPoll
    <3>2. Shapes'
      BY <1>a, <1>b, <1>d, <2>1, <3>1 DEF Shapes, Moved, Became, histVars
    <3>3. ProfileInv' /\ LeaseInv'
      BY <1>a, <1>b, <2>1 DEF ProfileInv, LeaseInv, histVars
    <3>4. ClaimInv' /\ CredentialInv'
      BY <1>a, <1>b, <1>e, <2>1, HoldingLeft, CredentialsRest DEF histVars
    <3>5. PollInv'
      <4>1. r \notin used /\ \A u \in Threads \ {t} : thread[u].pc \in Polling => thread[u].item # r
        BY <1>a, <2>1, <3>0 DEF PollInv, Polling
      <4>2. \A q \in used' : q \in Renewals /\ renewal'[q] = renewal[q]
        BY <1>a, <1>b, <3>1, <4>1 DEF Became, Shapes, histVars
      <4>3. ASSUME NEW u \in Threads, thread'[u].pc \in Polling
            PROVE  /\ thread'[u] = thread[u] /\ thread[u].pc \in Polling
                   /\ thread[u].item \in Renewals
                   /\ renewal'[thread[u].item] = renewal[thread[u].item]
        <5>1. u # t /\ thread'[u] = thread[u] /\ thread[u].pc \in Polling
          BY <4>3, <1>d DEF Moved, Polling
        <5>2. thread[u].item \in Renewals \ {r}
          BY <5>1, <4>1, <1>a DEF LocalsInv, Polling
        <5> QED
          BY <5>1, <5>2, <3>1 DEF Became
      <4>4. used' = used /\ base' = base /\ seen' = seen
        BY <1>b DEF histVars
      <4> QED
        BY <1>a, <4>4, <4>2, <4>3 DEF PollInv
    <3>6. RevisionInv'
      <4>1. \A q \in Renewals \ {r} : renewal'[q] = renewal[q]
        BY <3>1 DEF Became
      <4>2. renewal'[r].revision = renewal[r].revision
        BY <3>1 DEF Became, Session
      <4>3. seen' = seen
        BY <1>b DEF histVars
      <4> QED
        BY <2>1, <3>0, <4>1, <4>2, <4>3 DEF IInv, RevisionInv
    <3> QED
      BY <1>e, <3>2, <3>3, <3>4, <3>5, <3>6 DEF IInv
  <2> QED
    BY <1>4, <1>2, <2>1, <2>2 DEF DeferPoll
<1>5. CASE FailPoll(t)
  <2>1. profile' = profile /\ lease' = lease /\ thread[t].outcome \in Terminal
    BY <1>5, <1>a DEF FailPoll, At, LocalsInv
  <2> QED
    BY <1>5, <1>2, <1>3, <2>1 DEF FailPoll
<1>6. ASSUME InstallRenewal(t), profile.status = "active",
             profile' = WithCredential(profile, k), renewal' = Closed(r, "succeeded"), DropLeases
      PROVE  IInv'
  <2>0. thread[t].pc = "install" /\ thread[t].pc \in Carry
    BY <1>6 DEF InstallRenewal, At, Carry
  <2>1. k \in 1..issued
    BY <2>0, <1>a DEF ClaimInv
  <2>2. k \in Tokens /\ k # None
    BY <1>a, <2>1, ProfileAssumption DEF Shapes, Tokens
  <2>3. Row(profile', "active", "healthy", k, profile.revision + 1, None)
    <3>1. "healthy" \in AuthOutcomes
      BY DEF AuthOutcomes
    <3> QED
      BY <1>6, <1>a, <2>2, <3>1, RowMoves
  <2>4. Settled /\ LeasesGone
    BY <1>6, <1>a, Settling, LeasesMove DEF Terminal
  <2>5. ClaimInv' /\ CredentialInv'
    <3>1. seed[k] # "unused"
      BY <1>a, <2>0, <2>2 DEF CredentialInv, Untouched
    <3>2. ASSUME Once(k)
          PROVE  k \notin spent /\ \A u \in Threads : thread'[u].pc \in Carry => thread'[u].tok # k
      <4>1. Exclusive(k)
        BY <1>a, <2>2, <3>2 DEF CredentialInv
      <4>2. k \notin spent /\ \A u \in Threads \ {t} : thread[u].pc \in Carry => thread[u].tok # k
        BY <2>0, <4>1 DEF Exclusive
      <4> QED
        BY <4>2, <1>d DEF Moved, Carry
    <3> HIDE DEF k
    <3> QED
      BY <1>a, <1>c, <1>e, <2>2, <2>3, <3>1, <3>2, HoldingLeft, CredentialsRenewed DEF Row, Aside, Once
  <2>6. PollInv'
    BY <1>a, <1>c, <1>e, <2>4, PollsRest DEF Aside
  <2>7. RevisionInv'
    BY <1>a, <1>c, <2>3, <2>4, RevisionsRest DEF IInv, Row, Aside
  <2>8. Shapes'
    BY <1>a, <1>c, <1>d, <2>3, <2>4 DEF Shapes, Settled, LeasesGone, Row, Aside, Moved
  <2>9. ProfileInv' /\ LeaseInv'
    BY <1>c, <2>1, <2>2, <2>3, <2>4, ProfileAssumption DEF ProfileInv, LeaseInv, LeasesGone, Row, Aside
  <2> QED
    BY <1>e, <2>5, <2>6, <2>7, <2>8, <2>9 DEF IInv
<1>7. CASE InstallRenewal(t)
  <2>1. "failed" \in Terminal
    BY DEF Terminal
  <2> QED
    BY <1>7, <1>2, <1>3, <1>6, <2>1 DEF InstallRenewal, storeVars
<1> QED
  BY <1>4, <1>5, <1>7

-----------------------------------------------------------------------------
(* The invariant and its theorems. *)

(* A profile with its first credential. *)
LEMMA Initially == Init => IInv
<1> SUFFICES ASSUME Init PROVE IInv
  OBVIOUS
<1>0. 1 \in Tokens /\ 1 \in 1..1
  BY ProfileAssumption DEF Tokens
<1>1. /\ profile \in Profiles /\ profile.status = "active" /\ profile.auth = "healthy" /\ profile.cred = 1
      /\ profile.claim = None
  BY <1>0 DEF Init, Profiles
<1>2. \A t \in Threads : thread[t].pc = "idle"
  BY IdleTyped DEF Init
<1>3. NoRenewal \in Sessions /\ NoRenewal.status = "none"
  BY DEF NoRenewal, Sessions, Statuses
<1>4. Shapes
  BY <1>0, <1>1, <1>3, IdleTyped DEF Init, Shapes
<1>5. LocalsInv
  BY <1>2 DEF LocalsInv
<1>6. ProfileInv
  BY <1>0, <1>1, ProfileAssumption DEF ProfileInv, Init
<1>7. ClaimInv /\ CredentialInv /\ SeedInv
  <2>1. \A k \in Tokens : seed[k] = IF k = 1 THEN "used" ELSE "none"
    BY DEF Init
  <2>2. \A k \in Tokens : Exclusive(k)
    BY <1>2 DEF Exclusive, Carry, Init
  <2> QED
    BY <1>0, <1>2, <2>1, <2>2 DEF ClaimInv, CredentialInv, SeedInv, Carry, Init
<1>8. PollInv
  BY <1>2 DEF PollInv, Polling, Init
<1>9. RevisionInv /\ LeaseInv
  BY <1>3 DEF RevisionInv, LeaseInv, Init
<1> QED
  BY <1>4, <1>5, <1>6, <1>7, <1>8, <1>9 DEF IInv

(* Every step preserves the invariant. *)
LEMMA Steps == IInv /\ [Next]_vars => IInv'
<1> SUFFICES ASSUME IInv, [Next]_vars PROVE IInv'
  OBVIOUS
<1>1. CASE UNCHANGED vars
  BY <1>1 DEF vars, IInv, Shapes, LocalsInv, ProfileInv, ClaimInv, CredentialInv, Once, Untouched,
     Exclusive, SeedInv, PollInv, RevisionInv, LeaseInv
<1>2. ASSUME NEW t \in Threads, Request(t) PROVE IInv'
  BY <1>2, LeaseSteps, BeginSteps, ClaimPollStep, ReadForReplacementStep DEF Request
<1>3. ASSUME NEW t \in Threads, Handle(t) PROVE IInv'
  <2>1. CASE BeginRenewal(t)
    <3>1. PICK x \in Renewals : TRUE
      BY <2>1 DEF BeginRenewal, At, IInv, LocalsInv
    <3>2. PICK i \in Instances : TRUE
      BY ProfileAssumption DEF Instances
    <3> QED
      BY <2>1, <3>1, <3>2, BeginSteps
  <2> QED
    BY <1>3, <2>1, ClaimRefreshStep, RefreshAtProviderStep, EndRefreshSteps, FinishStartStep,
       PollSteps, EndPollSteps, ReplaceCredentialStep DEF Handle
<1>4. ASSUME NEW i \in Instances,
             Start(i) \/ Crash(i) \/ UnlinkProfile(i) PROVE IInv'
  BY <1>4, ProcessSteps, UnlinkStep
<1>5. ASSUME NEW i \in Instances, NEW l \in Leases, CreateLease(i, l) PROVE IInv'
  BY <1>5, LeaseSteps
<1> QED
  BY <1>1, <1>2, <1>3, <1>4, <1>5 DEF Next

(* The invariant holds in every reachable state. *)
LEMMA Invariance == Spec => []IInv
BY Initially, Steps, PTL DEF Spec

(* The rows hold what their writers allow, and a login that is lost takes the  *)
(* credential and the claim with it, whatever claim, crash or recovery did it. *)
THEOREM ProfileTypes == Spec => []TypeOK
<1>1. IInv => TypeOK
  <2> SUFFICES ASSUME IInv PROVE TypeOK
    OBVIOUS
  <2>1. /\ profile.status \in {"active", "unlinked"}
        /\ profile.auth \in {"healthy", "unavailable", "reauthorization_required", "revoked"}
        /\ profile.cred \in Tokens \cup {None} /\ profile.revision \in Nat
        /\ profile.claim \in Threads \cup {None} /\ profile.owner \in Instances \cup {None}
    BY DEF IInv, Shapes, Profiles
  <2>2. /\ profile.auth = "healthy" => profile.cred # None
        /\ profile.auth \in {"reauthorization_required", "revoked"} =>
             profile.cred = None /\ profile.claim = None
    BY DEF IInv, ProfileInv
  <2>3. /\ lease \in [Leases -> {"none", "open", "redeemed"}]
        /\ \A i \in Instances : inst[i] \in {"unborn", "serving", "dead"}
    BY DEF IInv, Shapes
  <2>4. \A r \in Renewals : renewal[r].status \in {"none", "starting", "waiting_user"} \cup Terminal
    BY DEF IInv, Shapes, Sessions, Statuses
  <2> QED
    BY <2>1, <2>2, <2>3, <2>4 DEF TypeOK
<1> QED
  BY Invariance, <1>1, PTL

(* A refresh token that was or may have been rotated is never sent again, by  *)
(* any thread of any process: claim_provider_oauth_refresh never takes over a *)
(* claim, and every write that ends one replaces or clears what may be spent. *)
(* A host secret that the owner has written into the profile again is left    *)
(* out, and a token the provider kept is not a rotated one.                   *)
THEOREM RefreshedOnce == Spec => []NeverReplayed
<1>1. IInv => NeverReplayed
  <2> SUFFICES ASSUME IInv, NEW t \in Threads, At(t, "refresh"), seed[thread[t].tok] # "again"
               PROVE  /\ thread[t].tok \notin spent
                      /\ \A u \in Threads \ {t} : At(u, "refresh") => thread[u].tok # thread[t].tok
    BY DEF NeverReplayed
  <2>1. thread[t].tok \in Tokens
    BY ProfileAssumption DEF IInv, ClaimInv, Shapes, Tokens, Carry, At
  <2>2. Exclusive(thread[t].tok)
    BY <2>1 DEF IInv, CredentialInv, Once
  <2> QED
    BY <2>2 DEF Exclusive, Carry, At
<1> QED
  BY Invariance, <1>1, PTL

(* A device code is polled by one thread at a time, and never again once a    *)
(* credential may have been issued for it: the claim of                       *)
(* claim_huggingface_device_renewal_poll stays until the session is closed.   *)
THEOREM OnePoll == Spec => []CodePolledOnce
<1>1. IInv => CodePolledOnce
  <2> SUFFICES ASSUME IInv, NEW r \in Renewals
               PROVE  /\ r \in used /\ renewal[r].status = "waiting_user" => renewal[r].claim # None
                      /\ Cardinality({t \in Threads : At(t, "poll") /\ thread[t].item = r /\ r \notin used}) <= 1
    BY DEF CodePolledOnce
  <2>1. r \in used /\ renewal[r].status = "waiting_user" => renewal[r].claim # None
    BY DEF IInv, PollInv
  <2> DEFINE S == {t \in Threads : At(t, "poll") /\ thread[t].item = r /\ r \notin used}
  <2>2. \A t, u \in S : t = u
    BY DEF IInv, PollInv, Polling, At
  <2> HIDE DEF S
  <2>3. S = {} \/ \E t \in S : S = {t}
    BY <2>2, Zenon
  <2>4. Cardinality(S) = 0 \/ Cardinality(S) = 1
    BY <2>3, FS_EmptySet, FS_Singleton, Zenon
  <2>5. Cardinality(S) <= 1
    BY <2>4
  <2> QED
    BY <2>1, <2>5 DEF S
<1> QED
  BY Invariance, <1>1, PTL

(* Who writes a credential: the holder of the refresh claim, for the credential *)
(* it was made from; a renewal, for the one it has seen; and the owner.         *)
LEMMA Writers ==
  ASSUME IInv, [Next]_vars
  PROVE  \/ profile'.cred = profile.cred
         \/ profile'.cred = None /\ LeasesGone
         \/ profile'.cred # None /\ profile.cred = base[profile'.cred] /\ LeasesGone
         \/ /\ profile.cred = base[profile'.cred]
            /\ \E t \in Threads : thread[t].pc = "complete" /\ thread'[t].pc = "idle"
         \/ LeasesGone /\ \E t \in Threads : thread[t].pc = "replace" /\ thread'[t].pc = "idle"
<1>a. Shapes /\ LocalsInv /\ LeaseInv /\ ClaimInv /\ profile \in Profiles
  BY DEF IInv, Shapes
<1>j. 1 \in Tokens /\ "healthy" \in AuthOutcomes
  BY ProfileAssumption DEF Tokens, AuthOutcomes
<1>1. CASE profile' = profile
  BY <1>1
<1>2. CASE profile' = Reauthorize(profile) /\ DropLeases
  <2>1. profile'.cred = None
    BY <1>2, <1>a, <1>j, CredentialMoves
  <2> QED
    BY <1>2, <1>a, <2>1, LeasesMove
<1>3. ASSUME NEW o \in AuthOutcomes, profile' = [Unclaimed(profile) EXCEPT !.auth = o]
      PROVE  profile'.cred = profile.cred
  BY <1>3, <1>a, <1>j, CredentialMoves
<1>4. ASSUME NEW t \in Threads, ClaimRefresh(t)
      PROVE  profile'.cred = profile.cred \/ (profile' = Reauthorize(profile) /\ DropLeases)
  <2>1. ASSUME profile' = [profile EXCEPT !.claim = t, !.owner = thread[t].inst]
        PROVE  profile'.cred = profile.cred
    BY <2>1, <1>a DEF Profiles
  <2> QED
    BY <1>4, <2>1 DEF ClaimRefresh
<1>5. ASSUME NEW t \in Threads, CompleteRefresh(t), HasClaim(t)
      PROVE  \/ profile'.cred = profile.cred
             \/ /\ profile.cred = base[profile'.cred]
                /\ thread[t].pc = "complete" /\ thread'[t].pc = "idle"
  <2>1. thread[t].pc = "complete" /\ thread[t].tok \in Tokens
        /\ (profile.cred = thread[t].tok \/ profile.cred = base[thread[t].tok])
    <3>1. thread[t].pc = "complete" /\ profile.claim = t
      BY <1>5 DEF CompleteRefresh, At, HasClaim
    <3>2. /\ thread[t].tok \in 1..issued
          /\ profile.cred = thread[t].tok \/ profile.cred = base[thread[t].tok]
      BY <3>1, <1>a DEF ClaimInv, Carry
    <3> QED
      BY <3>1, <3>2, <1>a, ProfileAssumption DEF Shapes, Tokens
  <2>2. profile'.cred = thread[t].tok
    <3>1. PICK k \in Tokens : k = thread[t].tok
      BY <2>1
    <3>2. profile' = WithCredential(profile, k)
      BY <1>5, <3>1 DEF CompleteRefresh
    <3>3. WithCredential(profile, k).cred = k
      BY <1>a, <1>j, CredentialMoves
    <3> QED
      BY <3>1, <3>2, <3>3
  <2>3. thread'[t].pc = "idle"
    BY <1>5, <1>a, IdleTyped DEF CompleteRefresh, Return, Shapes
  <2> QED
    BY <2>1, <2>2, <2>3
<1>6. ASSUME NEW t \in Threads, ReleaseRefresh(t)
      PROVE  profile'.cred = profile.cred \/ (profile' = Reauthorize(profile) /\ DropLeases)
  <2>1. thread[t].outcome \in AuthOutcomes
    BY <1>6, <1>a DEF ReleaseRefresh, At, LocalsInv
  <2> QED
    BY <1>6, <1>3, <2>1 DEF ReleaseRefresh
<1>7. ASSUME NEW t \in Threads, InstallRenewal(t), profile' # profile
      PROVE  profile'.cred # None /\ profile.cred = base[profile'.cred] /\ LeasesGone
  <2> DEFINE r == thread[t].item
             k == thread[t].tok
  <2>1. /\ thread[t].pc = "install" /\ HasPoll(t) /\ profile.revision = renewal[r].revision
        /\ profile' = WithCredential(profile, k) /\ DropLeases
    BY <1>7 DEF InstallRenewal, At, storeVars
  <2>2. r \in Renewals /\ renewal[r].status = "waiting_user" /\ base[k] = seen[r]
    BY <2>1, <1>a DEF LocalsInv, HasPoll, IInv, PollInv, Polling
  <2>3. seen[r] = profile.cred
    BY <2>1, <2>2 DEF IInv, RevisionInv
  <2>4. k \in Tokens /\ k # None
    <3>1. k \in 1..issued
      BY <2>1, <1>a DEF ClaimInv, Carry
    <3> QED
      BY <3>1, <1>a, ProfileAssumption DEF Shapes, Tokens
  <2>5. profile'.cred = k
    <3>1. PICK m \in Tokens : m = k
      BY <2>4
    <3>2. WithCredential(profile, m).cred = m
      BY <1>a, <1>j, CredentialMoves
    <3> QED
      BY <2>1, <3>1, <3>2
  <2> QED
    BY <2>1, <2>2, <2>3, <2>4, <2>5, <1>a, LeasesMove
<1>8. ASSUME NEW t \in Threads, ReplaceCredential(t)
      PROVE  \/ profile' = profile
             \/ LeasesGone /\ thread[t].pc = "replace" /\ thread'[t].pc = "idle"
  <2>1. thread[t].pc = "replace" /\ thread'[t].pc = "idle"
    BY <1>8, <1>a, IdleTyped DEF ReplaceCredential, At, Return, Shapes
  <2> QED
    BY <1>8, <2>1, <1>a, LeasesMove DEF ReplaceCredential, storeVars
<1>9. ASSUME NEW i \in Instances, UnlinkProfile(i)
      PROVE  profile'.cred = None /\ LeasesGone
  BY <1>9, <1>a, <1>j, RowMoves, LeasesMove DEF UnlinkProfile, Row
<1>10. ASSUME NEW i \in Instances, Start(i), profile' # profile
       PROVE  profile' = Reauthorize(profile) /\ DropLeases
  <2>1. profile' = Reauthorize(profile)
    BY <1>10 DEF Start
  <2>2. profile'.auth = "reauthorization_required"
    BY <2>1, <1>a, <1>j, RowMoves DEF Row
  <2> QED
    BY <1>10, <2>1, <2>2 DEF Start
<1>11. ASSUME NEW t \in Threads,
              \/ Request(t) \/ RefreshAtProvider(t) \/ BeginRenewal(t) \/ FinishStart(t)
              \/ CheckProfile(t) \/ PollProvider(t) \/ DeferPoll(t) \/ FailPoll(t)
       PROVE  profile' = profile
  BY <1>11 DEF Request, RedeemLease, ReadForRenewal, ReadForReplacement, ClaimPoll, RefreshAtProvider, BeginRenewal,
     FinishStart, CheckProfile, PollProvider, DeferPoll, FailPoll, storeVars
<1>12. ASSUME NEW i \in Instances, Crash(i) \/ \E l \in Leases : CreateLease(i, l)
       PROVE  profile' = profile
  BY <1>12 DEF Crash, CreateLease, storeVars
<1>13. ASSUME NEW t \in Threads, CompleteRefresh(t), ~HasClaim(t)
       PROVE  profile' = profile
  BY <1>13 DEF CompleteRefresh
<1>14. UNCHANGED vars => profile' = profile
  BY DEF vars
<1> QED
  BY <1>1, <1>2, <1>4, <1>5, <1>6, <1>7, <1>8, <1>9, <1>10, <1>11, <1>12, <1>13, <1>14
     DEF Next, Handle

(* No refresh and no renewal overwrites a credential it has not seen: a refresh *)
(* replaces only the credential it was made from (complete_provider_oauth_      *)
(* refresh), a renewal only the one its profile had when it began.  What else   *)
(* replaces a credential is the owner's command, which looks at nothing.        *)
THEOREM NothingLost == Spec => NoLostUpdate
<1>1. IInv /\ [Next]_vars =>
        [LET new == profile'.cred IN
           new # None /\ new # profile.cred =>
             \/ profile.cred = base[new]
             \/ \E t \in Threads : At(t, "replace") /\ thread'[t].pc = "idle"]_vars
  BY Writers DEF At
<1> QED
  BY Invariance, <1>1, PTL DEF Spec, NoLostUpdate

(* No lease of an old login is redeemed under a new one: whatever changes the  *)
(* credential drops the open leases, a completed refresh alone keeps them.     *)
THEOREM LeasesFollowLogin == Spec => LeaseEndsWithLogin
<1>1. IInv /\ [Next]_vars =>
        [\A l \in Leases : lease'[l] = "open" =>
           /\ profile'.status = "active" /\ profile'.auth = "healthy"
           /\ \/ profile'.cred = profile.cred
              \/ \E t \in Threads : thread[t].pc = "complete" /\ thread'[t].pc = "idle"]_vars
  <2> SUFFICES ASSUME IInv, [Next]_vars, NEW l \in Leases, lease'[l] = "open"
               PROVE  /\ profile'.status = "active" /\ profile'.auth = "healthy"
                      /\ \/ profile'.cred = profile.cred
                         \/ \E t \in Threads : thread[t].pc = "complete" /\ thread'[t].pc = "idle"
    OBVIOUS
  <2>1. profile'.status = "active" /\ profile'.auth = "healthy"
    BY Steps DEF IInv, LeaseInv
  <2>2. ~LeasesGone
    BY DEF LeasesGone
  <2> QED
    BY <2>1, <2>2, Writers
<1> QED
  BY Invariance, <1>1, PTL DEF Spec, LeaseEndsWithLogin

=============================================================================
