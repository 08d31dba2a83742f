---------------------------- MODULE TunnelProofs ----------------------------
(***************************************************************************)
(* Theorems about the tunnel for any number of streams and sessions, any   *)
(* queue capacities and any traffic: it implements BytePipes, and a task   *)
(* that returns leaves no place behind.                                    *)
(***************************************************************************)
EXTENDS AuthorityTunnel, TLAPS

-----------------------------------------------------------------------------
(* The inductive invariant. *)

Frames == [kind : {"accepted", "opened", "data", "closed", "error", "left"}, s : Streams, n : Nat]

Demuxes == [pc : {"none", "read", "send", "end", "tear", "done"},
            f : Frames \cup {None}, todo : SUBSET Streams]

ServePCs == {"none", "insert", "accept", "opened", "cancelled", "read", "lookup", "send",
             "remove", "tell", "done"}

Serves == [pc : ServePCs, home : Sessions \cup {None}, via : Sessions \cup {None},
           f : Frames \cup {None}]

Loops == [pc : {"none", "read", "send", "refuse", "ended", "failed", "unknown"},
          f : Frames \cup {None}]

(* Queues, maps and tasks in shape. *)
ShapesOfChannels ==
  /\ up \in [Sessions -> Seq(Frames)] /\ down \in [Sessions -> Seq(Frames)]
  /\ inbox \in [Streams -> Seq(Frames)]
  /\ link \in [Sessions -> {"none", "up", "broken"}]
  /\ client \in [Streams -> {"none", "waiting", "up", "gone"}]
  /\ sent \in [Pipes -> Nat] /\ got \in [Pipes -> Seq(Nat)]

ShapesOfRelay ==
  /\ bridge \in Sessions \cup {None} /\ lock \in Sessions \cup {None} /\ streams \in SUBSET Streams
  /\ closed \in [Sessions -> BOOLEAN]
  /\ demux \in [Sessions -> Demuxes] /\ serve \in [Streams -> Serves]

ShapesOfBridge ==
  /\ session \in [Sessions -> Loops] /\ known \in [Sessions -> SUBSET Streams]
  /\ tcpq \in [Streams -> Seq(Frames)] /\ owner \in [Streams -> Sessions \cup {None}]
  /\ writer \in [Streams -> {"none", "connecting", "on", "failing", "done"}]
  /\ reader \in [Streams -> {"none", "on", "send", "last", "error", "done"}]

Shapes == ShapesOfChannels /\ ShapesOfRelay /\ ShapesOfBridge

(* Every frame of a stream's own queue is the stream's. *)
OfStream(q, s) == \A i \in 1..Len(q) : q[i].s = s

(* The queues keep their capacity. *)
QueueInv ==
  /\ \A b \in Sessions : Len(up[b]) <= RelayCap /\ Len(down[b]) <= BridgeCap
  /\ \A s \in Streams :
       /\ Len(inbox[s]) <= RelayCap /\ OfStream(inbox[s], s)
       /\ Len(tcpq[s]) <= BridgeCap /\ OfStream(tcpq[s], s)

(* The mutex is held by a teardown only. *)
LockInv == \A b \in Sessions : lock = b <=> demux[b].pc = "tear"

(* What a task has in hand. *)
HandInv ==
  /\ \A b \in Sessions :
       /\ demux[b].pc = "send" => demux[b].f \in Frames
       /\ session[b].pc \in {"send", "refuse"} => session[b].f \in Frames
       /\ session[b].pc = "send" => session[b].f.kind \in {"data", "closed", "error"}
       /\ session[b].pc = "refuse" => session[b].f.kind = "error"
  /\ \A s \in Streams :
       /\ serve[s].pc \in {"lookup", "send"} =>
            /\ serve[s].f \in Frames /\ serve[s].f.s = s
            /\ serve[s].f.kind \in {"data", "closed", "error", "left"}
            /\ serve[s].f.kind = "data" => serve[s].f.n = sent[<<s, "up">>]
       /\ serve[s].pc = "send" => serve[s].via \in Sessions
       /\ serve[s].pc = "none" <=> serve[s].home = None
       /\ serve[s].pc = "none" <=> client[s] = "none"

(* A session that is registered, or was, has been connected, and none comes back: *)
(* a task that sends to another session than its stream's first one can no longer *)
(* find that one registered.                                                      *)
LinkInv ==
  /\ bridge # None => link[bridge] # "none"
  /\ \A s \in Streams :
       /\ serve[s].home # None => link[serve[s].home] # "none"
       /\ serve[s].pc = "send" /\ serve[s].home = bridge => serve[s].via = bridge
  /\ \A b \in Sessions : closed[b] => up[b] = <<>>

(* Places in connector_streams: the leak property with what it rests on. *)
PlaceInv ==
  \A s \in Streams :
    /\ serve[s].pc \in {"none", "insert", "done"} => s \notin streams
    /\ serve[s].pc \in {"lookup", "send"} /\ serve[s].f.kind = "left" => s \notin streams

(* Before it is announced, a stream has no frames on the way up. *)
Unannounced == {"none", "insert", "accept", "cancelled"}

(* What session b is sent: a stream is announced to it once, before all else, *)
(* and to the session it was opened through.                                  *)
UpFrames(b) ==
  \A i \in 1..Len(up[b]) :
    /\ up[b][i].kind \in {"accepted", "data", "closed", "error"}
    /\ serve[up[b][i].s].pc \notin Unannounced
    /\ up[b][i].kind = "accepted" =>
         /\ serve[up[b][i].s].home = b /\ owner[up[b][i].s] = None
         /\ \A j \in 1..Len(up[b]) :
              up[b][j].kind = "accepted" /\ up[b][j].s = up[b][i].s => j = i

(* Only the session that owns a stream sends its data. *)
DownFrames(b) == \A i \in 1..Len(down[b]) : down[b][i].kind = "data" => owner[down[b][i].s] = b

(* A session knows, and has in hand, frames of streams it owns. *)
Holds(b) ==
  /\ demux[b].pc = "send" /\ demux[b].f.kind = "data" => owner[demux[b].f.s] = b
  /\ session[b].pc = "send" => owner[session[b].f.s] = b
  /\ \A s \in known[b] : owner[s] = b

(* A stream is owned by the session it was opened through, and only when owned *)
(* has it a connection to the Authority.                                       *)
Owned(s) ==
  /\ owner[s] # None => serve[s].home = owner[s] /\ serve[s].pc \notin Unannounced
  /\ owner[s] = None <=> writer[s] = "none"
  /\ owner[s] = None => tcpq[s] = <<>> /\ sent[<<s, "down">>] = 0
  /\ writer[s] \in {"none", "connecting", "failing"} => reader[s] = "none"
  /\ serve[s].pc \in Unannounced \cup {"opened"} => sent[<<s, "up">>] = 0

OwnerInv ==
  /\ \A b \in Sessions : UpFrames(b) /\ DownFrames(b) /\ Holds(b)
  /\ \A s \in Streams : Owned(s)

IsData(f, s) == f.kind = "data" /\ f.s = s

(* The data frames of stream s in queue q are the frames lo + 1 .. hi, in order. *)
Run(q, s, lo, hi) ==
  /\ lo <= hi
  /\ \A i \in 1..Len(q) : IsData(q[i], s) => lo < q[i].n /\ q[i].n <= hi
  /\ \A i, j \in 1..Len(q) : IsData(q[i], s) /\ IsData(q[j], s) /\ i < j => q[i].n < q[j].n
  /\ \A m \in (lo + 1)..hi : \E i \in 1..Len(q) : IsData(q[i], s) /\ q[i].n = m

Alive(b)        == session[b].pc \in {"read", "send", "refuse"}
UpHand(b, s)    == session[b].pc = "send" /\ IsData(session[b].f, s)
DownHand(b, s)  == demux[b].pc = "send" /\ IsData(demux[b].f, s)

(* The task of stream s still sends to session b, its home, and has sent all *)
(* that it took from the connector.                                          *)
UpTie(b, s, top) ==
  bridge = b \/ (serve[s].pc = "send" /\ serve[s].via = b) =>
    /\ serve[s].pc \in {"insert", "accept", "opened", "read"} => top = sent[<<s, "up">>]
    /\ serve[s].pc \in {"lookup", "send"} /\ serve[s].f.kind = "data" => top + 1 = sent[<<s, "up">>]

(* The way up: what the Authority has got, the writer's queue, the frame the  *)
(* session has in hand, and the queue from the relay continue each other.     *)
UpLink(s, k) ==
  LET b == serve[s].home IN
  b # None /\ Alive(b) /\ writer[s] # "done" =>
    /\ UpHand(b, s) => session[b].f.n = k + 1 /\ k + 1 <= sent[<<s, "up">>]
    /\ ~closed[b] =>
         \E top \in 0..sent[<<s, "up">>] :
           /\ UpTie(b, s, top)
           /\ UpHand(b, s) => Run(up[b], s, k + 1, top)
           /\ ~UpHand(b, s) => Run(up[b], s, k, top)

UpAt(s) ==
  \E k \in 0..sent[<<s, "up">>] : Run(tcpq[s], s, Len(got[<<s, "up">>]), k) /\ UpLink(s, k)

UpInv == \A s \in Streams : UpAt(s)

(* The reader of stream s has passed on all it took from the Authority. *)
DownTie(b, s, top) ==
  link[b] = "up" =>
    /\ reader[s] \in {"none", "on"} => top = sent[<<s, "down">>]
    /\ reader[s] \in {"send", "last"} => top + 1 = sent[<<s, "down">>]

(* The way down, as long as the stream has its place at the relay. *)
DownLink(s, k) ==
  LET b == owner[s] IN
  b # None /\ demux[b].pc \in {"read", "send"} /\ (s \in streams \/ DownHand(b, s)) =>
    \E top \in 0..sent[<<s, "down">>] :
      /\ DownTie(b, s, top)
      /\ DownHand(b, s) => demux[b].f.n = k + 1 /\ Run(down[b], s, k + 1, top)
      /\ ~DownHand(b, s) => Run(down[b], s, k, top)

DownAt(s) ==
  client[s] # "gone" =>
    \E k \in 0..sent[<<s, "down">>] : Run(inbox[s], s, Len(got[<<s, "down">>]), k) /\ DownLink(s, k)

DownInv == \A s \in Streams : DownAt(s)

IInv == Shapes /\ QueueInv /\ LockInv /\ HandInv /\ LinkInv /\ PlaceInv /\ OwnerInv /\ UpInv /\ DownInv

-----------------------------------------------------------------------------
(* Runs of data frames in a queue. *)

(* An empty queue has none. *)
LEMMA RunEmpty ==
  ASSUME NEW s \in Streams, NEW n \in Nat
  PROVE  Run(<<>>, s, n, n)
BY DEF Run

(* A queue's first frame, and the rest of it. *)
LEMMA QueueTail ==
  ASSUME NEW q \in Seq(Frames), q # <<>>
  PROVE  /\ Len(q) \in Nat \ {0} /\ Head(q) = q[1] /\ q[1] \in Frames
         /\ Tail(q) \in Seq(Frames) /\ Len(Tail(q)) = Len(q) - 1
         /\ \A i \in 1..Len(Tail(q)) : i + 1 \in 1..Len(q) /\ Tail(q)[i] = q[i + 1]
<1>1. Len(q) \in Nat \ {0} /\ Head(q) = q[1] /\ q[1] \in Frames
  OBVIOUS
<1>2. Tail(q) \in Seq(Frames) /\ Len(Tail(q)) = Len(q) - 1
  OBVIOUS
<1>3. ASSUME NEW i \in 1..Len(Tail(q)) PROVE i + 1 \in 1..Len(q) /\ Tail(q)[i] = q[i + 1]
  BY <1>1, <1>2
<1> QED
  BY <1>1, <1>2, <1>3

(* A queue with one more frame. *)
LEMMA QueueAppend ==
  ASSUME NEW q \in Seq(Frames), NEW f \in Frames
  PROVE  /\ Append(q, f) \in Seq(Frames) /\ Len(q) \in Nat /\ Len(Append(q, f)) = Len(q) + 1
         /\ \A i \in 1..Len(q) : Append(q, f)[i] = q[i]
         /\ Append(q, f)[Len(q) + 1] = f
OBVIOUS

(* The frames of a stream, with one more or one less. *)
LEMMA OfStreamKeeps ==
  ASSUME NEW q \in Seq(Frames), NEW s \in Streams, OfStream(q, s)
  PROVE  /\ \A f \in Frames : f.s = s => OfStream(Append(q, f), s)
         /\ q # <<>> => OfStream(Tail(q), s) /\ Head(q).s = s
<1>1. ASSUME NEW f \in Frames, f.s = s PROVE OfStream(Append(q, f), s)
  <2> DEFINE r == Append(q, f)
  <2>1. /\ Len(q) \in Nat /\ Len(r) = Len(q) + 1
        /\ \A i \in 1..Len(q) : r[i] = q[i]
        /\ r[Len(q) + 1] = f
    BY QueueAppend
  <2> HIDE DEF r
  <2>2. \A i \in 1..Len(r) : i \in 1..Len(q) \/ i = Len(q) + 1
    BY <2>1
  <2>3. OfStream(r, s)
    BY <1>1, <2>1, <2>2 DEF OfStream
  <2> QED
    BY <2>3 DEF r
<1>2. ASSUME q # <<>> PROVE OfStream(Tail(q), s) /\ Head(q).s = s
  <2>1. /\ Len(q) \in Nat \ {0} /\ Head(q) = q[1]
        /\ \A i \in 1..Len(Tail(q)) : i + 1 \in 1..Len(q) /\ Tail(q)[i] = q[i + 1]
    BY <1>2, QueueTail
  <2> QED
    BY <2>1 DEF OfStream
<1> QED
  BY <1>1, <1>2

(* Taking the first frame of the stream takes the lowest of the run. *)
LEMMA RunTailData ==
  ASSUME NEW q \in Seq(Frames), NEW s \in Streams, NEW lo \in Nat, NEW hi \in Nat,
         q # <<>>, Run(q, s, lo, hi), IsData(Head(q), s)
  PROVE  Head(q).n = lo + 1 /\ lo + 1 <= hi /\ Run(Tail(q), s, lo + 1, hi)
<1>0. /\ Len(q) \in Nat \ {0} /\ Head(q) = q[1] /\ q[1] \in Frames
      /\ Len(Tail(q)) = Len(q) - 1
      /\ \A i \in 1..Len(Tail(q)) : i + 1 \in 1..Len(q) /\ Tail(q)[i] = q[i + 1]
  BY QueueTail
<1>1. /\ \A i \in 1..Len(q) : IsData(q[i], s) => lo < q[i].n /\ q[i].n <= hi
      /\ \A i, j \in 1..Len(q) : IsData(q[i], s) /\ IsData(q[j], s) /\ i < j => q[i].n < q[j].n
      /\ \A m \in (lo + 1)..hi : \E i \in 1..Len(q) : IsData(q[i], s) /\ q[i].n = m
  BY DEF Run
<1>2. IsData(q[1], s) /\ q[1].n \in Nat /\ 1 \in 1..Len(q)
  BY <1>0 DEF Frames
<1>3. lo < q[1].n /\ q[1].n <= hi
  BY <1>1, <1>2
<1>4. q[1].n = lo + 1
  <2>1. lo + 1 \in (lo + 1)..hi
    BY <1>2, <1>3
  <2>2. PICK i \in 1..Len(q) : IsData(q[i], s) /\ q[i].n = lo + 1
    BY <1>1, <2>1
  <2>3. CASE i = 1
    BY <2>2, <2>3
  <2>4. CASE i # 1
    <3>1. q[1].n < q[i].n
      BY <1>0, <1>1, <1>2, <2>2, <2>4
    <3> QED
      BY <3>1, <1>2, <1>3, <2>2
  <2> QED
    BY <2>3, <2>4
<1>5. \A i \in 1..Len(Tail(q)) : IsData(Tail(q)[i], s) => lo + 1 < Tail(q)[i].n /\ Tail(q)[i].n <= hi
  <2> SUFFICES ASSUME NEW i \in 1..Len(Tail(q)), IsData(Tail(q)[i], s)
               PROVE  lo + 1 < Tail(q)[i].n /\ Tail(q)[i].n <= hi
    OBVIOUS
  <2>1. i + 1 \in 1..Len(q) /\ Tail(q)[i] = q[i + 1] /\ 1 < i + 1
    BY <1>0
  <2> QED
    BY <1>1, <1>2, <1>4, <2>1
<1>6. \A i, j \in 1..Len(Tail(q)) :
        IsData(Tail(q)[i], s) /\ IsData(Tail(q)[j], s) /\ i < j => Tail(q)[i].n < Tail(q)[j].n
  <2> SUFFICES ASSUME NEW i \in 1..Len(Tail(q)), NEW j \in 1..Len(Tail(q)),
                      IsData(Tail(q)[i], s), IsData(Tail(q)[j], s), i < j
               PROVE  Tail(q)[i].n < Tail(q)[j].n
    OBVIOUS
  <2>1. /\ i + 1 \in 1..Len(q) /\ Tail(q)[i] = q[i + 1]
        /\ j + 1 \in 1..Len(q) /\ Tail(q)[j] = q[j + 1] /\ i + 1 < j + 1
    BY <1>0
  <2> QED
    BY <1>1, <2>1
<1>7. \A m \in (lo + 1 + 1)..hi : \E i \in 1..Len(Tail(q)) : IsData(Tail(q)[i], s) /\ Tail(q)[i].n = m
  <2> SUFFICES ASSUME NEW m \in (lo + 1 + 1)..hi
               PROVE  \E i \in 1..Len(Tail(q)) : IsData(Tail(q)[i], s) /\ Tail(q)[i].n = m
    OBVIOUS
  <2>1. PICK i \in 1..Len(q) : IsData(q[i], s) /\ q[i].n = m
    <3>1. m \in (lo + 1)..hi
      OBVIOUS
    <3> QED
      BY <3>1, <1>1
  <2>2. i # 1
    BY <2>1, <1>4
  <2>3. i - 1 \in 1..Len(Tail(q)) /\ (i - 1) + 1 = i
    BY <2>2, <1>0
  <2>4. Tail(q)[i - 1] = q[i]
    BY <2>3, <1>0
  <2> QED
    BY <2>1, <2>3, <2>4
<1> QED
  BY <1>0, <1>3, <1>4, <1>5, <1>6, <1>7 DEF Run

(* Taking another frame leaves the run. *)
LEMMA RunTailOther ==
  ASSUME NEW q \in Seq(Frames), NEW s \in Streams, NEW lo \in Nat, NEW hi \in Nat,
         q # <<>>, Run(q, s, lo, hi), ~IsData(Head(q), s)
  PROVE  Run(Tail(q), s, lo, hi)
<1>0. /\ Len(q) \in Nat \ {0} /\ Head(q) = q[1] /\ q[1] \in Frames
      /\ Len(Tail(q)) = Len(q) - 1
      /\ \A i \in 1..Len(Tail(q)) : i + 1 \in 1..Len(q) /\ Tail(q)[i] = q[i + 1]
  BY QueueTail
<1>1. /\ \A i \in 1..Len(q) : IsData(q[i], s) => lo < q[i].n /\ q[i].n <= hi
      /\ \A i, j \in 1..Len(q) : IsData(q[i], s) /\ IsData(q[j], s) /\ i < j => q[i].n < q[j].n
      /\ \A m \in (lo + 1)..hi : \E i \in 1..Len(q) : IsData(q[i], s) /\ q[i].n = m
      /\ lo <= hi
  BY DEF Run
<1>5. \A i \in 1..Len(Tail(q)) : IsData(Tail(q)[i], s) => lo < Tail(q)[i].n /\ Tail(q)[i].n <= hi
  BY <1>0, <1>1
<1>6. \A i, j \in 1..Len(Tail(q)) :
        IsData(Tail(q)[i], s) /\ IsData(Tail(q)[j], s) /\ i < j => Tail(q)[i].n < Tail(q)[j].n
  <2> SUFFICES ASSUME NEW i \in 1..Len(Tail(q)), NEW j \in 1..Len(Tail(q)),
                      IsData(Tail(q)[i], s), IsData(Tail(q)[j], s), i < j
               PROVE  Tail(q)[i].n < Tail(q)[j].n
    OBVIOUS
  <2>1. /\ i + 1 \in 1..Len(q) /\ Tail(q)[i] = q[i + 1]
        /\ j + 1 \in 1..Len(q) /\ Tail(q)[j] = q[j + 1] /\ i + 1 < j + 1
    BY <1>0
  <2> QED
    BY <1>1, <2>1
<1>7. \A m \in (lo + 1)..hi : \E i \in 1..Len(Tail(q)) : IsData(Tail(q)[i], s) /\ Tail(q)[i].n = m
  <2> SUFFICES ASSUME NEW m \in (lo + 1)..hi
               PROVE  \E i \in 1..Len(Tail(q)) : IsData(Tail(q)[i], s) /\ Tail(q)[i].n = m
    OBVIOUS
  <2>1. PICK i \in 1..Len(q) : IsData(q[i], s) /\ q[i].n = m
    BY <1>1
  <2>2. i # 1
    BY <2>1, <1>0
  <2>3. i - 1 \in 1..Len(Tail(q)) /\ (i - 1) + 1 = i
    BY <2>2, <1>0
  <2>4. Tail(q)[i - 1] = q[i]
    BY <2>3, <1>0
  <2> QED
    BY <2>1, <2>3, <2>4
<1> QED
  BY <1>1, <1>5, <1>6, <1>7 DEF Run

(* Adding the next frame of the stream makes the run longer. *)
LEMMA RunAppendData ==
  ASSUME NEW q \in Seq(Frames), NEW s \in Streams, NEW lo \in Nat, NEW hi \in Nat,
         NEW f \in Frames, Run(q, s, lo, hi), IsData(f, s), f.n = hi + 1
  PROVE  Run(Append(q, f), s, lo, hi + 1)
<1>0. /\ Len(q) \in Nat /\ Len(Append(q, f)) = Len(q) + 1
      /\ \A i \in 1..Len(q) : Append(q, f)[i] = q[i]
      /\ Append(q, f)[Len(q) + 1] = f
  BY QueueAppend
<1> DEFINE r == Append(q, f)
<1>1. /\ \A i \in 1..Len(q) : IsData(q[i], s) => lo < q[i].n /\ q[i].n <= hi
      /\ \A i, j \in 1..Len(q) : IsData(q[i], s) /\ IsData(q[j], s) /\ i < j => q[i].n < q[j].n
      /\ \A m \in (lo + 1)..hi : \E i \in 1..Len(q) : IsData(q[i], s) /\ q[i].n = m
      /\ lo <= hi
  BY DEF Run
<1>2. /\ Len(r) = Len(q) + 1 /\ \A i \in 1..Len(q) : r[i] = q[i]
      /\ r[Len(q) + 1] = f
  BY <1>0
<1> HIDE DEF r
<1>3. \A i \in 1..Len(r) : i \in 1..Len(q) \/ i = Len(q) + 1
  BY <1>0, <1>2
<1>4. \A i \in 1..Len(q) : i \in 1..Len(r) /\ i < Len(q) + 1
  BY <1>0, <1>2
<1>n. \A i \in 1..Len(q) : q[i].n \in Nat
  <2>1. \A i \in 1..Len(q) : q[i] \in Frames
    OBVIOUS
  <2>2. \A g \in Frames : g.n \in Nat
    BY DEF Frames
  <2> QED
    BY <2>1, <2>2
<1>5. \A i \in 1..Len(r) : IsData(r[i], s) => lo < r[i].n /\ r[i].n <= hi + 1
  <2> SUFFICES ASSUME NEW i \in 1..Len(r), IsData(r[i], s) PROVE lo < r[i].n /\ r[i].n <= hi + 1
    OBVIOUS
  <2>1. CASE i \in 1..Len(q)
    <3>1. r[i] = q[i] /\ q[i].n \in Nat
      BY <2>1, <1>2, <1>n
    <3>2. lo < q[i].n /\ q[i].n <= hi
      BY <2>1, <3>1, <1>1
    <3> QED
      BY <3>1, <3>2
  <2>2. CASE i = Len(q) + 1
    BY <2>2, <1>1, <1>2
  <2> QED
    BY <1>3, <2>1, <2>2
<1>6. \A i, j \in 1..Len(r) : IsData(r[i], s) /\ IsData(r[j], s) /\ i < j => r[i].n < r[j].n
  <2> SUFFICES ASSUME NEW i \in 1..Len(r), NEW j \in 1..Len(r), IsData(r[i], s), IsData(r[j], s), i < j
               PROVE  r[i].n < r[j].n
    OBVIOUS
  <2>1. i \in 1..Len(q)
    BY <1>0, <1>2
  <2>2. CASE j \in 1..Len(q)
    BY <2>1, <2>2, <1>1, <1>2
  <2>3. CASE j = Len(q) + 1
    BY <2>1, <2>3, <1>1, <1>2, <1>n
  <2> QED
    BY <1>3, <2>2, <2>3
<1>7. \A m \in (lo + 1)..(hi + 1) : \E i \in 1..Len(r) : IsData(r[i], s) /\ r[i].n = m
  <2> SUFFICES ASSUME NEW m \in (lo + 1)..(hi + 1)
               PROVE  \E i \in 1..Len(r) : IsData(r[i], s) /\ r[i].n = m
    OBVIOUS
  <2>1. CASE m = hi + 1
    BY <2>1, <1>0, <1>2
  <2>2. CASE m # hi + 1
    <3>1. m \in (lo + 1)..hi
      BY <2>2
    <3>2. PICK i \in 1..Len(q) : IsData(q[i], s) /\ q[i].n = m
      BY <3>1, <1>1
    <3> QED
      BY <3>2, <1>2, <1>4
  <2> QED
    BY <2>1, <2>2
<1>8. lo <= hi + 1
  BY <1>1
<1> QED
  BY <1>5, <1>6, <1>7, <1>8 DEF Run, r

(* Adding another frame leaves the run. *)
LEMMA RunAppendOther ==
  ASSUME NEW q \in Seq(Frames), NEW s \in Streams, NEW lo \in Nat, NEW hi \in Nat,
         NEW f \in Frames, Run(q, s, lo, hi), ~IsData(f, s)
  PROVE  Run(Append(q, f), s, lo, hi)
<1>0. /\ Len(q) \in Nat /\ Len(Append(q, f)) = Len(q) + 1
      /\ \A i \in 1..Len(q) : Append(q, f)[i] = q[i]
      /\ Append(q, f)[Len(q) + 1] = f
  BY QueueAppend
<1>1. /\ \A i \in 1..Len(q) : IsData(q[i], s) => lo < q[i].n /\ q[i].n <= hi
      /\ \A i, j \in 1..Len(q) : IsData(q[i], s) /\ IsData(q[j], s) /\ i < j => q[i].n < q[j].n
      /\ \A m \in (lo + 1)..hi : \E i \in 1..Len(q) : IsData(q[i], s) /\ q[i].n = m
      /\ lo <= hi
  BY DEF Run
<1> DEFINE r == Append(q, f)
<1>2. /\ Len(r) = Len(q) + 1 /\ \A i \in 1..Len(q) : r[i] = q[i]
      /\ r[Len(q) + 1] = f
  BY <1>0
<1> HIDE DEF r
<1>3. \A i \in 1..Len(r) : IsData(r[i], s) => i \in 1..Len(q) /\ r[i] = q[i]
  <2>1. \A i \in 1..Len(r) : i \in 1..Len(q) \/ i = Len(q) + 1
    BY <1>0, <1>2
  <2> QED
    BY <2>1, <1>2
<1>4. \A i \in 1..Len(q) : i \in 1..Len(r)
  BY <1>0, <1>2
<1>5. \A i \in 1..Len(r) : IsData(r[i], s) => lo < r[i].n /\ r[i].n <= hi
  BY <1>1, <1>3
<1>6. \A i, j \in 1..Len(r) : IsData(r[i], s) /\ IsData(r[j], s) /\ i < j => r[i].n < r[j].n
  BY <1>1, <1>3
<1>7. \A m \in (lo + 1)..hi : \E i \in 1..Len(r) : IsData(r[i], s) /\ r[i].n = m
  BY <1>1, <1>2, <1>4
<1> QED
  BY <1>1, <1>5, <1>6, <1>7 DEF Run, r

-----------------------------------------------------------------------------
(* The moves of the tasks. *)

ServeAt(s, pc, home, via, f) ==
  /\ serve' \in [Streams -> Serves]
  /\ \A r \in Streams \ {s} : serve'[r] = serve[r]
  /\ serve'[s].pc = pc /\ serve'[s].home = home /\ serve'[s].via = via /\ serve'[s].f = f

DemuxAt(b, pc, f, todo) ==
  /\ demux' \in [Sessions -> Demuxes]
  /\ \A a \in Sessions \ {b} : demux'[a] = demux[a]
  /\ demux'[b].pc = pc /\ demux'[b].f = f /\ demux'[b].todo = todo

SessionAt(b, pc, f) ==
  /\ session' \in [Sessions -> Loops]
  /\ \A a \in Sessions \ {b} : session'[a] = session[a]
  /\ session'[b].pc = pc /\ session'[b].f = f

(* A record in place of a task's record. *)
LEMMA ServePut ==
  ASSUME ShapesOfRelay, NEW s \in Streams, NEW g \in Serves, serve' = [serve EXCEPT ![s] = g]
  PROVE  ServeAt(s, g.pc, g.home, g.via, g.f)
BY DEF ShapesOfRelay, ServeAt

(* The same for the task of a session. *)
LEMMA DemuxPut ==
  ASSUME ShapesOfRelay, NEW b \in Sessions, NEW g \in Demuxes, demux' = [demux EXCEPT ![b] = g]
  PROVE  DemuxAt(b, g.pc, g.f, g.todo)
BY DEF ShapesOfRelay, DemuxAt

(* The updates of a stream's task at the relay. *)
LEMMA ServeMoves ==
  ASSUME ShapesOfRelay, NEW s \in Streams, NEW pc \in ServePCs, NEW h \in Sessions \cup {None},
         NEW f \in Frames \cup {None}
  PROVE  /\ ServeTo(s, pc) => ServeAt(s, pc, serve[s].home, serve[s].via, serve[s].f)
         /\ serve' = [serve EXCEPT ![s].pc = pc, ![s].home = h]
              => ServeAt(s, pc, h, serve[s].via, serve[s].f)
         /\ serve' = [serve EXCEPT ![s].pc = pc, ![s].f = f]
              => ServeAt(s, pc, serve[s].home, serve[s].via, f)
         /\ serve' = [serve EXCEPT ![s].pc = pc, ![s].via = h]
              => ServeAt(s, pc, serve[s].home, h, serve[s].f)
         /\ serve' = [serve EXCEPT ![s].pc = pc, ![s].via = None, ![s].f = None]
              => ServeAt(s, pc, serve[s].home, None, None)
<1>a. serve \in [Streams -> Serves] /\ serve[s] \in Serves
  BY DEF ShapesOfRelay
<1>1. ASSUME ServeTo(s, pc) PROVE ServeAt(s, pc, serve[s].home, serve[s].via, serve[s].f)
  <2> DEFINE g == [serve[s] EXCEPT !.pc = pc]
  <2>1. [serve EXCEPT ![s].pc = pc] = [serve EXCEPT ![s] = g]
    BY <1>a
  <2>2. g \in Serves /\ g.pc = pc /\ g.home = serve[s].home /\ g.via = serve[s].via /\ g.f = serve[s].f
    BY <1>a DEF Serves
  <2> HIDE DEF g
  <2> QED
    BY <1>1, <2>1, <2>2, ServePut DEF ServeTo
<1>2. ASSUME serve' = [serve EXCEPT ![s].pc = pc, ![s].home = h]
      PROVE  ServeAt(s, pc, h, serve[s].via, serve[s].f)
  <2> DEFINE g == [serve[s] EXCEPT !.pc = pc, !.home = h]
  <2>1. [serve EXCEPT ![s].pc = pc, ![s].home = h] = [serve EXCEPT ![s] = g]
    BY <1>a
  <2>2. g \in Serves /\ g.pc = pc /\ g.home = h /\ g.via = serve[s].via /\ g.f = serve[s].f
    BY <1>a DEF Serves
  <2> HIDE DEF g
  <2> QED
    BY <1>2, <2>1, <2>2, ServePut
<1>3. ASSUME serve' = [serve EXCEPT ![s].pc = pc, ![s].f = f]
      PROVE  ServeAt(s, pc, serve[s].home, serve[s].via, f)
  <2> DEFINE g == [serve[s] EXCEPT !.pc = pc, !.f = f]
  <2>1. [serve EXCEPT ![s].pc = pc, ![s].f = f] = [serve EXCEPT ![s] = g]
    BY <1>a
  <2>2. g \in Serves /\ g.pc = pc /\ g.home = serve[s].home /\ g.via = serve[s].via /\ g.f = f
    BY <1>a DEF Serves
  <2> HIDE DEF g
  <2> QED
    BY <1>3, <2>1, <2>2, ServePut
<1>4. ASSUME serve' = [serve EXCEPT ![s].pc = pc, ![s].via = h]
      PROVE  ServeAt(s, pc, serve[s].home, h, serve[s].f)
  <2> DEFINE g == [serve[s] EXCEPT !.pc = pc, !.via = h]
  <2>1. [serve EXCEPT ![s].pc = pc, ![s].via = h] = [serve EXCEPT ![s] = g]
    BY <1>a
  <2>2. g \in Serves /\ g.pc = pc /\ g.home = serve[s].home /\ g.via = h /\ g.f = serve[s].f
    BY <1>a DEF Serves
  <2> HIDE DEF g
  <2> QED
    BY <1>4, <2>1, <2>2, ServePut
<1>5. ASSUME serve' = [serve EXCEPT ![s].pc = pc, ![s].via = None, ![s].f = None]
      PROVE  ServeAt(s, pc, serve[s].home, None, None)
  <2> DEFINE g == [serve[s] EXCEPT !.pc = pc, !.via = None, !.f = None]
  <2>1. [serve EXCEPT ![s].pc = pc, ![s].via = None, ![s].f = None] = [serve EXCEPT ![s] = g]
    BY <1>a
  <2>2. g \in Serves /\ g.pc = pc /\ g.home = serve[s].home /\ g.via = None /\ g.f = None
    BY <1>a DEF Serves
  <2> HIDE DEF g
  <2> QED
    BY <1>5, <2>1, <2>2, ServePut
<1> QED
  BY <1>1, <1>2, <1>3, <1>4, <1>5

DemuxPCs == {"none", "read", "send", "end", "tear", "done"}

(* The updates of a session's task at the relay. *)
LEMMA DemuxMoves ==
  ASSUME ShapesOfRelay, NEW b \in Sessions, NEW pc \in DemuxPCs, NEW f \in Frames \cup {None},
         NEW T \in SUBSET Streams
  PROVE  /\ demux' = [demux EXCEPT ![b].pc = pc] => DemuxAt(b, pc, demux[b].f, demux[b].todo)
         /\ demux' = [demux EXCEPT ![b].pc = pc, ![b].f = f] => DemuxAt(b, pc, f, demux[b].todo)
         /\ demux' = [demux EXCEPT ![b].pc = pc, ![b].todo = T] => DemuxAt(b, pc, demux[b].f, T)
         /\ demux' = [demux EXCEPT ![b].todo = T] => DemuxAt(b, demux[b].pc, demux[b].f, T)
<1>a. demux \in [Sessions -> Demuxes] /\ demux[b] \in Demuxes
  BY DEF ShapesOfRelay
<1>1. ASSUME demux' = [demux EXCEPT ![b].pc = pc] PROVE DemuxAt(b, pc, demux[b].f, demux[b].todo)
  <2> DEFINE g == [demux[b] EXCEPT !.pc = pc]
  <2>1. [demux EXCEPT ![b].pc = pc] = [demux EXCEPT ![b] = g]
    BY <1>a
  <2>2. g \in Demuxes /\ g.pc = pc /\ g.f = demux[b].f /\ g.todo = demux[b].todo
    BY <1>a DEF Demuxes, DemuxPCs
  <2> HIDE DEF g
  <2> QED
    BY <1>1, <2>1, <2>2, DemuxPut
<1>2. ASSUME demux' = [demux EXCEPT ![b].pc = pc, ![b].f = f] PROVE DemuxAt(b, pc, f, demux[b].todo)
  <2> DEFINE g == [demux[b] EXCEPT !.pc = pc, !.f = f]
  <2>1. [demux EXCEPT ![b].pc = pc, ![b].f = f] = [demux EXCEPT ![b] = g]
    BY <1>a
  <2>2. g \in Demuxes /\ g.pc = pc /\ g.f = f /\ g.todo = demux[b].todo
    BY <1>a DEF Demuxes, DemuxPCs
  <2> HIDE DEF g
  <2> QED
    BY <1>2, <2>1, <2>2, DemuxPut
<1>3. ASSUME demux' = [demux EXCEPT ![b].pc = pc, ![b].todo = T] PROVE DemuxAt(b, pc, demux[b].f, T)
  <2> DEFINE g == [demux[b] EXCEPT !.pc = pc, !.todo = T]
  <2>1. [demux EXCEPT ![b].pc = pc, ![b].todo = T] = [demux EXCEPT ![b] = g]
    BY <1>a
  <2>2. g \in Demuxes /\ g.pc = pc /\ g.f = demux[b].f /\ g.todo = T
    BY <1>a DEF Demuxes, DemuxPCs
  <2> HIDE DEF g
  <2> QED
    BY <1>3, <2>1, <2>2, DemuxPut
<1>4. ASSUME demux' = [demux EXCEPT ![b].todo = T] PROVE DemuxAt(b, demux[b].pc, demux[b].f, T)
  <2> DEFINE g == [demux[b] EXCEPT !.todo = T]
  <2>1. [demux EXCEPT ![b].todo = T] = [demux EXCEPT ![b] = g]
    BY <1>a
  <2>2. g \in Demuxes /\ g.pc = demux[b].pc /\ g.f = demux[b].f /\ g.todo = T
    BY <1>a DEF Demuxes, DemuxPCs
  <2> HIDE DEF g
  <2> QED
    BY <1>4, <2>1, <2>2, DemuxPut
<1> QED
  BY <1>1, <1>2, <1>3, <1>4

LoopPCs == {"none", "read", "send", "refuse", "ended", "failed", "unknown"}

(* The updates of a session's loop at the bridge. *)
LEMMA SessionMoves ==
  ASSUME ShapesOfBridge, NEW b \in Sessions, NEW pc \in LoopPCs, NEW f \in Frames \cup {None}
  PROVE  /\ SessionTo(b, pc, f) => SessionAt(b, pc, f)
         /\ session' = [session EXCEPT ![b].pc = pc] => SessionAt(b, pc, session[b].f)
<1>a. session \in [Sessions -> Loops] /\ session[b] \in Loops
  BY DEF ShapesOfBridge
<1>1. ASSUME SessionTo(b, pc, f) PROVE SessionAt(b, pc, f)
  <2> DEFINE g == [pc |-> pc, f |-> f]
  <2>1. g \in Loops /\ g.pc = pc /\ g.f = f
    BY DEF Loops, LoopPCs
  <2>2. session' = [session EXCEPT ![b] = g]
    BY <1>1 DEF SessionTo
  <2> HIDE DEF g
  <2> QED
    BY <1>a, <2>1, <2>2 DEF SessionAt
<1>2. ASSUME session' = [session EXCEPT ![b].pc = pc] PROVE SessionAt(b, pc, session[b].f)
  <2> DEFINE g == [session[b] EXCEPT !.pc = pc]
  <2>1. [session EXCEPT ![b].pc = pc] = [session EXCEPT ![b] = g]
    BY <1>a
  <2>2. g \in Loops /\ g.pc = pc /\ g.f = session[b].f
    BY <1>a DEF Loops, LoopPCs
  <2> HIDE DEF g
  <2> QED
    BY <1>2, <1>a, <2>1, <2>2 DEF SessionAt
<1> QED
  BY <1>1, <1>2

-----------------------------------------------------------------------------
(* What leaves the two ways of a stream as they are. *)

(* The numbers of a stream. *)
LEMMA PipeTypes ==
  ASSUME ShapesOfChannels, NEW s \in Streams, NEW d \in {"up", "down"}
  PROVE  sent[<<s, d>>] \in Nat /\ got[<<s, d>>] \in Seq(Nat) /\ Len(got[<<s, d>>]) \in Nat
<1>1. <<s, d>> \in Pipes
  BY DEF Pipes
<1>2. sent[<<s, d>>] \in Nat /\ got[<<s, d>>] \in Seq(Nat)
  BY <1>1 DEF ShapesOfChannels
<1> QED
  BY <1>2

(* Whatever run of stream s the queue q holds, r holds too. *)
RunKept(q, r, s) == \A lo, hi \in Nat : Run(q, s, lo, hi) => Run(r, s, lo, hi)

(* A step moves no data of stream s on its way up, and its task, its session *)
(* and its writer do not begin anything.                                     *)
UpSteady(s) ==
  /\ sent'[<<s, "up">>] \in Nat /\ sent[<<s, "up">>] <= sent'[<<s, "up">>]
  /\ got'[<<s, "up">>] = got[<<s, "up">>] /\ RunKept(tcpq[s], tcpq'[s], s)
  /\ serve'[s].home = serve[s].home
  /\ \A b \in Sessions : serve[s].home = b /\ Alive(b)' /\ writer'[s] # "done" =>
       /\ Alive(b) /\ writer[s] # "done"
       /\ UpHand(b, s)' <=> UpHand(b, s)
       /\ UpHand(b, s) => session'[b].f.n = session[b].f.n
       /\ ~closed'[b] =>
            /\ ~closed[b] /\ RunKept(up[b], up'[b], s)
            /\ \A top \in Nat : UpTie(b, s, top) => UpTie(b, s, top)'

(* Such a step leaves the way up in order. *)
LEMMA UpKeep ==
  ASSUME ShapesOfChannels, ShapesOfRelay, NEW s \in Streams, UpAt(s), UpSteady(s)
  PROVE  UpAt(s)'
<1>1. sent[<<s, "up">>] \in Nat /\ Len(got[<<s, "up">>]) \in Nat
  BY PipeTypes
<1>2. PICK k \in 0..sent[<<s, "up">>] : Run(tcpq[s], s, Len(got[<<s, "up">>]), k) /\ UpLink(s, k)
  BY DEF UpAt
<1>3. Run(tcpq'[s], s, Len(got'[<<s, "up">>]), k) /\ k \in 0..sent'[<<s, "up">>]
  <2>1. k \in Nat
    BY <1>1
  <2>2. Run(tcpq'[s], s, Len(got[<<s, "up">>]), k)
    BY <1>1, <1>2, <2>1 DEF UpSteady, RunKept
  <2> QED
    BY <1>1, <2>2 DEF UpSteady
<1>4. ASSUME NEW b \in Sessions, serve'[s].home = b, Alive(b)', writer'[s] # "done"
      PROVE  /\ UpHand(b, s)' => session'[b].f.n = k + 1 /\ k + 1 <= sent'[<<s, "up">>]
             /\ ~closed'[b] =>
                  \E top \in 0..sent'[<<s, "up">>] :
                    /\ UpTie(b, s, top)'
                    /\ UpHand(b, s)' => Run(up'[b], s, k + 1, top)
                    /\ ~UpHand(b, s)' => Run(up'[b], s, k, top)
  <2>1. /\ serve[s].home = b /\ Alive(b) /\ writer[s] # "done"
        /\ UpHand(b, s)' <=> UpHand(b, s)
        /\ UpHand(b, s) => session'[b].f.n = session[b].f.n
        /\ ~closed'[b] =>
            /\ ~closed[b] /\ RunKept(up[b], up'[b], s)
            /\ \A top \in Nat : UpTie(b, s, top) => UpTie(b, s, top)'
    BY <1>4 DEF UpSteady
  <2>2. b # None
    BY TunnelAssumption DEF Sessions
  <2>3. /\ UpHand(b, s) => session[b].f.n = k + 1 /\ k + 1 <= sent[<<s, "up">>]
        /\ ~closed[b] =>
             \E top \in 0..sent[<<s, "up">>] :
               /\ UpTie(b, s, top)
               /\ UpHand(b, s) => Run(up[b], s, k + 1, top)
               /\ ~UpHand(b, s) => Run(up[b], s, k, top)
    BY <1>2, <2>1, <2>2 DEF UpLink
  <2>4. sent'[<<s, "up">>] \in Nat /\ sent[<<s, "up">>] <= sent'[<<s, "up">>]
    BY DEF UpSteady
  <2>5. ASSUME ~closed'[b]
        PROVE  \E top \in 0..sent'[<<s, "up">>] :
                 /\ UpTie(b, s, top)'
                 /\ UpHand(b, s)' => Run(up'[b], s, k + 1, top)
                 /\ ~UpHand(b, s)' => Run(up'[b], s, k, top)
    <3>1. PICK top \in 0..sent[<<s, "up">>] :
               /\ UpTie(b, s, top)
               /\ UpHand(b, s) => Run(up[b], s, k + 1, top)
               /\ ~UpHand(b, s) => Run(up[b], s, k, top)
      BY <2>1, <2>3, <2>5
    <3>2. top \in Nat /\ k \in Nat /\ k + 1 \in Nat /\ top \in 0..sent'[<<s, "up">>]
      BY <1>1, <2>4
    <3>3. UpTie(b, s, top)'
      BY <2>1, <2>5, <3>1, <3>2
    <3>4. UpHand(b, s)' => Run(up'[b], s, k + 1, top)
      BY <2>1, <2>5, <3>1, <3>2 DEF RunKept
    <3>5. ~UpHand(b, s)' => Run(up'[b], s, k, top)
      BY <2>1, <2>5, <3>1, <3>2 DEF RunKept
    <3> QED
      BY <3>2, <3>3, <3>4, <3>5
  <2> QED
    BY <1>1, <2>1, <2>3, <2>4, <2>5
<1>5. UpLink(s, k)'
  <2> SUFFICES ASSUME serve'[s].home # None, Alive(serve[s].home)', writer'[s] # "done"
               PROVE  UpLink(s, k)'
    BY DEF UpLink
  <2>1. serve[s] \in Serves /\ serve'[s].home = serve[s].home
    BY DEF ShapesOfRelay, UpSteady
  <2>2. PICK b \in Sessions : serve'[s].home = b
    BY <2>1 DEF Serves
  <2> QED
    BY <2>2, <1>4 DEF UpLink
<1> QED
  BY <1>3, <1>5 DEF UpAt

(* A writer that has stopped has got a prefix. *)
LEMMA UpStopped ==
  ASSUME ShapesOfChannels, NEW s \in Streams, UpAt(s), writer'[s] = "done", tcpq'[s] = <<>>,
         sent'[<<s, "up">>] = sent[<<s, "up">>], got'[<<s, "up">>] = got[<<s, "up">>]
  PROVE  UpAt(s)'
<1>1. sent[<<s, "up">>] \in Nat /\ Len(got[<<s, "up">>]) \in Nat
  BY PipeTypes
<1>2. PICK k \in 0..sent[<<s, "up">>] : Run(tcpq[s], s, Len(got[<<s, "up">>]), k)
  BY DEF UpAt
<1>3. Len(got[<<s, "up">>]) \in 0..sent'[<<s, "up">>]
  BY <1>1, <1>2 DEF Run
<1>4. Run(tcpq'[s], s, Len(got'[<<s, "up">>]), Len(got'[<<s, "up">>]))
  BY <1>1, RunEmpty
<1>5. UpLink(s, Len(got[<<s, "up">>]))'
  BY DEF UpLink
<1> QED
  BY <1>3, <1>4, <1>5 DEF UpAt

(* A step elsewhere leaves every way up in order. *)
LEMMA UpIdle ==
  ASSUME ShapesOfChannels, ShapesOfRelay, UpInv,
         UNCHANGED <<tcpq, serve, session, writer, closed, up, bridge>>,
         \A s \in Streams : sent'[<<s, "up">>] = sent[<<s, "up">>] /\ got'[<<s, "up">>] = got[<<s, "up">>]
  PROVE  UpInv'
<1> SUFFICES ASSUME NEW s \in Streams PROVE UpAt(s)'
  BY DEF UpInv
<1>0. sent[<<s, "up">>] \in Nat
  BY PipeTypes
<1>1. UpSteady(s)
  BY <1>0 DEF UpSteady, RunKept, Alive, UpHand, UpTie
<1> QED
  BY <1>1, UpKeep DEF UpInv

(* A step moves no data of stream s on its way down, and neither its place at *)
(* the relay nor its reader comes back.                                       *)
DownSteady(s) ==
  client'[s] # "gone" =>
    /\ client[s] # "gone" /\ RunKept(inbox[s], inbox'[s], s)
    /\ sent'[<<s, "down">>] \in Nat /\ sent[<<s, "down">>] <= sent'[<<s, "down">>]
    /\ got'[<<s, "down">>] = got[<<s, "down">>] /\ owner'[s] = owner[s]
    /\ \A b \in Sessions :
         owner[s] = b /\ demux'[b].pc \in {"read", "send"} /\ (s \in streams' \/ DownHand(b, s)') =>
           /\ demux[b].pc \in {"read", "send"} /\ (s \in streams \/ DownHand(b, s))
           /\ DownHand(b, s)' <=> DownHand(b, s)
           /\ DownHand(b, s) => demux'[b].f.n = demux[b].f.n
           /\ RunKept(down[b], down'[b], s)
           /\ \A top \in Nat : DownTie(b, s, top) => DownTie(b, s, top)'

(* Such a step leaves the way down in order. *)
LEMMA DownKeep ==
  ASSUME ShapesOfChannels, ShapesOfBridge, NEW s \in Streams, DownAt(s), DownSteady(s)
  PROVE  DownAt(s)'
<1> SUFFICES ASSUME client'[s] # "gone" PROVE DownAt(s)'
  BY DEF DownAt
<1>1. sent[<<s, "down">>] \in Nat /\ Len(got[<<s, "down">>]) \in Nat
  BY PipeTypes
<1>2. PICK k \in 0..sent[<<s, "down">>] :
        Run(inbox[s], s, Len(got[<<s, "down">>]), k) /\ DownLink(s, k)
  BY DEF DownAt, DownSteady
<1>3. Run(inbox[s], s, Len(got[<<s, "down">>]), k)' /\ k \in 0..sent'[<<s, "down">>]
  <2>1. k \in Nat
    BY <1>1
  <2>2. Run(inbox'[s], s, Len(got[<<s, "down">>]), k)
    BY <1>1, <1>2, <2>1 DEF DownSteady, RunKept
  <2> QED
    BY <1>1, <2>2 DEF DownSteady
<1>4. ASSUME NEW b \in Sessions, owner'[s] = b, demux'[b].pc \in {"read", "send"},
             s \in streams' \/ DownHand(b, s)'
      PROVE  \E top \in 0..sent'[<<s, "down">>] :
               /\ DownTie(b, s, top)'
               /\ DownHand(b, s)' => demux'[b].f.n = k + 1 /\ Run(down'[b], s, k + 1, top)
               /\ ~DownHand(b, s)' => Run(down'[b], s, k, top)
  <2>1. /\ owner[s] = b
        /\ demux[b].pc \in {"read", "send"} /\ (s \in streams \/ DownHand(b, s))
        /\ DownHand(b, s)' <=> DownHand(b, s)
        /\ DownHand(b, s) => demux'[b].f.n = demux[b].f.n
        /\ RunKept(down[b], down'[b], s)
        /\ \A top \in Nat : DownTie(b, s, top) => DownTie(b, s, top)'
    BY <1>4 DEF DownSteady
  <2>2. b # None
    BY TunnelAssumption DEF Sessions
  <2>3. PICK top \in 0..sent[<<s, "down">>] :
          /\ DownTie(b, s, top)
          /\ DownHand(b, s) => demux[b].f.n = k + 1 /\ Run(down[b], s, k + 1, top)
          /\ ~DownHand(b, s) => Run(down[b], s, k, top)
    BY <1>2, <2>1, <2>2 DEF DownLink
  <2>4. sent'[<<s, "down">>] \in Nat /\ sent[<<s, "down">>] <= sent'[<<s, "down">>]
    BY DEF DownSteady
  <2>5. top \in Nat /\ k \in Nat /\ k + 1 \in Nat /\ top \in 0..sent'[<<s, "down">>]
    BY <1>1, <2>4
  <2>6. DownTie(b, s, top)'
    BY <2>1, <2>3, <2>5
  <2>7. DownHand(b, s)' => demux'[b].f.n = k + 1 /\ Run(down'[b], s, k + 1, top)
    BY <2>1, <2>3, <2>5 DEF RunKept
  <2>8. ~DownHand(b, s)' => Run(down'[b], s, k, top)
    BY <2>1, <2>3, <2>5 DEF RunKept
  <2> QED
    BY <2>5, <2>6, <2>7, <2>8
<1>5. DownLink(s, k)'
  <2> SUFFICES ASSUME owner'[s] # None, demux'[owner'[s]].pc \in {"read", "send"},
                      s \in streams' \/ DownHand(owner[s], s)'
               PROVE  DownLink(s, k)'
    BY DEF DownLink
  <2>1. PICK b \in Sessions : owner'[s] = b
    BY DEF ShapesOfBridge, DownSteady
  <2> QED
    BY <2>1, <1>4 DEF DownLink
<1> QED
  BY <1>3, <1>5 DEF DownAt

(* A step elsewhere leaves every way down in order. *)
LEMMA DownIdle ==
  ASSUME ShapesOfChannels, ShapesOfBridge, DownInv,
         UNCHANGED <<inbox, owner, demux, streams, down, link, reader>>,
         \A s \in Streams : /\ sent'[<<s, "down">>] = sent[<<s, "down">>]
                            /\ got'[<<s, "down">>] = got[<<s, "down">>]
                            /\ client'[s] # "gone" => client[s] # "gone"
  PROVE  DownInv'
<1> SUFFICES ASSUME NEW s \in Streams PROVE DownAt(s)'
  BY DEF DownInv
<1>0. sent[<<s, "down">>] \in Nat
  BY PipeTypes
<1>1. DownSteady(s)
  BY <1>0 DEF DownSteady, RunKept, DownHand, DownTie
<1> QED
  BY <1>1, DownKeep DEF DownInv

(* The task of a stream goes on: it stays announced, to the same session. *)
ServeForward ==
  \A s \in Streams :
    /\ serve'[s].home = serve[s].home
    /\ serve[s].pc \notin Unannounced => serve'[s].pc \notin Unannounced
    /\ serve'[s].pc \in Unannounced \cup {"opened"} => serve[s].pc \in Unannounced \cup {"opened"}

(* With the same owners, what was sent to and by a session stays right. *)
LEMMA FramesKeep ==
  ASSUME NEW b \in Sessions, ShapesOfChannels, owner' = owner, ServeForward
  PROVE  /\ UpFrames(b) /\ up'[b] = up[b] => UpFrames(b)'
         /\ DownFrames(b) /\ down'[b] = down[b] => DownFrames(b)'
<1>1. \A i \in 1..Len(up[b]) : up[b][i].s \in Streams
  <2>1. \A i \in 1..Len(up[b]) : up[b][i] \in Frames
    BY DEF ShapesOfChannels
  <2> QED
    BY <2>1 DEF Frames
<1>2. ASSUME UpFrames(b), up'[b] = up[b] PROVE UpFrames(b)'
  BY <1>1, <1>2 DEF UpFrames, ServeForward
<1> QED
  BY <1>2 DEF DownFrames

(* A step of a stream's task, or of a session's that takes nothing new in hand. *)
LEMMA OwnerIdle ==
  ASSUME ShapesOfChannels, OwnerInv, ServeForward,
         UNCHANGED <<up, down, session, known, owner, writer, tcpq, reader>>,
         \A b \in Sessions : demux'[b].pc = "send" => demux[b].pc = "send" /\ demux'[b].f = demux[b].f,
         \A s \in Streams :
           /\ sent'[<<s, "down">>] = sent[<<s, "down">>]
           /\ serve'[s].pc \in Unannounced \cup {"opened"} => sent'[<<s, "up">>] = sent[<<s, "up">>]
  PROVE  OwnerInv'
<1>1. ASSUME NEW b \in Sessions PROVE UpFrames(b)' /\ DownFrames(b)'
  BY FramesKeep DEF OwnerInv
<1>2. ASSUME NEW b \in Sessions PROVE Holds(b)'
  BY DEF OwnerInv, Holds
<1>3. ASSUME NEW s \in Streams PROVE Owned(s)'
  BY DEF OwnerInv, Owned, ServeForward
<1> QED
  BY <1>1, <1>2, <1>3 DEF OwnerInv

-----------------------------------------------------------------------------
(* The tasks of a stream at the bridge. *)

(* Steps of the writer and the reader that leave the queues alone. *)
LEMMA TcpTask ==
  ASSUME IInv, NEW s \in Streams, ShapesOfChannels', ShapesOfBridge',
         UNCHANGED <<relayVars, session, known, tcpq, owner, up, down, inbox, link, client, got>>,
         \A r \in Streams \ {s} : writer'[r] = writer[r] /\ reader'[r] = reader[r],
         \A r \in Streams \ {s} : sent'[<<r, "down">>] = sent[<<r, "down">>],
         \A r \in Streams : sent'[<<r, "up">>] = sent[<<r, "up">>],
         sent[<<s, "down">>] <= sent'[<<s, "down">>],
         writer[s] # "none", writer'[s] # "none", writer'[s] # "done" => writer[s] # "done",
         writer'[s] \in {"connecting", "failing"} => reader'[s] = "none",
         \A b \in Sessions : \A top \in Nat : DownTie(b, s, top) => DownTie(b, s, top)'
  PROVE  IInv'
<1>1. Shapes'
  BY DEF IInv, Shapes, ShapesOfRelay, relayVars
<1>2. QueueInv' /\ LockInv' /\ LinkInv' /\ PlaceInv'
  BY DEF IInv, QueueInv, LockInv, LinkInv, PlaceInv, relayVars
<1>3. HandInv'
  BY DEF IInv, HandInv, relayVars
<1>4. OwnerInv'
  <2>1. ServeForward
    BY DEF ServeForward, relayVars
  <2>2. ASSUME NEW b \in Sessions PROVE UpFrames(b)' /\ DownFrames(b)' /\ Holds(b)'
    BY <2>1, FramesKeep DEF IInv, Shapes, OwnerInv, Holds, relayVars
  <2>3. ASSUME NEW r \in Streams PROVE Owned(r)'
    BY DEF IInv, OwnerInv, Owned, relayVars
  <2> QED
    BY <2>2, <2>3 DEF OwnerInv
<1>5. UpInv'
  <2> SUFFICES ASSUME NEW r \in Streams PROVE UpAt(r)'
    BY DEF UpInv
  <2>1. sent[<<r, "up">>] \in Nat
    BY PipeTypes DEF IInv, Shapes
  <2>2. UpSteady(r)
    BY <2>1 DEF UpSteady, RunKept, Alive, UpHand, UpTie, relayVars
  <2> QED
    BY <2>2, UpKeep DEF IInv, Shapes, UpInv
<1>6. DownInv'
  <2> SUFFICES ASSUME NEW r \in Streams PROVE DownAt(r)'
    BY DEF DownInv
  <2>1. sent[<<r, "down">>] \in Nat
    BY PipeTypes DEF IInv, Shapes
  <2>2. sent'[<<r, "down">>] \in Nat
    BY <1>1, <2>1 DEF Shapes, ShapesOfChannels, Pipes
  <2>3. ASSUME NEW b \in Sessions, NEW top \in Nat PROVE DownTie(b, r, top) => DownTie(b, r, top)'
    <3>1. CASE r = s
      BY <3>1
    <3>2. CASE r # s
      BY <3>2 DEF DownTie
    <3> QED
      BY <3>1, <3>2
  <2>4. DownSteady(r)
    BY <2>1, <2>2, <2>3 DEF DownSteady, RunKept, DownHand, relayVars
  <2> QED
    BY <2>4, DownKeep DEF IInv, Shapes, DownInv
<1> QED
  BY <1>1, <1>2, <1>3, <1>4, <1>5, <1>6 DEF IInv

(* The connection to the Authority opens or does not. *)
LEMMA ConnectKeeps ==
  ASSUME IInv, NEW s \in Streams, ConnectUpstream(s) \/ ConnectFails(s), UNCHANGED relayVars
  PROVE  IInv'
<1>1. /\ UNCHANGED <<relayVars, session, known, tcpq, owner, up, down, inbox, link, client, got, sent>>
      /\ writer[s] = "connecting"
  BY DEF ConnectUpstream, ConnectFails, channelVars
<1>2. reader[s] = "none"
  BY <1>1 DEF IInv, OwnerInv, Owned
<1>3. /\ ShapesOfChannels' /\ ShapesOfBridge'
      /\ \A r \in Streams \ {s} : writer'[r] = writer[r] /\ reader'[r] = reader[r]
      /\ writer'[s] \in {"on", "failing"}
      /\ writer'[s] = "failing" => reader'[s] = reader[s]
      /\ reader'[s] \in {"none", "on"}
  <2>1. ShapesOfChannels'
    BY <1>1 DEF IInv, Shapes, ShapesOfChannels
  <2>2. CASE ConnectUpstream(s)
    BY <1>1, <1>2, <2>1, <2>2 DEF ConnectUpstream, IInv, Shapes, ShapesOfBridge
  <2>3. CASE ConnectFails(s)
    BY <1>1, <1>2, <2>1, <2>3 DEF ConnectFails, IInv, Shapes, ShapesOfBridge
  <2> QED
    BY <2>2, <2>3
<1>4. ASSUME NEW b \in Sessions, NEW top \in Nat PROVE DownTie(b, s, top) => DownTie(b, s, top)'
  BY <1>1, <1>2, <1>3 DEF DownTie
<1>5. sent[<<s, "down">>] \in Nat
  BY PipeTypes DEF IInv, Shapes
<1> QED
  BY <1>1, <1>2, <1>3, <1>4, <1>5, TcpTask

(* The reader takes a frame from the Authority, fails, or finds the writer gone. *)
LEMMA ReaderKeeps ==
  ASSUME IInv, NEW s \in Streams, ReadUpstream(s) \/ ReadFails(s) \/ StopReader(s), UNCHANGED relayVars
  PROVE  IInv'
<1>1. UNCHANGED <<relayVars, session, known, tcpq, owner, writer, up, down, inbox, link, client, got>>
  BY DEF ReadUpstream, ReadFails, StopReader, channelVars
<1>2. reader[s] = "on" /\ writer[s] \in {"on", "done"}
  BY DEF ReadUpstream, ReadFails, StopReader
<1>3. sent[<<s, "down">>] \in Nat /\ <<s, "down">> \in Pipes
  BY PipeTypes DEF IInv, Shapes, Pipes
<1>4. /\ ShapesOfChannels' /\ ShapesOfBridge'
      /\ \A r \in Streams \ {s} : writer'[r] = writer[r] /\ reader'[r] = reader[r]
      /\ \A r \in Streams \ {s} : sent'[<<r, "down">>] = sent[<<r, "down">>]
      /\ \A r \in Streams : sent'[<<r, "up">>] = sent[<<r, "up">>]
      /\ \/ sent'[<<s, "down">>] = sent[<<s, "down">>] + 1 /\ reader'[s] \in {"send", "last"}
         \/ sent'[<<s, "down">>] = sent[<<s, "down">>] /\ reader'[s] \in {"error", "done"}
  <2>1. CASE ReadUpstream(s)
    <3>1. PICK pc \in {"send", "last"} : reader' = [reader EXCEPT ![s] = pc]
      BY <2>1 DEF ReadUpstream
    <3>2. /\ ShapesOfBridge' /\ \A r \in Streams \ {s} : reader'[r] = reader[r]
          /\ reader'[s] \in {"send", "last"}
      BY <1>1, <3>1 DEF IInv, Shapes, ShapesOfBridge
    <3>3. sent' = [sent EXCEPT ![<<s, "down">>] = @ + 1]
      BY <2>1 DEF ReadUpstream
    <3>4. ShapesOfChannels'
      BY <1>1, <1>3, <3>3 DEF IInv, Shapes, ShapesOfChannels
    <3>5. sent \in [Pipes -> Nat] /\ \A r \in Streams : <<r, "down">> \in Pipes /\ <<r, "up">> \in Pipes
      BY DEF IInv, Shapes, ShapesOfChannels, Pipes
    <3> QED
      BY <1>1, <1>3, <3>2, <3>3, <3>4, <3>5
  <2>2. CASE ReadFails(s) \/ StopReader(s)
    <3>1. sent' = sent /\ \E pc \in {"error", "done"} : reader' = [reader EXCEPT ![s] = pc]
      BY <2>2 DEF ReadFails, StopReader, channelVars
    <3> QED
      BY <1>1, <3>1 DEF IInv, Shapes, ShapesOfChannels, ShapesOfBridge
  <2> QED
    BY <2>1, <2>2
<1>5. ASSUME NEW b \in Sessions, NEW top \in Nat PROVE DownTie(b, s, top) => DownTie(b, s, top)'
  BY <1>1, <1>2, <1>3, <1>4 DEF DownTie
<1>6. /\ writer[s] # "none" /\ writer'[s] # "none"
      /\ writer'[s] # "done" => writer[s] # "done"
      /\ writer'[s] \notin {"connecting", "failing"}
      /\ sent[<<s, "down">>] <= sent'[<<s, "down">>]
  BY <1>1, <1>2, <1>3, <1>4
<1> QED
  BY <1>1, <1>4, <1>5, <1>6, TcpTask

(* A stream that has an owner, which has been connected. *)
LEMMA OwnerOf ==
  ASSUME IInv, NEW s \in Streams, writer[s] # "none" \/ reader[s] # "none"
  PROVE  owner[s] \in Sessions /\ owner[s] # None /\ link[owner[s]] \in {"up", "broken"}
         /\ writer[s] # "none"
<1>1. writer[s] # "none" /\ owner[s] # None
  BY DEF IInv, OwnerInv, Owned
<1>2. owner[s] \in Sessions /\ serve[s].home = owner[s]
  BY <1>1 DEF IInv, Shapes, ShapesOfBridge, OwnerInv, Owned
<1>3. link[owner[s]] # "none"
  BY <1>1, <1>2 DEF IInv, LinkInv
<1> QED
  BY <1>1, <1>2, <1>3 DEF IInv, Shapes, ShapesOfChannels

(* The queue to the relay with a frame of the bridge, or as it was. *)
LEMMA ToRelayEffect ==
  ASSUME IInv, NEW b \in Sessions, NEW f \in Frames, ToRelay(b, f)
  PROVE  /\ down' \in [Sessions -> Seq(Frames)]
         /\ \A a \in Sessions \ {b} : down'[a] = down[a]
         /\ \A a \in Sessions : Len(down'[a]) <= BridgeCap
         /\ \/ link[b] = "broken" /\ down' = down
            \/ link[b] = "up" /\ down'[b] = Append(down[b], f)
<1>1. down \in [Sessions -> Seq(Frames)] /\ \A a \in Sessions : Len(down[a]) <= BridgeCap
  BY DEF IInv, Shapes, ShapesOfChannels, QueueInv
<1>2. CASE link[b] = "broken" /\ down' = down
  BY <1>1, <1>2
<1>3. CASE /\ link[b] = "up" /\ Room(down[b], BridgeCap)
           /\ down' = [down EXCEPT ![b] = Append(@, f)]
  <2>1. /\ Append(down[b], f) \in Seq(Frames) /\ Len(down[b]) \in Nat
        /\ Len(Append(down[b], f)) = Len(down[b]) + 1
    BY <1>1, QueueAppend
  <2>2. Len(Append(down[b], f)) <= BridgeCap
    BY <1>3, <2>1, TunnelAssumption DEF Room
  <2> QED
    BY <1>1, <1>3, <2>1, <2>2
<1> QED
  BY <1>2, <1>3 DEF ToRelay

(* A frame that is not the stream's data leaves the stream's runs. *)
LEMMA RunKeeps ==
  ASSUME NEW q \in Seq(Frames), NEW s \in Streams
  PROVE  /\ RunKept(q, q, s)
         /\ \A f \in Frames : ~IsData(f, s) => RunKept(q, Append(q, f), s)
         /\ q # <<>> /\ ~IsData(Head(q), s) => RunKept(q, Tail(q), s)
<1>1. ASSUME NEW f \in Frames, ~IsData(f, s) PROVE RunKept(q, Append(q, f), s)
  BY <1>1, RunAppendOther DEF RunKept
<1>2. ASSUME q # <<>>, ~IsData(Head(q), s) PROVE RunKept(q, Tail(q), s)
  BY <1>2, RunTailOther DEF RunKept
<1> QED
  BY <1>1, <1>2 DEF RunKept

(* A frame of its own goes to the frames a session sends. *)
LEMMA DownFramesAppend ==
  ASSUME ShapesOfChannels, NEW b \in Sessions, NEW f \in Frames, DownFrames(b), owner' = owner,
         f.kind = "data" => owner[f.s] = b, down'[b] = Append(down[b], f)
  PROVE  DownFrames(b)'
<1>1. /\ Len(down[b]) \in Nat /\ Len(down'[b]) = Len(down[b]) + 1
      /\ \A i \in 1..Len(down[b]) : down'[b][i] = down[b][i]
      /\ down'[b][Len(down[b]) + 1] = f
  BY QueueAppend DEF ShapesOfChannels
<1>2. \A i \in 1..Len(down'[b]) : i \in 1..Len(down[b]) \/ i = Len(down[b]) + 1
  BY <1>1
<1> QED
  BY <1>1, <1>2 DEF DownFrames

(* A step of a stream's task at the bridge that sends to the relay what is no data: *)
(* nothing on the way down is disturbed.                                           *)
LEMMA DownOther ==
  ASSUME IInv, NEW b \in Sessions, NEW f \in Frames, ToRelay(b, f), f.kind # "data",
         UNCHANGED <<client, sent, inbox, owner, demux, streams, link>>,
         \A s \in Streams : got'[<<s, "down">>] = got[<<s, "down">>],
         \A a \in Sessions : \A s \in Streams : \A top \in Nat : DownTie(a, s, top) => DownTie(a, s, top)'
  PROVE  DownInv' /\ \A a \in Sessions : DownFrames(a)'
<1>1. /\ down \in [Sessions -> Seq(Frames)] /\ down' \in [Sessions -> Seq(Frames)]
      /\ \A a \in Sessions \ {b} : down'[a] = down[a]
      /\ down'[b] = down[b] \/ down'[b] = Append(down[b], f)
  BY ToRelayEffect DEF IInv, Shapes, ShapesOfChannels
<1>2. ASSUME NEW a \in Sessions PROVE DownFrames(a)'
  <2>1. CASE down'[a] = down[a]
    BY <2>1 DEF IInv, OwnerInv, DownFrames
  <2>2. CASE a = b /\ down'[b] = Append(down[b], f)
    BY <2>2, DownFramesAppend DEF IInv, Shapes, OwnerInv
  <2> QED
    BY <1>1, <2>1, <2>2
<1>3. ASSUME NEW s \in Streams PROVE DownAt(s)'
  <2>1. sent[<<s, "down">>] \in Nat
    BY PipeTypes DEF IInv, Shapes
  <2>2. ASSUME NEW a \in Sessions PROVE RunKept(down[a], down'[a], s)
    <3>1. ~IsData(f, s) /\ down[a] \in Seq(Frames)
      BY <1>1 DEF IsData
    <3> QED
      BY <3>1, <1>1, RunKeeps
  <2>3. DownSteady(s)
    <3>1. RunKept(inbox[s], inbox'[s], s)
      BY DEF RunKept
    <3>2. sent'[<<s, "down">>] \in Nat /\ sent[<<s, "down">>] <= sent'[<<s, "down">>]
      BY <2>1
    <3>3. \A a \in Sessions : demux'[a] = demux[a] /\ (DownHand(a, s)' <=> DownHand(a, s))
      BY DEF DownHand
    <3> QED
      BY <2>2, <3>1, <3>2, <3>3 DEF DownSteady
  <2> QED
    BY <2>3, DownKeep DEF IInv, Shapes, DownInv
<1> QED
  BY <1>2, <1>3 DEF DownInv

(* The writer ends: its queue and the session's entry go. *)
LEMMA WriterStops ==
  ASSUME IInv, NEW s \in Streams, StopWriter(s), writer[s] # "none",
         UNCHANGED <<relayVars, session, owner, reader, up, inbox, link, client, sent, got>>,
         down' \in [Sessions -> Seq(Frames)], \A a \in Sessions : Len(down'[a]) <= BridgeCap,
         DownInv', \A a \in Sessions : DownFrames(a)'
  PROVE  IInv'
<1>0. owner[s] \in Sessions
  BY OwnerOf
<1>1. /\ writer' = [writer EXCEPT ![s] = "done"]
      /\ tcpq' = [tcpq EXCEPT ![s] = <<>>]
      /\ known' = [known EXCEPT ![owner[s]] = @ \ {s}]
  BY DEF StopWriter, Forget
<1>2. /\ tcpq \in [Streams -> Seq(Frames)] /\ writer \in [Streams -> {"none", "connecting", "on", "failing", "done"}]
      /\ known \in [Sessions -> SUBSET Streams]
  BY DEF IInv, Shapes, ShapesOfBridge
<1>3. /\ tcpq' \in [Streams -> Seq(Frames)] /\ tcpq'[s] = <<>>
      /\ \A r \in Streams \ {s} : tcpq'[r] = tcpq[r]
  BY <1>1, <1>2
<1>4. /\ writer' \in [Streams -> {"none", "connecting", "on", "failing", "done"}] /\ writer'[s] = "done"
      /\ \A r \in Streams \ {s} : writer'[r] = writer[r]
  BY <1>1, <1>2
<1>5. known' \in [Sessions -> SUBSET Streams] /\ \A b \in Sessions : known'[b] \subseteq known[b]
  BY <1>0, <1>1, <1>2
<1>6. Shapes'
  BY <1>3, <1>4, <1>5 DEF IInv, Shapes, ShapesOfRelay, ShapesOfChannels, ShapesOfBridge, relayVars
<1>7. QueueInv'
  <2>1. Len(<<>>) <= BridgeCap /\ OfStream(<<>>, s)
    BY TunnelAssumption DEF OfStream
  <2> QED
    BY <1>3, <2>1 DEF IInv, QueueInv
<1>8. LockInv' /\ LinkInv' /\ PlaceInv' /\ HandInv'
  BY DEF IInv, LockInv, LinkInv, PlaceInv, HandInv, relayVars
<1>9. OwnerInv'
  <2>1. ServeForward
    BY DEF ServeForward, relayVars
  <2>2. ASSUME NEW b \in Sessions PROVE UpFrames(b)' /\ Holds(b)'
    BY <2>1, <1>5, FramesKeep DEF IInv, Shapes, OwnerInv, Holds, relayVars
  <2>3. ASSUME NEW r \in Streams PROVE Owned(r)'
    BY <1>3, <1>4 DEF IInv, OwnerInv, Owned, relayVars
  <2> QED
    BY <2>2, <2>3 DEF OwnerInv
<1>10. UpInv'
  <2> SUFFICES ASSUME NEW r \in Streams PROVE UpAt(r)'
    BY DEF UpInv
  <2>1. CASE r = s
    BY <2>1, <1>3, <1>4, UpStopped DEF IInv, Shapes, UpInv
  <2>2. CASE r # s
    <3>1. sent[<<r, "up">>] \in Nat
      BY PipeTypes DEF IInv, Shapes
    <3>2. UpSteady(r)
      BY <2>2, <3>1, <1>3, <1>4 DEF UpSteady, RunKept, Alive, UpHand, UpTie, relayVars
    <3> QED
      BY <3>2, UpKeep DEF IInv, Shapes, UpInv
  <2> QED
    BY <2>1, <2>2
<1> QED
  BY <1>6, <1>7, <1>8, <1>9, <1>10 DEF IInv

(* A frame that carries no data. *)
LEMMA PlainFrame ==
  ASSUME NEW s \in Streams, NEW kind \in {"accepted", "opened", "closed", "error", "left"}
  PROVE  Frame(kind, s) \in Frames /\ Frame(kind, s).kind = kind /\ Frame(kind, s).s = s
         /\ Frame(kind, s).kind # "data"
BY DEF Frame, Frames

(* The connection to the Authority failed. *)
LEMMA UpstreamFailedKeeps ==
  ASSUME IInv, NEW s \in Streams, UpstreamFailed(s), UNCHANGED relayVars
  PROVE  IInv'
<1>1. /\ UNCHANGED <<relayVars, session, owner, reader, up, inbox, link, client, sent, got>>
      /\ StopWriter(s) /\ writer[s] # "none" /\ ToRelay(owner[s], Frame("error", s))
  BY DEF UpstreamFailed, StopWriter
<1>2. owner[s] \in Sessions
  BY <1>1, OwnerOf
<1>3. Frame("error", s) \in Frames /\ Frame("error", s).kind # "data"
  BY PlainFrame
<1>4. down' \in [Sessions -> Seq(Frames)] /\ \A a \in Sessions : Len(down'[a]) <= BridgeCap
  BY <1>1, <1>2, <1>3, ToRelayEffect
<1>5. \A a \in Sessions : \A r \in Streams : \A top \in Nat : DownTie(a, r, top) => DownTie(a, r, top)'
  BY <1>1 DEF DownTie
<1>6. DownInv' /\ \A a \in Sessions : DownFrames(a)'
  BY <1>1, <1>2, <1>3, <1>5, DownOther DEF relayVars
<1> QED
  BY <1>1, <1>4, <1>6, WriterStops

(* A step that leaves the way down of every stream leaves what sessions sent. *)
LEMMA DownSame ==
  ASSUME IInv, UNCHANGED <<down, inbox, owner, demux, streams, link, reader, client>>,
         \A s \in Streams : sent'[<<s, "down">>] = sent[<<s, "down">>] /\ got'[<<s, "down">>] = got[<<s, "down">>]
  PROVE  /\ DownInv' /\ \A a \in Sessions : DownFrames(a)'
         /\ down' \in [Sessions -> Seq(Frames)] /\ \A a \in Sessions : Len(down'[a]) <= BridgeCap
<1>1. DownInv'
  BY DownIdle DEF IInv, Shapes
<1>2. \A a \in Sessions : DownFrames(a)'
  BY DEF IInv, OwnerInv, DownFrames
<1> QED
  BY <1>1, <1>2 DEF IInv, Shapes, ShapesOfChannels, QueueInv

(* A write fails. *)
LEMMA WriteFailsKeeps ==
  ASSUME IInv, NEW s \in Streams, WriteFails(s), UNCHANGED relayVars
  PROVE  IInv'
<1>1. /\ UNCHANGED <<relayVars, session, owner, reader, up, down, inbox, link, client, sent, got>>
      /\ StopWriter(s) /\ writer[s] # "none"
  BY DEF WriteFails, channelVars
<1>2. /\ DownInv' /\ \A a \in Sessions : DownFrames(a)'
      /\ down' \in [Sessions -> Seq(Frames)] /\ \A a \in Sessions : Len(down'[a]) <= BridgeCap
  BY <1>1, DownSame DEF relayVars
<1> QED
  BY <1>1, <1>2, WriterStops

(* One number out of a pipe, or into it. *)
LEMMA PipeMoves ==
  ASSUME ShapesOfChannels, NEW s \in Streams, NEW d \in {"up", "down"}, NEW n \in Nat
  PROVE  /\ got' = [got EXCEPT ![<<s, d>>] = Append(@, n)] =>
              /\ got' \in [Pipes -> Seq(Nat)] /\ got'[<<s, d>>] = Append(got[<<s, d>>], n)
              /\ Len(got'[<<s, d>>]) = Len(got[<<s, d>>]) + 1
              /\ \A r \in Streams : \A e \in {"up", "down"} :
                   r # s \/ e # d => got'[<<r, e>>] = got[<<r, e>>]
         /\ sent' = [sent EXCEPT ![<<s, d>>] = @ + 1] =>
              /\ sent' \in [Pipes -> Nat] /\ sent'[<<s, d>>] = sent[<<s, d>>] + 1
              /\ \A r \in Streams : \A e \in {"up", "down"} :
                   r # s \/ e # d => sent'[<<r, e>>] = sent[<<r, e>>]
<1>1. /\ <<s, d>> \in Pipes /\ \A r \in Streams : \A e \in {"up", "down"} : <<r, e>> \in Pipes
      /\ \A r \in Streams : \A e \in {"up", "down"} : r # s \/ e # d => <<r, e>> # <<s, d>>
  BY DEF Pipes
<1>2. got \in [Pipes -> Seq(Nat)] /\ sent \in [Pipes -> Nat]
  BY DEF ShapesOfChannels
<1>4. got[<<s, d>>] \in Seq(Nat)
  BY <1>1, <1>2
<1>5. /\ Append(got[<<s, d>>], n) \in Seq(Nat)
      /\ Len(Append(got[<<s, d>>], n)) = Len(got[<<s, d>>]) + 1
  BY <1>4
<1>3. ASSUME got' = [got EXCEPT ![<<s, d>>] = Append(@, n)]
      PROVE  /\ got' \in [Pipes -> Seq(Nat)] /\ got'[<<s, d>>] = Append(got[<<s, d>>], n)
             /\ \A r \in Streams : \A e \in {"up", "down"} :
                   r # s \/ e # d => got'[<<r, e>>] = got[<<r, e>>]
  <2> DEFINE g == Append(got[<<s, d>>], n)
  <2>1. got' = [got EXCEPT ![<<s, d>>] = g] /\ g \in Seq(Nat)
    BY <1>3, <1>5
  <2> HIDE DEF g
  <2>2. /\ got' \in [Pipes -> Seq(Nat)] /\ got'[<<s, d>>] = g
        /\ \A p \in Pipes : p # <<s, d>> => got'[p] = got[p]
    BY <1>1, <1>2, <2>1
  <2>3. g = Append(got[<<s, d>>], n)
    BY DEF g
  <2> QED
    BY <1>1, <2>2, <2>3
<1>6. ASSUME sent' = [sent EXCEPT ![<<s, d>>] = @ + 1]
      PROVE  /\ sent' \in [Pipes -> Nat] /\ sent'[<<s, d>>] = sent[<<s, d>>] + 1
             /\ \A r \in Streams : \A e \in {"up", "down"} :
                   r # s \/ e # d => sent'[<<r, e>>] = sent[<<r, e>>]
  BY <1>1, <1>2, <1>6
<1> QED
  BY <1>3, <1>5, <1>6

(* The Authority gets the next frame, or the writer ends. *)
LEMMA WriteUpstreamKeeps ==
  ASSUME IInv, NEW s \in Streams, WriteUpstream(s), UNCHANGED relayVars
  PROVE  IInv'
<1>1. /\ UNCHANGED <<relayVars, session, owner, reader, up, down, inbox, link, client, sent>>
      /\ writer[s] = "on"
  BY DEF WriteUpstream
<1>2. CASE StopWriter(s) /\ got' = got
  <2>1. /\ DownInv' /\ \A a \in Sessions : DownFrames(a)'
        /\ down' \in [Sessions -> Seq(Frames)] /\ \A a \in Sessions : Len(down'[a]) <= BridgeCap
    BY <1>1, <1>2, DownSame DEF relayVars
  <2> QED
    BY <1>1, <1>2, <2>1, WriterStops
<1>3. CASE /\ tcpq[s] # <<>> /\ Head(tcpq[s]).kind = "data"
           /\ got' = [got EXCEPT ![<<s, "up">>] = Append(@, Head(tcpq[s]).n)]
           /\ tcpq' = [tcpq EXCEPT ![s] = Tail(@)]
           /\ UNCHANGED <<writer, known>>
  <2>1. tcpq \in [Streams -> Seq(Frames)] /\ tcpq[s] \in Seq(Frames)
    BY DEF IInv, Shapes, ShapesOfBridge
  <2>2. /\ Head(tcpq[s]) \in Frames /\ Tail(tcpq[s]) \in Seq(Frames)
        /\ Len(Tail(tcpq[s])) = Len(tcpq[s]) - 1 /\ Len(tcpq[s]) \in Nat
    BY <1>3, <2>1, QueueTail
  <2>3. OfStream(Tail(tcpq[s]), s) /\ Head(tcpq[s]).s = s /\ Head(tcpq[s]).n \in Nat
    BY <1>3, <2>1, <2>2, OfStreamKeeps DEF IInv, QueueInv, Frames
  <2>4. /\ tcpq' \in [Streams -> Seq(Frames)] /\ tcpq'[s] = Tail(tcpq[s])
        /\ \A r \in Streams \ {s} : tcpq'[r] = tcpq[r]
    BY <1>3, <2>1, <2>2
  <2>5. /\ got' \in [Pipes -> Seq(Nat)] /\ Len(got'[<<s, "up">>]) = Len(got[<<s, "up">>]) + 1
        /\ \A r \in Streams : \A e \in {"up", "down"} :
             r # s \/ e # "up" => got'[<<r, e>>] = got[<<r, e>>]
    BY <1>3, <2>3, PipeMoves DEF IInv, Shapes
  <2>6. Shapes'
    BY <1>1, <1>3, <2>4, <2>5 DEF IInv, Shapes, ShapesOfRelay, ShapesOfChannels, ShapesOfBridge, relayVars
  <2>7. QueueInv'
    <3>1. Len(tcpq[s]) <= BridgeCap
      BY DEF IInv, QueueInv
    <3>2. Len(tcpq'[s]) <= BridgeCap /\ OfStream(tcpq'[s], s)
      BY <3>1, <2>2, <2>3, <2>4, TunnelAssumption
    <3> QED
      BY <1>1, <2>4, <3>2 DEF IInv, QueueInv
  <2>8. LockInv' /\ LinkInv' /\ PlaceInv' /\ HandInv'
    BY <1>1 DEF IInv, LockInv, LinkInv, PlaceInv, HandInv, relayVars
  <2>9. OwnerInv'
    <3>1. ServeForward
      BY <1>1 DEF ServeForward, relayVars
    <3>2. ASSUME NEW b \in Sessions PROVE UpFrames(b)' /\ DownFrames(b)' /\ Holds(b)'
      BY <1>1, <1>3, <3>1, FramesKeep DEF IInv, Shapes, OwnerInv, Holds, relayVars
    <3>3. owner[s] # None
      BY <1>1, OwnerOf
    <3>4. ASSUME NEW r \in Streams PROVE Owned(r)'
      BY <1>1, <1>3, <2>4, <3>3 DEF IInv, OwnerInv, Owned, relayVars
    <3> QED
      BY <3>2, <3>4 DEF OwnerInv
  <2>10. DownInv'
    BY <1>1, <2>5, DownIdle DEF IInv, Shapes, relayVars
  <2>11. UpInv'
    <3> SUFFICES ASSUME NEW r \in Streams PROVE UpAt(r)'
      BY DEF UpInv
    <3>1. CASE r # s
      <4>1. sent[<<r, "up">>] \in Nat
        BY PipeTypes DEF IInv, Shapes
      <4>2. UpSteady(r)
        BY <1>1, <1>3, <3>1, <4>1, <2>4, <2>5 DEF UpSteady, RunKept, Alive, UpHand, UpTie, relayVars
      <4> QED
        BY <4>2, UpKeep DEF IInv, Shapes, UpInv
    <3>2. CASE r = s
      <4>1. sent[<<s, "up">>] \in Nat /\ Len(got[<<s, "up">>]) \in Nat
        BY PipeTypes DEF IInv, Shapes
      <4>2. PICK k \in 0..sent[<<s, "up">>] : Run(tcpq[s], s, Len(got[<<s, "up">>]), k) /\ UpLink(s, k)
        BY DEF IInv, UpInv, UpAt
      <4>3. k \in Nat /\ IsData(Head(tcpq[s]), s)
        BY <1>3, <2>3, <4>1 DEF IsData
      <4>4. Run(tcpq'[s], s, Len(got'[<<s, "up">>]), k)
        BY <1>3, <2>1, <2>4, <2>5, <4>1, <4>2, <4>3, RunTailData
      <4>5. UpLink(s, k)'
        BY <1>1, <1>3, <4>2 DEF UpLink, Alive, UpHand, UpTie, relayVars
      <4> QED
        BY <1>1, <3>2, <4>2, <4>4, <4>5 DEF UpAt
    <3> QED
      BY <3>1, <3>2
  <2> QED
    BY <2>6, <2>7, <2>8, <2>9, <2>10, <2>11 DEF IInv
<1> QED
  BY <1>2, <1>3 DEF WriteUpstream

(* The reader's frame goes to the relay, or finds the session over. *)
LEMMA SendUpstreamDataKeeps ==
  ASSUME IInv, NEW s \in Streams, SendUpstreamData(s), UNCHANGED relayVars
  PROVE  IInv'
<1> DEFINE b == owner[s]
           f == IF reader[s] = "error" THEN Frame("error", s) ELSE Data(s, sent[<<s, "down">>])
<1>1. /\ UNCHANGED <<relayVars, session, known, tcpq, owner, writer, up, inbox, link, client, sent, got>>
      /\ reader[s] \in {"send", "last", "error"} /\ ToRelay(b, f)
      /\ reader' = [reader EXCEPT ![s] = IF @ = "send" /\ link[owner[s]] = "up" THEN "on" ELSE "done"]
  BY DEF SendUpstreamData
<1>2. b \in Sessions /\ b # None /\ writer[s] # "none" /\ link[b] \in {"up", "broken"}
  BY <1>1, OwnerOf
<1>3. sent[<<s, "down">>] \in Nat
  BY PipeTypes DEF IInv, Shapes
<1>4. f \in Frames /\ f.s = s /\ (reader[s] # "error" => f.kind = "data" /\ f.n = sent[<<s, "down">>])
      /\ (reader[s] = "error" => f.kind # "data")
  BY <1>3, PlainFrame DEF Data, Frames
<1> HIDE DEF f
<1>5. /\ down \in [Sessions -> Seq(Frames)] /\ down' \in [Sessions -> Seq(Frames)]
      /\ \A a \in Sessions \ {b} : down'[a] = down[a]
      /\ \A a \in Sessions : Len(down'[a]) <= BridgeCap
      /\ \/ link[b] = "broken" /\ down' = down
         \/ link[b] = "up" /\ down'[b] = Append(down[b], f)
  BY <1>1, <1>2, <1>4, ToRelayEffect DEF IInv, Shapes, ShapesOfChannels
<1>6. /\ reader' \in [Streams -> {"none", "on", "send", "last", "error", "done"}]
      /\ \A r \in Streams \ {s} : reader'[r] = reader[r]
      /\ reader'[s] \in {"on", "done"}
      /\ reader'[s] = "on" => reader[s] = "send" /\ link[b] = "up"
  BY <1>1 DEF IInv, Shapes, ShapesOfBridge
<1>7. Shapes'
  BY <1>1, <1>5, <1>6 DEF IInv, Shapes, ShapesOfRelay, ShapesOfChannels, ShapesOfBridge, relayVars
<1>8. QueueInv'
  BY <1>1, <1>5 DEF IInv, QueueInv
<1>9. LockInv' /\ LinkInv' /\ PlaceInv' /\ HandInv'
  BY <1>1 DEF IInv, LockInv, LinkInv, PlaceInv, HandInv, relayVars
<1>10. OwnerInv'
  <2>1. ServeForward
    BY <1>1 DEF ServeForward, relayVars
  <2>2. ASSUME NEW a \in Sessions PROVE UpFrames(a)' /\ Holds(a)'
    BY <1>1, <2>1, FramesKeep DEF IInv, Shapes, OwnerInv, Holds, relayVars
  <2>3. ASSUME NEW a \in Sessions PROVE DownFrames(a)'
    <3>1. CASE down'[a] = down[a]
      BY <1>1, <3>1 DEF IInv, OwnerInv, DownFrames
    <3>2. CASE a = b /\ down'[b] = Append(down[b], f)
      BY <1>1, <1>2, <1>4, <3>2, DownFramesAppend DEF IInv, Shapes, OwnerInv
    <3> QED
      BY <1>5, <3>1, <3>2
  <2>4. ASSUME NEW r \in Streams PROVE Owned(r)'
    BY <1>1, <1>6 DEF IInv, OwnerInv, Owned, relayVars
  <2> QED
    BY <2>2, <2>3, <2>4 DEF OwnerInv
<1>11. UpInv'
  BY <1>1, UpIdle DEF IInv, Shapes, relayVars
<1>12. ASSUME NEW r \in Streams, r # s PROVE DownAt(r)'
  <2>1. sent[<<r, "down">>] \in Nat
    BY PipeTypes DEF IInv, Shapes
  <2>2. ASSUME NEW a \in Sessions PROVE RunKept(down[a], down'[a], r)
    <3>1. ~IsData(f, r) /\ down[a] \in Seq(Frames)
      BY <1>4, <1>5, <1>12 DEF IsData
    <3> QED
      BY <3>1, <1>4, <1>5, RunKeeps
  <2>3. DownSteady(r)
    BY <1>1, <1>6, <1>12, <2>1, <2>2 DEF DownSteady, RunKept, DownHand, DownTie, relayVars
  <2> QED
    BY <2>3, DownKeep DEF IInv, Shapes, DownInv
<1>13. DownAt(s)'
  <2>1. CASE reader[s] = "error" \/ link[b] = "broken"
    <3>1. ASSUME NEW a \in Sessions PROVE RunKept(down[a], down'[a], s)
      <4>1. reader[s] = "error" => ~IsData(f, s)
        BY <1>4 DEF IsData
      <4>2. down[a] \in Seq(Frames)
        BY <1>5
      <4>3. CASE down'[a] = down[a]
        BY <4>2, <4>3, RunKeeps
      <4>4. CASE down'[a] = Append(down[a], f) /\ reader[s] = "error"
        BY <4>1, <4>2, <4>4, <1>4, RunKeeps
      <4> QED
        BY <2>1, <4>3, <4>4, <1>5
    <3>2. reader'[s] = "done"
      BY <2>1, <1>6
    <3>3. DownSteady(s)
      BY <1>1, <1>3, <3>1, <3>2 DEF DownSteady, RunKept, DownHand, DownTie, relayVars
    <3> QED
      BY <3>3, DownKeep DEF IInv, Shapes, DownInv
  <2>2. CASE reader[s] \in {"send", "last"} /\ link[b] = "up"
    <3> SUFFICES ASSUME client'[s] # "gone" PROVE DownAt(s)'
      BY DEF DownAt
    <3>1. PICK k \in 0..sent[<<s, "down">>] :
            Run(inbox[s], s, Len(got[<<s, "down">>]), k) /\ DownLink(s, k)
      BY <1>1 DEF IInv, DownInv, DownAt
    <3>2. k \in Nat /\ IsData(f, s) /\ f.n = sent[<<s, "down">>]
      BY <1>3, <1>4, <2>2 DEF IsData
    <3>3. down[b] \in Seq(Frames) /\ down'[b] = Append(down[b], f)
      BY <1>2, <1>5, <2>2
    <3>4. ASSUME demux[b].pc \in {"read", "send"}, s \in streams \/ DownHand(b, s)
          PROVE  \E top \in 0..sent[<<s, "down">>] :
                   /\ DownTie(b, s, top)'
                   /\ DownHand(b, s) => demux[b].f.n = k + 1 /\ Run(down'[b], s, k + 1, top)
                   /\ ~DownHand(b, s) => Run(down'[b], s, k, top)
      <4>1. PICK top \in 0..sent[<<s, "down">>] :
               /\ DownTie(b, s, top)
               /\ DownHand(b, s) => demux[b].f.n = k + 1 /\ Run(down[b], s, k + 1, top)
               /\ ~DownHand(b, s) => Run(down[b], s, k, top)
        BY <1>2, <3>1, <3>4 DEF DownLink
      <4>2. top \in Nat /\ top + 1 = sent[<<s, "down">>] /\ f.n = top + 1
        BY <1>3, <2>2, <3>2, <4>1 DEF DownTie
      <4>3. DownHand(b, s) => Run(down'[b], s, k + 1, top + 1)
        BY <1>4, <3>2, <3>3, <4>1, <4>2, RunAppendData
      <4>4. ~DownHand(b, s) => Run(down'[b], s, k, top + 1)
        BY <1>4, <3>2, <3>3, <4>1, <4>2, RunAppendData
      <4>5. DownTie(b, s, top + 1)'
        BY <1>1, <1>6, <4>2 DEF DownTie
      <4>6. top + 1 \in 0..sent[<<s, "down">>]
        BY <1>3, <4>2
      <4> QED
        BY <4>1, <4>3, <4>4, <4>5, <4>6
    <3>5. DownLink(s, k)'
      BY <1>1, <3>4 DEF DownLink, DownHand, relayVars
    <3> QED
      BY <1>1, <3>1, <3>5 DEF DownAt
  <2> QED
    BY <1>1, <1>2, <2>1, <2>2
<1> QED
  BY <1>7, <1>8, <1>9, <1>10, <1>11, <1>12, <1>13 DEF IInv, DownInv

-----------------------------------------------------------------------------
(* The sessions of the bridge. *)

(* The connection to the relay breaks. *)
LEMMA DisconnectKeeps ==
  ASSUME IInv, NEW b \in Sessions, Disconnect(b), UNCHANGED relayVars
  PROVE  IInv'
<1>1. /\ UNCHANGED <<relayVars, bridgeVars, up, down, inbox, client, sent, got>>
      /\ link' = [link EXCEPT ![b] = "broken"]
  BY DEF Disconnect
<1>2. /\ link' \in [Sessions -> {"none", "up", "broken"}]
      /\ \A a \in Sessions : link'[a] = link[a] \/ link'[a] = "broken"
  BY <1>1 DEF IInv, Shapes, ShapesOfChannels
<1>3. Shapes'
  BY <1>1, <1>2 DEF IInv, Shapes, ShapesOfRelay, ShapesOfChannels, ShapesOfBridge, relayVars, bridgeVars
<1>4. QueueInv' /\ LockInv' /\ PlaceInv' /\ HandInv'
  BY <1>1 DEF IInv, QueueInv, LockInv, PlaceInv, HandInv, relayVars, bridgeVars
<1>5. LinkInv'
  <2>1. \A s \in Streams : serve[s].home # None => serve[s].home \in Sessions
    BY DEF IInv, Shapes, ShapesOfRelay, Serves
  <2>2. bridge # None => bridge \in Sessions
    BY DEF IInv, Shapes, ShapesOfRelay
  <2> QED
    BY <1>1, <1>2, <2>1, <2>2 DEF IInv, LinkInv, relayVars
<1>6. OwnerInv'
  <2>1. ServeForward
    BY <1>1 DEF ServeForward, relayVars
  <2> QED
    BY <1>1, <2>1, OwnerIdle DEF IInv, Shapes, relayVars, bridgeVars
<1>7. UpInv'
  BY <1>1, UpIdle DEF IInv, Shapes, relayVars, bridgeVars
<1>8. ASSUME NEW s \in Streams PROVE DownAt(s)'
  <2>1. sent[<<s, "down">>] \in Nat
    BY PipeTypes DEF IInv, Shapes
  <2>2. DownSteady(s)
    BY <1>1, <1>2, <2>1 DEF DownSteady, RunKept, DownHand, DownTie, relayVars, bridgeVars
  <2> QED
    BY <2>2, DownKeep DEF IInv, Shapes, DownInv
<1> QED
  BY <1>3, <1>4, <1>5, <1>6, <1>7, <1>8 DEF IInv, DownInv

(* The relay's queue to a session without its first frame. *)
LEMMA UpTake ==
  ASSUME IInv, NEW b \in Sessions, up[b] # <<>>, up' = [up EXCEPT ![b] = Tail(@)]
  PROVE  /\ up' \in [Sessions -> Seq(Frames)] /\ up'[b] = Tail(up[b])
         /\ \A a \in Sessions \ {b} : up'[a] = up[a]
         /\ \A a \in Sessions : Len(up'[a]) <= RelayCap
         /\ ~closed[b] /\ Head(up[b]) \in Frames
         /\ Head(up[b]).kind \in {"accepted", "data", "closed", "error"}
         /\ serve[Head(up[b]).s].pc \notin Unannounced
         /\ Head(up[b]).kind = "accepted" =>
              /\ serve[Head(up[b]).s].home = b /\ owner[Head(up[b]).s] = None
              /\ \A i \in 1..Len(Tail(up[b])) :
                   ~(Tail(up[b])[i].kind = "accepted" /\ Tail(up[b])[i].s = Head(up[b]).s)
         /\ \A i \in 1..Len(Tail(up[b])) : i + 1 \in 1..Len(up[b]) /\ Tail(up[b])[i] = up[b][i + 1]
<1>1. up \in [Sessions -> Seq(Frames)] /\ up[b] \in Seq(Frames)
  BY DEF IInv, Shapes, ShapesOfChannels
<1>2. /\ Len(up[b]) \in Nat \ {0} /\ Head(up[b]) = up[b][1] /\ up[b][1] \in Frames
      /\ Tail(up[b]) \in Seq(Frames) /\ Len(Tail(up[b])) = Len(up[b]) - 1
      /\ \A i \in 1..Len(Tail(up[b])) : i + 1 \in 1..Len(up[b]) /\ Tail(up[b])[i] = up[b][i + 1]
  BY <1>1, QueueTail
<1>3. /\ up' \in [Sessions -> Seq(Frames)] /\ up'[b] = Tail(up[b])
      /\ \A a \in Sessions \ {b} : up'[a] = up[a]
  BY <1>1, <1>2
<1>4. Len(up[b]) <= RelayCap /\ RelayCap \in Nat
  BY TunnelAssumption DEF IInv, QueueInv
<1>5. Len(Tail(up[b])) <= RelayCap
  BY <1>2, <1>4
<1>6. \A a \in Sessions : Len(up'[a]) <= RelayCap
  BY <1>3, <1>5 DEF IInv, QueueInv
<1>7. ~closed[b]
  BY DEF IInv, LinkInv
<1>8. UpFrames(b) /\ 1 \in 1..Len(up[b])
  BY <1>2 DEF IInv, OwnerInv
<1>9. ASSUME up[b][1].kind = "accepted", NEW i \in 1..Len(Tail(up[b]))
      PROVE  ~(Tail(up[b])[i].kind = "accepted" /\ Tail(up[b])[i].s = up[b][1].s)
  <2>1. i + 1 \in 1..Len(up[b]) /\ Tail(up[b])[i] = up[b][i + 1] /\ i + 1 # 1
    BY <1>2
  <2> QED
    BY <2>1, <1>8, <1>9 DEF UpFrames
<1>10. /\ up[b][1].kind \in {"accepted", "data", "closed", "error"}
       /\ serve[up[b][1].s].pc \notin Unannounced
       /\ up[b][1].kind = "accepted" => serve[up[b][1].s].home = b /\ owner[up[b][1].s] = None
  BY <1>8 DEF UpFrames
<1> QED
  BY <1>2, <1>3, <1>6, <1>7, <1>9, <1>10

(* The frames behind the first are in order when all are. *)
LEMMA UpFramesTail ==
  ASSUME NEW b \in Sessions, NEW q \in Seq(Frames), NEW t, q # <<>>, t = Tail(q),
         up[b] = q, up'[b] = t, UpFrames(b), serve' = serve, owner' = owner
  PROVE  UpFrames(b)'
<1>1. \A i \in 1..Len(t) : i + 1 \in 1..Len(q) /\ t[i] = q[i + 1] /\ i \in Nat
  BY QueueTail
<1>2. /\ \A i \in 1..Len(q) :
           /\ q[i].kind \in {"accepted", "data", "closed", "error"}
           /\ serve[q[i].s].pc \notin Unannounced
           /\ q[i].kind = "accepted" => serve[q[i].s].home = b /\ owner[q[i].s] = None
      /\ \A i, j \in 1..Len(q) :
           q[i].kind = "accepted" /\ q[j].kind = "accepted" /\ q[j].s = q[i].s => j = i
  BY DEF UpFrames
<1>3. ASSUME NEW i \in 1..Len(t), NEW j \in 1..Len(t), t[i].kind = "accepted",
             t[j].kind = "accepted", t[j].s = t[i].s
      PROVE  j = i
  <2>1. /\ i + 1 \in 1..Len(q) /\ j + 1 \in 1..Len(q) /\ i \in Nat /\ j \in Nat
        /\ t[i] = q[i + 1] /\ t[j] = q[j + 1]
    BY <1>1
  <2>2. j + 1 = i + 1
    BY <1>2, <1>3, <2>1
  <2> QED
    BY <2>1, <2>2
<1>4. \A i \in 1..Len(t) :
        /\ t[i].kind \in {"accepted", "data", "closed", "error"}
        /\ serve[t[i].s].pc \notin Unannounced
        /\ t[i].kind = "accepted" => serve[t[i].s].home = b /\ owner[t[i].s] = None
  BY <1>1, <1>2
<1> QED
  BY <1>3, <1>4 DEF UpFrames

(* Taking a frame leaves the others in order, as the owners stay. *)
LEMMA UpFramesTake ==
  ASSUME IInv, NEW b \in Sessions, up[b] # <<>>, up' = [up EXCEPT ![b] = Tail(@)],
         serve' = serve, owner' = owner
  PROVE  \A a \in Sessions : UpFrames(a)'
<1>1. up'[b] = Tail(up[b]) /\ (\A a \in Sessions \ {b} : up'[a] = up[a]) /\ up[b] \in Seq(Frames)
  BY UpTake DEF IInv, Shapes, ShapesOfChannels
<1>2. \A a \in Sessions : UpFrames(a)
  BY DEF IInv, OwnerInv
<1>3. UpFrames(b)'
  BY <1>1, <1>2, UpFramesTail
<1>4. ASSUME NEW a \in Sessions, a # b PROVE UpFrames(a)'
  BY <1>1, <1>2, <1>4 DEF UpFrames
<1> QED
  BY <1>3, <1>4

(* Whatever the session took last, all of its streams stand still once it ended. *)
LEMMA SessionOver ==
  ASSUME IInv, NEW b \in Sessions, NEW why \in {"ended", "failed", "unknown"}, EndSession(b, why),
         UNCHANGED <<relayVars, tcpq, owner, writer, reader, down, inbox, client, sent, got>>,
         \/ up' = up
         \/ up[b] # <<>> /\ up' = [up EXCEPT ![b] = Tail(@)]
  PROVE  IInv'
<1>1. /\ session' \in [Sessions -> Loops] /\ session'[b].pc = why
      /\ \A a \in Sessions \ {b} : session'[a] = session[a]
  <2>1. SessionTo(b, why, None) /\ why \in LoopPCs
    BY DEF EndSession, LoopPCs
  <2>2. SessionAt(b, why, None)
    BY <2>1, SessionMoves DEF IInv, Shapes
  <2> QED
    BY <2>2 DEF SessionAt
<1>2. /\ known' \in [Sessions -> SUBSET Streams] /\ \A a \in Sessions : known'[a] \subseteq known[a]
  BY DEF EndSession, IInv, Shapes, ShapesOfBridge
<1>3. /\ link' \in [Sessions -> {"none", "up", "broken"}]
      /\ \A a \in Sessions : link'[a] = link[a] \/ link'[a] = "broken"
  BY DEF EndSession, IInv, Shapes, ShapesOfChannels
<1>4. /\ up' \in [Sessions -> Seq(Frames)] /\ \A a \in Sessions \ {b} : up'[a] = up[a]
      /\ \A a \in Sessions : Len(up'[a]) <= RelayCap /\ (closed[a] => up'[a] = <<>>)
  <2>1. CASE up' = up
    BY <2>1 DEF IInv, Shapes, ShapesOfChannels, QueueInv, LinkInv
  <2>2. CASE up[b] # <<>> /\ up' = [up EXCEPT ![b] = Tail(@)]
    BY <2>2, UpTake DEF IInv, LinkInv
  <2> QED
    BY <2>1, <2>2
<1>5. Shapes'
  BY <1>1, <1>2, <1>3, <1>4 DEF IInv, Shapes, ShapesOfRelay, ShapesOfChannels, ShapesOfBridge, relayVars
<1>6. QueueInv' /\ LockInv' /\ PlaceInv'
  BY <1>4 DEF IInv, QueueInv, LockInv, PlaceInv, relayVars
<1>7. HandInv'
  BY <1>1 DEF IInv, HandInv, relayVars
<1>8. LinkInv'
  <2>1. \A s \in Streams : serve[s].home # None => serve[s].home \in Sessions
    BY DEF IInv, Shapes, ShapesOfRelay, Serves
  <2>2. bridge # None => bridge \in Sessions
    BY DEF IInv, Shapes, ShapesOfRelay
  <2> QED
    BY <1>3, <1>4, <2>1, <2>2 DEF IInv, LinkInv, relayVars
<1>9. OwnerInv'
  <2>1. ASSUME NEW a \in Sessions PROVE UpFrames(a)'
    <3>1. CASE up' = up
      BY <3>1 DEF IInv, OwnerInv, UpFrames, relayVars
    <3>2. CASE up[b] # <<>> /\ up' = [up EXCEPT ![b] = Tail(@)]
      BY <3>2, UpFramesTake DEF relayVars
    <3> QED
      BY <3>1, <3>2
  <2>2. ASSUME NEW a \in Sessions PROVE DownFrames(a)' /\ Holds(a)'
    BY <1>1, <1>2 DEF IInv, OwnerInv, DownFrames, Holds, relayVars
  <2>3. ASSUME NEW s \in Streams PROVE Owned(s)'
    BY DEF IInv, OwnerInv, Owned, relayVars
  <2> QED
    BY <2>1, <2>2, <2>3 DEF OwnerInv
<1>10. ASSUME NEW s \in Streams PROVE UpAt(s)'
  <2>1. sent[<<s, "up">>] \in Nat
    BY PipeTypes DEF IInv, Shapes
  <2>2. ~Alive(b)'
    BY <1>1 DEF Alive
  <2>3. ASSUME NEW a \in Sessions, Alive(a)' PROVE session'[a] = session[a] /\ up'[a] = up[a]
    BY <1>1, <1>4, <2>2, <2>3
  <2>4. UpSteady(s)
    BY <2>1, <2>3 DEF UpSteady, RunKept, Alive, UpHand, UpTie, relayVars
  <2> QED
    BY <2>4, UpKeep DEF IInv, Shapes, UpInv
<1>11. ASSUME NEW s \in Streams PROVE DownAt(s)'
  <2>1. sent[<<s, "down">>] \in Nat
    BY PipeTypes DEF IInv, Shapes
  <2>2. DownSteady(s)
    BY <1>3, <2>1 DEF DownSteady, RunKept, DownHand, DownTie, relayVars
  <2> QED
    BY <2>2, DownKeep DEF IInv, Shapes, DownInv
<1> QED
  BY <1>5, <1>6, <1>7, <1>8, <1>9, <1>10, <1>11 DEF IInv, UpInv, DownInv

(* The session notices that its connection broke. *)
LEMMA SessionEndsKeeps ==
  ASSUME IInv, NEW b \in Sessions, SessionEnds(b), UNCHANGED relayVars
  PROVE  IInv'
BY SessionOver DEF SessionEnds

(* A stream more than the session may have is refused. *)
LEMMA RefuseStreamKeeps ==
  ASSUME IInv, NEW b \in Sessions, RefuseStream(b), UNCHANGED relayVars
  PROVE  IInv'
<1> DEFINE f == session[b].f
<1>1. /\ UNCHANGED <<relayVars, known, tcpq, owner, writer, reader, up, inbox, link, client, sent, got>>
      /\ session[b].pc = "refuse" /\ SessionTo(b, "read", None) /\ ToRelay(b, f)
  BY DEF RefuseStream, ToRelay
<1>2. f \in Frames /\ f.kind # "data"
  BY <1>1 DEF IInv, HandInv
<1> HIDE DEF f
<1>3. /\ session' \in [Sessions -> Loops] /\ session'[b].pc = "read"
      /\ \A a \in Sessions \ {b} : session'[a] = session[a]
  <2>1. SessionAt(b, "read", None)
    BY <1>1, SessionMoves DEF IInv, Shapes, LoopPCs
  <2> QED
    BY <2>1 DEF SessionAt
<1>4. down' \in [Sessions -> Seq(Frames)] /\ \A a \in Sessions : Len(down'[a]) <= BridgeCap
  BY <1>1, <1>2, ToRelayEffect
<1>5. \A a \in Sessions : \A r \in Streams : \A top \in Nat : DownTie(a, r, top) => DownTie(a, r, top)'
  BY <1>1 DEF DownTie
<1>6. DownInv' /\ \A a \in Sessions : DownFrames(a)'
  BY <1>1, <1>2, <1>5, DownOther DEF relayVars
<1>7. Shapes'
  BY <1>1, <1>3, <1>4 DEF IInv, Shapes, ShapesOfRelay, ShapesOfChannels, ShapesOfBridge, relayVars
<1>8. QueueInv' /\ LockInv' /\ PlaceInv' /\ LinkInv'
  BY <1>1, <1>4 DEF IInv, QueueInv, LockInv, PlaceInv, LinkInv, relayVars
<1>9. HandInv'
  BY <1>1, <1>3 DEF IInv, HandInv, relayVars
<1>10. OwnerInv'
  <2>1. ServeForward
    BY <1>1 DEF ServeForward, relayVars
  <2>2. ASSUME NEW a \in Sessions PROVE UpFrames(a)' /\ Holds(a)'
    BY <1>1, <1>3, <2>1, FramesKeep DEF IInv, Shapes, OwnerInv, Holds, relayVars
  <2>3. ASSUME NEW s \in Streams PROVE Owned(s)'
    BY <1>1 DEF IInv, OwnerInv, Owned, relayVars
  <2> QED
    BY <1>6, <2>2, <2>3 DEF OwnerInv
<1>11. ASSUME NEW s \in Streams PROVE UpAt(s)'
  <2>1. sent[<<s, "up">>] \in Nat
    BY PipeTypes DEF IInv, Shapes
  <2>2. ASSUME NEW a \in Sessions
        PROVE  /\ Alive(a)' <=> Alive(a)
               /\ UpHand(a, s)' <=> UpHand(a, s)
               /\ UpHand(a, s) => session'[a].f.n = session[a].f.n
    BY <1>1, <1>3 DEF Alive, UpHand
  <2>3. UpSteady(s)
    BY <1>1, <2>1, <2>2 DEF UpSteady, RunKept, UpTie, relayVars
  <2> QED
    BY <2>3, UpKeep DEF IInv, Shapes, UpInv
<1> QED
  BY <1>6, <1>7, <1>8, <1>9, <1>10, <1>11 DEF IInv, UpInv

(* The frame in hand goes to the stream's writer, or finds it gone. *)
LEMMA SendToStreamKeeps ==
  ASSUME IInv, NEW b \in Sessions, SendToStream(b), UNCHANGED relayVars
  PROVE  IInv'
<1>1. /\ UNCHANGED <<relayVars, owner, writer, reader, up, down, inbox, client, sent, got>>
      /\ session[b].pc = "send"
  BY DEF SendToStream
<1>a. PICK f \in Frames : f = session[b].f /\ f.kind \in {"data", "closed", "error"}
  BY <1>1 DEF IInv, HandInv
<1>b. PICK r \in Streams : r = f.s
  BY DEF Frames
<1>2. f \in Frames /\ r \in Streams /\ f.kind \in {"data", "closed", "error"} /\ owner[r] = b
  BY <1>1, <1>a, <1>b DEF IInv, OwnerInv, Holds
<1>3. b # None /\ serve[r].home = b
  <2>1. b # None
    BY TunnelAssumption DEF Sessions
  <2> QED
    BY <1>2, <2>1 DEF IInv, OwnerInv, Owned
<1>4. CASE EndSession(b, "failed") /\ tcpq' = tcpq
  BY <1>1, <1>4, SessionOver
<1>5. CASE /\ SessionTo(b, "read", None) /\ link' = link
           /\ Forget(b, r) \/ known' = known
           /\ \/ writer[r] = "done" /\ Terminal(f) /\ tcpq' = tcpq
              \/ /\ writer[r] # "done" /\ Room(tcpq[r], BridgeCap)
                 /\ tcpq' = [tcpq EXCEPT ![r] = Append(@, f)]
  <2>1. /\ session' \in [Sessions -> Loops] /\ session'[b].pc = "read"
        /\ \A a \in Sessions \ {b} : session'[a] = session[a]
    <3>1. SessionAt(b, "read", None)
      BY <1>5, SessionMoves DEF IInv, Shapes, LoopPCs
    <3> QED
      BY <3>1 DEF SessionAt
  <2>2. known' \in [Sessions -> SUBSET Streams] /\ \A a \in Sessions : known'[a] \subseteq known[a]
    <3>1. known \in [Sessions -> SUBSET Streams]
      BY DEF IInv, Shapes, ShapesOfBridge
    <3>2. CASE Forget(b, r)
      BY <3>1, <3>2 DEF Forget
    <3>3. CASE known' = known
      BY <3>1, <3>3
    <3> QED
      BY <1>5, <3>2, <3>3
  <2>3. tcpq \in [Streams -> Seq(Frames)] /\ tcpq[r] \in Seq(Frames)
    BY <1>2 DEF IInv, Shapes, ShapesOfBridge
  <2>4. /\ Append(tcpq[r], f) \in Seq(Frames) /\ Len(Append(tcpq[r], f)) = Len(tcpq[r]) + 1
        /\ Len(tcpq[r]) \in Nat /\ OfStream(Append(tcpq[r], f), r)
    BY <1>b, <1>2, <2>3, QueueAppend, OfStreamKeeps DEF IInv, QueueInv
  <2>5. /\ tcpq' \in [Streams -> Seq(Frames)] /\ \A s \in Streams : s # r => tcpq'[s] = tcpq[s]
        /\ \/ writer[r] = "done" /\ Terminal(f) /\ tcpq'[r] = tcpq[r]
           \/ writer[r] # "done" /\ tcpq'[r] = Append(tcpq[r], f) /\ Room(tcpq[r], BridgeCap)
    BY <1>2, <1>5, <2>3, <2>4
  <2>6. Len(tcpq'[r]) <= BridgeCap /\ OfStream(tcpq'[r], r)
    <3>1. Len(tcpq[r]) <= BridgeCap /\ OfStream(tcpq[r], r)
      BY <1>2 DEF IInv, QueueInv
    <3>2. BridgeCap \in Nat
      BY TunnelAssumption
    <3>3. CASE tcpq'[r] = tcpq[r]
      BY <3>1, <3>3
    <3>4. CASE tcpq'[r] = Append(tcpq[r], f) /\ Len(tcpq[r]) < BridgeCap
      BY <2>4, <3>2, <3>4
    <3> QED
      BY <2>5, <3>3, <3>4 DEF Room
  <2>7. Shapes'
    BY <1>1, <1>5, <2>1, <2>2, <2>5 DEF IInv, Shapes, ShapesOfRelay, ShapesOfChannels, ShapesOfBridge, relayVars
  <2>8. QueueInv'
    BY <1>1, <2>5, <2>6 DEF IInv, QueueInv
  <2>9. LockInv' /\ PlaceInv' /\ LinkInv'
    BY <1>1, <1>5 DEF IInv, LockInv, PlaceInv, LinkInv, relayVars
  <2>10. HandInv'
    BY <1>1, <2>1 DEF IInv, HandInv, relayVars
  <2>11. OwnerInv'
    <3>1. ServeForward
      BY <1>1 DEF ServeForward, relayVars
    <3>2. ASSUME NEW a \in Sessions PROVE UpFrames(a)' /\ DownFrames(a)' /\ Holds(a)'
      BY <1>1, <2>1, <2>2, <3>1, FramesKeep DEF IInv, Shapes, OwnerInv, Holds, relayVars
    <3>3. ASSUME NEW s \in Streams PROVE Owned(s)'
      <4>1. Owned(s) /\ (owner[s] = None => s # r)
        BY <1>2, <1>3 DEF IInv, OwnerInv
      <4> QED
        BY <1>1, <2>5, <4>1 DEF Owned, relayVars
    <3> QED
      BY <3>2, <3>3 DEF OwnerInv
  <2>12. DownInv'
    BY <1>1, <1>5, DownIdle DEF IInv, Shapes, relayVars
  <2>13. ASSUME NEW s \in Streams, s # r \/ f.kind # "data" PROVE UpAt(s)'
    <3>1. sent[<<s, "up">>] \in Nat /\ tcpq[s] \in Seq(Frames)
      BY PipeTypes DEF IInv, Shapes, ShapesOfBridge
    <3>2. ~IsData(f, s)
      BY <1>b, <2>13 DEF IsData
    <3>3. ASSUME NEW a \in Sessions
          PROVE  /\ Alive(a)' <=> Alive(a)
                 /\ UpHand(a, s)' <=> UpHand(a, s)
                 /\ UpHand(a, s) => session'[a].f.n = session[a].f.n
      BY <1>1, <1>a, <2>1, <3>2 DEF Alive, UpHand
    <3>4. RunKept(tcpq[s], tcpq'[s], s)
      BY <1>2, <2>5, <3>1, <3>2, RunKeeps
    <3>5. UpSteady(s)
      BY <1>1, <3>1, <3>3, <3>4 DEF UpSteady, RunKept, UpTie, relayVars
    <3> QED
      BY <3>5, UpKeep DEF IInv, Shapes, UpInv
  <2>14. ASSUME f.kind = "data" PROVE UpAt(r)'
    <3>1. sent[<<r, "up">>] \in Nat /\ Len(got[<<r, "up">>]) \in Nat
      BY <1>2, PipeTypes DEF IInv, Shapes
    <3>2. PICK k \in 0..sent[<<r, "up">>] : Run(tcpq[r], r, Len(got[<<r, "up">>]), k) /\ UpLink(r, k)
      BY <1>2 DEF IInv, UpInv, UpAt
    <3>3. writer[r] # "done" /\ tcpq'[r] = Append(tcpq[r], f)
      BY <2>5, <2>14 DEF Terminal
    <3>4. k \in Nat /\ UpHand(b, r) /\ Alive(b) /\ IsData(f, r)
      BY <1>1, <1>a, <1>b, <2>14, <3>1 DEF UpHand, Alive, IsData
    <3>5. /\ f.n = k + 1 /\ k + 1 <= sent[<<r, "up">>]
          /\ ~closed[b] => \E top \in 0..sent[<<r, "up">>] : UpTie(b, r, top) /\ Run(up[b], r, k + 1, top)
      BY <1>a, <1>3, <3>2, <3>3, <3>4 DEF UpLink
    <3>6. Run(tcpq'[r], r, Len(got[<<r, "up">>]), k + 1)
      BY <1>2, <2>3, <3>1, <3>2, <3>3, <3>4, <3>5, RunAppendData
    <3>7. ~UpHand(b, r)' /\ serve'[r].home = b
      BY <1>1, <1>3, <2>1 DEF UpHand, relayVars
    <3>8. ASSUME NEW top, UpTie(b, r, top) PROVE UpTie(b, r, top)'
      BY <1>1, <3>8 DEF UpTie, relayVars
    <3>9. UpLink(r, k + 1)'
      BY <1>1, <3>5, <3>7, <3>8 DEF UpLink, relayVars
    <3>10. k + 1 \in 0..sent'[<<r, "up">>]
      BY <1>1, <3>1, <3>4, <3>5
    <3> QED
      BY <1>1, <3>6, <3>9, <3>10 DEF UpAt
  <2> QED
    BY <1>2, <2>7, <2>8, <2>9, <2>10, <2>11, <2>12, <2>13, <2>14 DEF IInv, UpInv
<1> QED
  BY <1>a, <1>b, <1>4, <1>5 DEF SendToStream

(* A session accepts a stream: it becomes its owner. *)
LEMMA AcceptKeeps ==
  ASSUME IInv, NEW b \in Sessions, NEW r \in Streams, up[b] # <<>>, up' = [up EXCEPT ![b] = Tail(@)],
         Head(up[b]).kind = "accepted", Head(up[b]).s = r,
         known' = [known EXCEPT ![b] = @ \cup {r}], owner' = [owner EXCEPT ![r] = b],
         writer' = [writer EXCEPT ![r] = "connecting"],
         UNCHANGED <<relayVars, session, link, tcpq, reader, down, inbox, client, sent, got>>
  PROVE  IInv'
<1>1. /\ up' \in [Sessions -> Seq(Frames)] /\ up'[b] = Tail(up[b])
      /\ \A a \in Sessions \ {b} : up'[a] = up[a]
      /\ \A a \in Sessions : Len(up'[a]) <= RelayCap
      /\ ~closed[b] /\ Head(up[b]) \in Frames
      /\ serve[r].pc \notin Unannounced /\ serve[r].home = b /\ owner[r] = None
      /\ \A i \in 1..Len(Tail(up[b])) : ~(Tail(up[b])[i].kind = "accepted" /\ Tail(up[b])[i].s = r)
      /\ \A i \in 1..Len(Tail(up[b])) : i + 1 \in 1..Len(up[b]) /\ Tail(up[b])[i] = up[b][i + 1]
  BY UpTake
<1>2. b # None
  BY TunnelAssumption DEF Sessions
<1>3. /\ owner \in [Streams -> Sessions \cup {None}] /\ known \in [Sessions -> SUBSET Streams]
      /\ writer \in [Streams -> {"none", "connecting", "on", "failing", "done"}]
  BY DEF IInv, Shapes, ShapesOfBridge
<1>4. /\ owner' \in [Streams -> Sessions \cup {None}] /\ owner'[r] = b
      /\ \A s \in Streams : s # r => owner'[s] = owner[s]
      /\ writer' \in [Streams -> {"none", "connecting", "on", "failing", "done"}]
      /\ writer'[r] = "connecting" /\ \A s \in Streams : s # r => writer'[s] = writer[s]
  BY <1>3
<1>5. /\ known' \in [Sessions -> SUBSET Streams] /\ known'[b] = known[b] \cup {r}
      /\ \A a \in Sessions \ {b} : known'[a] = known[a]
  BY <1>3
<1>6. /\ writer[r] = "none" /\ tcpq[r] = <<>> /\ reader[r] = "none" /\ sent[<<r, "down">>] = 0
  BY <1>1 DEF IInv, OwnerInv, Owned
<1>7. Shapes'
  BY <1>1, <1>4, <1>5 DEF IInv, Shapes, ShapesOfRelay, ShapesOfChannels, ShapesOfBridge, relayVars
<1>8. QueueInv' /\ LockInv' /\ PlaceInv' /\ HandInv'
  BY <1>1 DEF IInv, QueueInv, LockInv, PlaceInv, HandInv, relayVars
<1>9. LinkInv'
  BY <1>1 DEF IInv, LinkInv, relayVars
<1>10. ASSUME NEW a \in Sessions, NEW s \in Streams, owner[s] = a PROVE owner'[s] = a
  <2>1. a # None
    BY TunnelAssumption DEF Sessions
  <2> QED
    BY <1>1, <1>4, <1>10, <2>1
<1>11. ASSUME NEW a \in Sessions, NEW i \in 1..Len(up'[a])
       PROVE  /\ up'[a][i] \in Frames
              /\ \E j \in 1..Len(up[a]) : up'[a][i] = up[a][j]
              /\ ~(up'[a][i].kind = "accepted" /\ up'[a][i].s = r)
  <2>1. up'[a][i] \in Frames
    BY <1>1
  <2>2. CASE a = b
    BY <1>1, <2>1, <2>2
  <2>3. CASE a # b
    <3>1. up'[a][i] = up[a][i] /\ i \in 1..Len(up[a]) /\ UpFrames(a)
      BY <1>1, <2>3 DEF IInv, OwnerInv
    <3>2. ASSUME up[a][i].kind = "accepted", up[a][i].s = r PROVE FALSE
      BY <1>1, <2>3, <3>1, <3>2 DEF UpFrames
    <3> QED
      BY <2>1, <3>1, <3>2
  <2> QED
    BY <2>2, <2>3
<1>12. ASSUME NEW a \in Sessions PROVE UpFrames(a)'
  <2>1. ASSUME NEW i \in 1..Len(up'[a])
        PROVE  /\ up'[a][i].kind \in {"accepted", "data", "closed", "error"}
               /\ serve[up'[a][i].s].pc \notin Unannounced
               /\ up'[a][i].kind = "accepted" => serve[up'[a][i].s].home = a /\ owner'[up'[a][i].s] = None
    <3>1. up'[a][i].s \in Streams
      BY <1>11 DEF Frames
    <3>2. PICK j \in 1..Len(up[a]) : up'[a][i] = up[a][j]
      BY <1>11
    <3>3. UpFrames(a)
      BY DEF IInv, OwnerInv
    <3>4. /\ up[a][j].kind \in {"accepted", "data", "closed", "error"}
          /\ serve[up[a][j].s].pc \notin Unannounced
          /\ up[a][j].kind = "accepted" => serve[up[a][j].s].home = a /\ owner[up[a][j].s] = None
      BY <3>3 DEF UpFrames
    <3>5. PICK g \in Frames : g = up'[a][i]
      BY <1>11
    <3>6. g = up[a][j] /\ g.s \in Streams /\ (g.kind = "accepted" => g.s # r)
      BY <1>11, <3>1, <3>2, <3>5
    <3>7. g.kind = "accepted" => owner'[g.s] = None
      BY <1>4, <3>4, <3>6
    <3> QED
      BY <3>4, <3>5, <3>6, <3>7
  <2>2. ASSUME NEW i \in 1..Len(up'[a]), NEW j \in 1..Len(up'[a]), up'[a][i].kind = "accepted",
               up'[a][j].kind = "accepted", up'[a][j].s = up'[a][i].s
        PROVE  j = i
    <3>1. UpFrames(a)
      BY DEF IInv, OwnerInv
    <3>2. CASE a # b
      BY <1>1, <2>2, <3>1, <3>2 DEF UpFrames
    <3>3. CASE a = b
      <4>1. /\ i + 1 \in 1..Len(up[b]) /\ up'[b][i] = up[b][i + 1]
            /\ j + 1 \in 1..Len(up[b]) /\ up'[b][j] = up[b][j + 1]
        BY <1>1, <3>3
      <4>2. i + 1 = j + 1
        BY <2>2, <3>1, <3>3, <4>1 DEF UpFrames
      <4>3. i \in Nat /\ j \in Nat
        BY <1>1
      <4> QED
        BY <4>2, <4>3
    <3> QED
      BY <3>2, <3>3
  <2>3. serve' = serve
    BY DEF relayVars
  <2> QED
    BY <2>1, <2>2, <2>3 DEF UpFrames
<1>13. ASSUME NEW a \in Sessions PROVE DownFrames(a)' /\ Holds(a)'
  <2>1. \A i \in 1..Len(down[a]) : down[a][i].s \in Streams
    <3>1. \A i \in 1..Len(down[a]) : down[a][i] \in Frames
      BY DEF IInv, Shapes, ShapesOfChannels
    <3> QED
      BY <3>1 DEF Frames
  <2>2. DownFrames(a)'
    BY <1>10, <2>1 DEF IInv, OwnerInv, DownFrames
  <2>3. demux[a].pc = "send" => demux[a].f.s \in Streams
    BY DEF IInv, HandInv, Frames
  <2>4. session[a].pc = "send" => session[a].f.s \in Streams
    BY DEF IInv, HandInv, Frames
  <2>5. \A s \in known'[a] : owner'[s] = a
    <3>1. \A s \in known[a] : s \in Streams /\ owner[s] = a
      BY <1>3 DEF IInv, OwnerInv, Holds
    <3> QED
      BY <1>4, <1>5, <1>10, <3>1
  <2> QED
    BY <1>10, <2>2, <2>3, <2>4, <2>5 DEF IInv, OwnerInv, Holds, relayVars
<1>14. ASSUME NEW s \in Streams PROVE Owned(s)'
  <2>1. CASE s = r
    <3>1. Owned(r)
      BY DEF IInv, OwnerInv
    <3> QED
      BY <1>1, <1>2, <1>4, <1>6, <2>1, <3>1 DEF Owned, relayVars
  <2>2. CASE s # r
    BY <1>4, <2>2 DEF IInv, OwnerInv, Owned, relayVars
  <2> QED
    BY <2>1, <2>2
<1>15. OwnerInv'
  BY <1>12, <1>13, <1>14 DEF OwnerInv
<1>16. ASSUME NEW s \in Streams PROVE UpAt(s)'
  <2>1. sent[<<s, "up">>] \in Nat
    BY PipeTypes DEF IInv, Shapes
  <2>2. ASSUME NEW a \in Sessions PROVE RunKept(up[a], up'[a], s)
    <3>1. up[a] \in Seq(Frames) /\ ~IsData(Head(up[b]), s)
      BY DEF IInv, Shapes, ShapesOfChannels, IsData
    <3> QED
      BY <1>1, <3>1, RunKeeps
  <2>3. writer'[s] # "done" => writer[s] # "done"
    BY <1>4, <1>6
  <2>4. UpSteady(s)
    BY <2>1, <2>2, <2>3 DEF UpSteady, RunKept, Alive, UpHand, UpTie, relayVars
  <2> QED
    BY <2>4, UpKeep DEF IInv, Shapes, UpInv
<1>17. ASSUME NEW s \in Streams, s # r PROVE DownAt(s)'
  <2>1. sent[<<s, "down">>] \in Nat
    BY PipeTypes DEF IInv, Shapes
  <2>2. DownSteady(s)
    BY <1>4, <1>17, <2>1 DEF DownSteady, RunKept, DownHand, DownTie, relayVars
  <2> QED
    BY <2>2, DownKeep DEF IInv, Shapes, DownInv
<1>18. DownAt(r)'
  <2> SUFFICES ASSUME client[r] # "gone" PROVE DownAt(r)'
    BY DEF DownAt
  <2>1. PICK k \in 0..sent[<<r, "down">>] : Run(inbox[r], r, Len(got[<<r, "down">>]), k)
    BY DEF IInv, DownInv, DownAt
  <2>2. k = 0
    BY <1>6
  <2>3. ~DownHand(b, r)
    BY <1>1, <1>2 DEF IInv, OwnerInv, Holds, DownHand, IsData
  <2>4. Run(down[b], r, 0, 0)
    <3>1. \A i \in 1..Len(down[b]) : ~IsData(down[b][i], r)
      BY <1>1, <1>2 DEF IInv, OwnerInv, DownFrames, IsData
    <3> QED
      BY <3>1 DEF Run
  <2>5. DownTie(b, r, 0)'
    BY <1>6 DEF DownTie
  <2>6. DownLink(r, 0)'
    BY <1>4, <1>6, <2>3, <2>4, <2>5 DEF DownLink, DownHand, relayVars
  <2> QED
    BY <1>6, <2>1, <2>2, <2>6 DEF DownAt
<1> QED
  BY <1>7, <1>8, <1>9, <1>15, <1>16, <1>17, <1>18 DEF IInv, UpInv, DownInv

(* A session takes a frame in hand, or drops it. *)
LEMMA TakeKeeps ==
  ASSUME IInv, NEW b \in Sessions, NEW f \in Frames, session[b].pc = "read",
         up[b] # <<>>, up' = [up EXCEPT ![b] = Tail(@)], Head(up[b]) = f,
         UNCHANGED <<relayVars, known, owner, writer, link, tcpq, reader, down, inbox, client, sent, got>>,
         \/ f.kind = "accepted" /\ SessionTo(b, "refuse", Frame("error", f.s))
         \/ f.kind # "accepted" /\ f.s \in known[b] /\ SessionTo(b, "send", f)
         \/ Terminal(f) /\ session' = session
  PROVE  IInv'
<1>1. /\ up' \in [Sessions -> Seq(Frames)] /\ up'[b] = Tail(up[b])
      /\ \A a \in Sessions \ {b} : up'[a] = up[a]
      /\ \A a \in Sessions : Len(up'[a]) <= RelayCap
      /\ ~closed[b] /\ f.kind \in {"accepted", "data", "closed", "error"}
  BY UpTake
<1>2. f.s \in Streams /\ f.n \in Nat
  BY DEF Frames
<1>3. /\ session' \in [Sessions -> Loops] /\ \A a \in Sessions \ {b} : session'[a] = session[a]
      /\ \/ session'[b].pc = "refuse" /\ session'[b].f \in Frames /\ session'[b].f.kind = "error" /\ f.kind # "data"
         \/ session'[b].pc = "send" /\ session'[b].f = f /\ f.kind # "accepted" /\ f.s \in known[b]
         \/ session'[b].pc = "read" /\ f.kind # "data"
  <2>1. CASE f.kind = "accepted" /\ SessionTo(b, "refuse", Frame("error", f.s))
    <3>1. Frame("error", f.s) \in Frames /\ Frame("error", f.s).kind = "error"
      BY <1>2, PlainFrame
    <3>2. SessionAt(b, "refuse", Frame("error", f.s))
      BY <2>1, <3>1, SessionMoves DEF IInv, Shapes, LoopPCs
    <3> QED
      BY <2>1, <3>1, <3>2 DEF SessionAt
  <2>2. CASE f.kind # "accepted" /\ f.s \in known[b] /\ SessionTo(b, "send", f)
    <3>1. SessionAt(b, "send", f)
      BY <2>2, SessionMoves DEF IInv, Shapes, LoopPCs
    <3> QED
      BY <2>2, <3>1 DEF SessionAt
  <2>3. CASE Terminal(f) /\ session' = session
    BY <2>3 DEF Terminal, IInv, Shapes, ShapesOfBridge
  <2> QED
    BY <2>1, <2>2, <2>3
<1>4. Shapes'
  BY <1>1, <1>3 DEF IInv, Shapes, ShapesOfRelay, ShapesOfChannels, ShapesOfBridge, relayVars
<1>5. QueueInv' /\ LockInv' /\ PlaceInv'
  BY <1>1 DEF IInv, QueueInv, LockInv, PlaceInv, relayVars
<1>6. HandInv'
  <2>1. ASSUME NEW a \in Sessions
        PROVE  /\ session'[a].pc \in {"send", "refuse"} => session'[a].f \in Frames
               /\ session'[a].pc = "send" => session'[a].f.kind \in {"data", "closed", "error"}
               /\ session'[a].pc = "refuse" => session'[a].f.kind = "error"
    <3>1. CASE a = b
      BY <1>1, <1>3, <3>1
    <3>2. CASE a # b
      BY <1>3, <3>2 DEF IInv, HandInv
    <3> QED
      BY <3>1, <3>2
  <2> QED
    BY <2>1 DEF IInv, HandInv, relayVars
<1>7. LinkInv'
  BY <1>1 DEF IInv, LinkInv, relayVars
<1>8. OwnerInv'
  <2>1. \A a \in Sessions : UpFrames(a)'
    BY UpFramesTake DEF relayVars
  <2>2. ASSUME NEW a \in Sessions PROVE DownFrames(a)' /\ Holds(a)'
    <3>1. DownFrames(a) /\ Holds(a) /\ Holds(b)
      BY DEF IInv, OwnerInv
    <3>2. DownFrames(a)'
      BY <3>1 DEF DownFrames
    <3>3. session'[a].pc = "send" => owner[session'[a].f.s] = a
      BY <1>3, <3>1 DEF Holds
    <3> QED
      BY <3>1, <3>2, <3>3 DEF Holds, relayVars
  <2>3. ASSUME NEW s \in Streams PROVE Owned(s)'
    BY DEF IInv, OwnerInv, Owned, relayVars
  <2> QED
    BY <2>1, <2>2, <2>3 DEF OwnerInv
<1>9. DownInv'
  BY DownIdle DEF IInv, Shapes, relayVars
<1>10. ASSUME NEW s \in Streams, ~IsData(f, s) PROVE UpAt(s)'
  <2>1. sent[<<s, "up">>] \in Nat
    BY PipeTypes DEF IInv, Shapes
  <2>2. ASSUME NEW a \in Sessions PROVE RunKept(up[a], up'[a], s)
    <3>1. up[a] \in Seq(Frames) /\ ~IsData(Head(up[b]), s)
      BY <1>10 DEF IInv, Shapes, ShapesOfChannels
    <3> QED
      BY <1>1, <3>1, RunKeeps
  <2>3. ASSUME NEW a \in Sessions
        PROVE  /\ Alive(a)' <=> Alive(a)
               /\ UpHand(a, s)' <=> UpHand(a, s)
               /\ UpHand(a, s) => session'[a].f.n = session[a].f.n
    BY <1>3, <1>10 DEF Alive, UpHand
  <2>4. UpSteady(s)
    BY <2>1, <2>2, <2>3 DEF UpSteady, RunKept, UpTie, relayVars
  <2> QED
    BY <2>4, UpKeep DEF IInv, Shapes, UpInv
<1>11. ASSUME NEW s \in Streams, IsData(f, s) PROVE UpAt(s)'
  <2>1. session'[b].pc = "send" /\ session'[b].f = f /\ s \in known[b]
    BY <1>3, <1>11 DEF IsData
  <2>2. b # None /\ serve[s].home = b
    <3>1. b # None
      BY TunnelAssumption DEF Sessions
    <3>2. owner[s] = b
      BY <2>1 DEF IInv, OwnerInv, Holds
    <3>3. Owned(s)
      BY DEF IInv, OwnerInv
    <3> QED
      BY <3>1, <3>2, <3>3 DEF Owned
  <2>3. sent[<<s, "up">>] \in Nat /\ Len(got[<<s, "up">>]) \in Nat
    BY PipeTypes DEF IInv, Shapes
  <2>4. PICK k \in 0..sent[<<s, "up">>] : Run(tcpq[s], s, Len(got[<<s, "up">>]), k) /\ UpLink(s, k)
    BY DEF IInv, UpInv, UpAt
  <2>5. ~UpHand(b, s) /\ UpHand(b, s)' /\ Alive(b) /\ serve'[s].home = b
    BY <1>11, <2>1, <2>2 DEF UpHand, Alive, relayVars
  <2>6. ASSUME writer[s] # "done"
        PROVE  /\ f.n = k + 1 /\ k + 1 <= sent[<<s, "up">>]
               /\ \E top \in 0..sent[<<s, "up">>] : UpTie(b, s, top) /\ Run(up'[b], s, k + 1, top)
    <3>1. PICK top \in 0..sent[<<s, "up">>] : UpTie(b, s, top) /\ Run(up[b], s, k, top)
      BY <1>1, <2>2, <2>4, <2>5, <2>6 DEF UpLink
    <3>2. k \in Nat /\ top \in Nat /\ up[b] \in Seq(Frames)
      BY <2>3 DEF IInv, Shapes, ShapesOfChannels
    <3>3. f.n = k + 1 /\ k + 1 <= top /\ Run(up'[b], s, k + 1, top)
      BY <1>1, <1>11, <3>1, <3>2, RunTailData
    <3>4. k + 1 <= sent[<<s, "up">>]
      BY <2>3, <3>2, <3>3
    <3> QED
      BY <3>1, <3>3, <3>4
  <2>7. ASSUME NEW top, UpTie(b, s, top) PROVE UpTie(b, s, top)'
    BY <2>7 DEF UpTie, relayVars
  <2>8. UpLink(s, k)'
    BY <2>1, <2>5, <2>6, <2>7 DEF UpLink, relayVars
  <2> QED
    BY <2>4, <2>8 DEF UpAt
<1> QED
  BY <1>4, <1>5, <1>6, <1>7, <1>8, <1>9, <1>10, <1>11 DEF IInv, UpInv

(* The next frame of the relay. *)
LEMMA ReadFrameKeeps ==
  ASSUME IInv, NEW b \in Sessions, ReadFrame(b), UNCHANGED relayVars
  PROVE  IInv'
<1>1. /\ UNCHANGED <<relayVars, tcpq, reader, down, inbox, client, sent, got>>
      /\ session[b].pc = "read" /\ up[b] # <<>> /\ up' = [up EXCEPT ![b] = Tail(@)]
  BY DEF ReadFrame
<1>2. PICK f \in Frames : f = Head(up[b])
  BY <1>1, UpTake
<1>3. PICK r \in Streams : f.s = r
  BY DEF Frames
<1>4. CASE /\ f.kind = "accepted"
           /\ known' = [known EXCEPT ![b] = @ \cup {r}]
           /\ owner' = [owner EXCEPT ![r] = b]
           /\ writer' = [writer EXCEPT ![r] = "connecting"]
           /\ UNCHANGED <<session, link>>
  BY <1>1, <1>2, <1>3, <1>4, AcceptKeeps
<1>5. CASE EndSession(b, "unknown") /\ UNCHANGED <<owner, writer>>
  BY <1>1, <1>5, SessionOver
<1>6. CASE /\ UNCHANGED <<known, owner, writer, link>>
           /\ \/ f.kind = "accepted" /\ SessionTo(b, "refuse", Frame("error", f.s))
              \/ f.kind # "accepted" /\ f.s \in known[b] /\ SessionTo(b, "send", f)
              \/ Terminal(f) /\ session' = session
  BY <1>1, <1>2, <1>6, TakeKeeps
<1> QED
  BY <1>2, <1>3, <1>4, <1>5, <1>6 DEF ReadFrame

(* A bridge connects and is registered. *)
LEMMA RegisterKeeps ==
  ASSUME IInv, NEW b \in Sessions, Register(b)
  PROVE  IInv'
<1>1. /\ UNCHANGED <<lock, streams, closed, serve, up, down, inbox, client, sent, got,
                     known, tcpq, owner, writer, reader>>
      /\ link[b] = "none" /\ lock = None /\ bridge' = b
      /\ link' = [link EXCEPT ![b] = "up"]
      /\ session' = [session EXCEPT ![b].pc = "read"]
      /\ demux' = [demux EXCEPT ![b].pc = "read"]
  BY DEF Register, Connect, RegisterAuthorityBridge
<1>2. /\ session' \in [Sessions -> Loops] /\ session'[b].pc = "read"
      /\ \A a \in Sessions \ {b} : session'[a] = session[a]
  <2>1. SessionAt(b, "read", session[b].f)
    BY <1>1, SessionMoves DEF IInv, Shapes, LoopPCs
  <2> QED
    BY <2>1 DEF SessionAt
<1>3. /\ demux' \in [Sessions -> Demuxes] /\ demux'[b].pc = "read"
      /\ \A a \in Sessions \ {b} : demux'[a] = demux[a]
  <2>1. DemuxAt(b, "read", demux[b].f, demux[b].todo)
    BY <1>1, DemuxMoves DEF IInv, Shapes, DemuxPCs
  <2> QED
    BY <2>1 DEF DemuxAt
<1>4. /\ link' \in [Sessions -> {"none", "up", "broken"}] /\ link'[b] = "up"
      /\ \A a \in Sessions \ {b} : link'[a] = link[a]
  BY <1>1 DEF IInv, Shapes, ShapesOfChannels
<1>5. \A s \in Streams : serve[s].home # b /\ owner[s] # b
  <2>1. b # None
    BY TunnelAssumption DEF Sessions
  <2>2. ASSUME NEW s \in Streams PROVE serve[s].home # b
    BY <1>1, <2>1 DEF IInv, LinkInv
  <2>3. ASSUME NEW s \in Streams PROVE owner[s] # None => serve[s].home = owner[s]
    BY DEF IInv, OwnerInv, Owned
  <2> QED
    BY <2>1, <2>2, <2>3
<1>6. Shapes'
  BY <1>1, <1>2, <1>3, <1>4 DEF IInv, Shapes, ShapesOfRelay, ShapesOfChannels, ShapesOfBridge
<1>7. QueueInv' /\ PlaceInv'
  BY <1>1 DEF IInv, QueueInv, PlaceInv
<1>8. LockInv'
  <2>1. \A a \in Sessions : a # None
    BY TunnelAssumption DEF Sessions
  <2> QED
    BY <1>1, <1>3, <2>1 DEF IInv, LockInv
<1>9. HandInv'
  BY <1>1, <1>2, <1>3 DEF IInv, HandInv
<1>10. LinkInv'
  BY <1>1, <1>4, <1>5 DEF IInv, LinkInv
<1>11. OwnerInv'
  <2>1. ServeForward
    BY <1>1 DEF ServeForward
  <2>2. ASSUME NEW a \in Sessions PROVE UpFrames(a)' /\ DownFrames(a)' /\ Holds(a)'
    BY <1>1, <1>2, <1>3, <2>1, FramesKeep DEF IInv, Shapes, OwnerInv, Holds
  <2>3. ASSUME NEW s \in Streams PROVE Owned(s)'
    BY <1>1 DEF IInv, OwnerInv, Owned
  <2> QED
    BY <2>2, <2>3 DEF OwnerInv
<1>12. ASSUME NEW s \in Streams PROVE UpAt(s)'
  <2>1. sent[<<s, "up">>] \in Nat
    BY PipeTypes DEF IInv, Shapes
  <2>2. UpSteady(s)
    BY <1>1, <1>2, <1>5, <2>1 DEF UpSteady, RunKept, Alive, UpHand, UpTie
  <2> QED
    BY <2>2, UpKeep DEF IInv, Shapes, UpInv
<1>13. ASSUME NEW s \in Streams PROVE DownAt(s)'
  <2>1. sent[<<s, "down">>] \in Nat
    BY PipeTypes DEF IInv, Shapes
  <2>2. DownSteady(s)
    BY <1>1, <1>3, <1>4, <1>5, <2>1 DEF DownSteady, RunKept, DownHand, DownTie
  <2> QED
    BY <2>2, DownKeep DEF IInv, Shapes, DownInv
<1> QED
  BY <1>6, <1>7, <1>8, <1>9, <1>10, <1>11, <1>12, <1>13 DEF IInv, UpInv, DownInv

-----------------------------------------------------------------------------
(* The task of a session at the relay. *)

(* The response of a broken connection is dropped, with what is in it. *)
LEMMA DropResponseKeeps ==
  ASSUME IInv, NEW b \in Sessions, DropResponse(b), UNCHANGED bridgeVars
  PROVE  IInv'
<1>1. /\ UNCHANGED <<bridge, lock, streams, demux, serve, down, inbox, link, client, sent, got, bridgeVars>>
      /\ closed' = [closed EXCEPT ![b] = TRUE] /\ up' = [up EXCEPT ![b] = <<>>]
  BY DEF DropResponse
<1>2. /\ closed' \in [Sessions -> BOOLEAN] /\ closed'[b] /\ \A a \in Sessions \ {b} : closed'[a] = closed[a]
      /\ up' \in [Sessions -> Seq(Frames)] /\ up'[b] = <<>> /\ \A a \in Sessions \ {b} : up'[a] = up[a]
  BY <1>1 DEF IInv, Shapes, ShapesOfRelay, ShapesOfChannels
<1>3. Shapes'
  BY <1>1, <1>2 DEF IInv, Shapes, ShapesOfRelay, ShapesOfChannels, ShapesOfBridge, bridgeVars
<1>4. QueueInv'
  <2>1. Len(<<>>) <= RelayCap
    BY TunnelAssumption
  <2> QED
    BY <1>1, <1>2, <2>1 DEF IInv, QueueInv, bridgeVars
<1>5. LockInv' /\ PlaceInv' /\ HandInv'
  BY <1>1 DEF IInv, LockInv, PlaceInv, HandInv, bridgeVars
<1>6. LinkInv'
  BY <1>1, <1>2 DEF IInv, LinkInv
<1>7. OwnerInv'
  <2>1. ASSUME NEW a \in Sessions PROVE UpFrames(a)'
    <3>1. CASE a = b
      BY <1>2, <3>1 DEF UpFrames
    <3>2. CASE a # b
      BY <1>1, <1>2, <3>2 DEF IInv, OwnerInv, UpFrames, bridgeVars
    <3> QED
      BY <3>1, <3>2
  <2>2. ASSUME NEW a \in Sessions PROVE DownFrames(a)' /\ Holds(a)'
    BY <1>1 DEF IInv, OwnerInv, DownFrames, Holds, bridgeVars
  <2>3. ASSUME NEW s \in Streams PROVE Owned(s)'
    BY <1>1 DEF IInv, OwnerInv, Owned, bridgeVars
  <2> QED
    BY <2>1, <2>2, <2>3 DEF OwnerInv
<1>8. ASSUME NEW s \in Streams PROVE UpAt(s)'
  <2>1. sent[<<s, "up">>] \in Nat
    BY PipeTypes DEF IInv, Shapes
  <2>2. UpSteady(s)
    BY <1>1, <1>2, <2>1 DEF UpSteady, RunKept, Alive, UpHand, UpTie, bridgeVars
  <2> QED
    BY <2>2, UpKeep DEF IInv, Shapes, UpInv
<1>9. DownInv'
  BY <1>1, DownIdle DEF IInv, Shapes, bridgeVars
<1> QED
  BY <1>3, <1>4, <1>5, <1>6, <1>7, <1>8, <1>9 DEF IInv, UpInv

(* The teardown takes every stream. *)
LEMMA TeardownKeeps ==
  ASSUME IInv, NEW b \in Sessions, Teardown(b), UNCHANGED bridgeVars
  PROVE  IInv'
<1>1. /\ UNCHANGED <<closed, serve, up, down, inbox, link, client, sent, got, bridgeVars>>
      /\ demux[b].pc = "end" /\ lock = None /\ lock' = b /\ streams' = {}
      /\ bridge' = IF bridge = b THEN None ELSE bridge
      /\ demux' = [demux EXCEPT ![b].pc = "tear", ![b].todo = streams]
  BY DEF Teardown, channelVars
<1>2. /\ demux' \in [Sessions -> Demuxes] /\ demux'[b].pc = "tear"
      /\ \A a \in Sessions \ {b} : demux'[a] = demux[a]
  <2>1. streams \in SUBSET Streams
    BY DEF IInv, Shapes, ShapesOfRelay
  <2>2. DemuxAt(b, "tear", demux[b].f, streams)
    <3>1. demux[b].f \in Frames \cup {None} /\ "tear" \in DemuxPCs
      BY DEF IInv, Shapes, ShapesOfRelay, Demuxes, DemuxPCs
    <3> QED
      BY <1>1, <2>1, <3>1, DemuxMoves DEF IInv, Shapes
  <2> QED
    BY <2>2 DEF DemuxAt
<1>3. Shapes'
  BY <1>1, <1>2 DEF IInv, Shapes, ShapesOfRelay, ShapesOfChannels, ShapesOfBridge, bridgeVars
<1>4. QueueInv' /\ PlaceInv' /\ HandInv'
  BY <1>1, <1>2 DEF IInv, QueueInv, PlaceInv, HandInv, bridgeVars
<1>5. LockInv'
  <2>1. \A a \in Sessions : a # None
    BY TunnelAssumption DEF Sessions
  <2> QED
    BY <1>1, <1>2, <2>1 DEF IInv, LockInv
<1>6. LinkInv'
  <2>1. ASSUME NEW s \in Streams, serve[s].pc = "send" PROVE serve[s].home # None
    BY <2>1 DEF IInv, HandInv
  <2> QED
    BY <1>1, <2>1 DEF IInv, LinkInv
<1>7. OwnerInv'
  <2>1. ServeForward
    BY <1>1 DEF ServeForward
  <2> QED
    BY <1>1, <1>2, <2>1, OwnerIdle DEF IInv, Shapes, bridgeVars
<1>8. ASSUME NEW s \in Streams PROVE UpAt(s)'
  <2>1. sent[<<s, "up">>] \in Nat
    BY PipeTypes DEF IInv, Shapes
  <2>2. \A a \in Sessions : bridge' = a => bridge = a
    <3>1. \A a \in Sessions : a # None
      BY TunnelAssumption DEF Sessions
    <3> QED
      BY <1>1, <3>1
  <2>3. UpSteady(s)
    BY <1>1, <2>1, <2>2 DEF UpSteady, RunKept, Alive, UpHand, UpTie, bridgeVars
  <2> QED
    BY <2>3, UpKeep DEF IInv, Shapes, UpInv
<1>9. ASSUME NEW s \in Streams PROVE DownAt(s)'
  <2>1. sent[<<s, "down">>] \in Nat
    BY PipeTypes DEF IInv, Shapes
  <2>2. DownSteady(s)
    BY <1>1, <1>2, <2>1 DEF DownSteady, RunKept, DownHand, DownTie, bridgeVars
  <2> QED
    BY <2>2, DownKeep DEF IInv, Shapes, DownInv
<1> QED
  BY <1>3, <1>4, <1>5, <1>6, <1>7, <1>8, <1>9 DEF IInv, UpInv, DownInv

(* The connector's queue with one more frame of its stream. *)
LEMMA InboxAppend ==
  ASSUME IInv, NEW s \in Streams, NEW f \in Frames, f.s = s, Room(inbox[s], RelayCap),
         inbox' = [inbox EXCEPT ![s] = Append(@, f)]
  PROVE  /\ inbox' \in [Streams -> Seq(Frames)] /\ inbox'[s] = Append(inbox[s], f)
         /\ inbox[s] \in Seq(Frames)
         /\ \A r \in Streams : r # s => inbox'[r] = inbox[r]
         /\ \A r \in Streams : Len(inbox'[r]) <= RelayCap /\ OfStream(inbox'[r], r)
<1>1. inbox \in [Streams -> Seq(Frames)] /\ inbox[s] \in Seq(Frames)
  BY DEF IInv, Shapes, ShapesOfChannels
<1>2. /\ Append(inbox[s], f) \in Seq(Frames) /\ Len(Append(inbox[s], f)) = Len(inbox[s]) + 1
      /\ Len(inbox[s]) \in Nat
  BY <1>1, QueueAppend
<1>3. OfStream(Append(inbox[s], f), s)
  BY <1>1, OfStreamKeeps DEF IInv, QueueInv
<1>4. RelayCap \in Nat /\ Len(inbox[s]) < RelayCap
  BY TunnelAssumption DEF Room
<1>5. Len(Append(inbox[s], f)) <= RelayCap
  BY <1>2, <1>4
<1>6. /\ inbox' \in [Streams -> Seq(Frames)] /\ inbox'[s] = Append(inbox[s], f)
      /\ \A r \in Streams : r # s => inbox'[r] = inbox[r]
  BY <1>1, <1>2
<1> QED
  BY <1>1, <1>3, <1>5, <1>6 DEF IInv, QueueInv

(* A stream of the teardown is told. *)
LEMMA TeardownSendKeeps ==
  ASSUME IInv, NEW b \in Sessions, TeardownSend(b), UNCHANGED bridgeVars
  PROVE  IInv'
<1>1. /\ UNCHANGED <<bridge, lock, streams, closed, serve, up, down, link, client, sent, got, bridgeVars>>
      /\ demux[b].pc = "tear"
  BY DEF TeardownSend
<1>2. PICK s \in demux[b].todo :
        /\ \/ UNCHANGED inbox
           \/ Room(inbox[s], RelayCap) /\ inbox' = [inbox EXCEPT ![s] = Append(@, Frame("error", s))]
        /\ demux' = [demux EXCEPT ![b].todo = @ \ {s}]
  BY DEF TeardownSend
<1>3. s \in Streams /\ demux[b].todo \in SUBSET Streams
  BY DEF IInv, Shapes, ShapesOfRelay, Demuxes
<1>4. /\ demux' \in [Sessions -> Demuxes]
      /\ \A a \in Sessions : demux'[a].pc = demux[a].pc /\ demux'[a].f = demux[a].f
  <2>1. DemuxAt(b, demux[b].pc, demux[b].f, demux[b].todo \ {s})
    <3>1. demux[b].f \in Frames \cup {None} /\ demux[b].pc \in DemuxPCs
      BY DEF IInv, Shapes, ShapesOfRelay, Demuxes, DemuxPCs
    <3>2. demux[b].todo \ {s} \in SUBSET Streams
      BY <1>3
    <3>3. demux' = [demux EXCEPT ![b].todo = demux[b].todo \ {s}]
      BY <1>2 DEF IInv, Shapes, ShapesOfRelay
    <3> QED
      BY <3>1, <3>2, <3>3, DemuxMoves DEF IInv, Shapes
  <2> QED
    BY <2>1 DEF DemuxAt
<1>5. Frame("error", s) \in Frames /\ Frame("error", s).s = s /\ Frame("error", s).kind # "data"
  BY <1>3, PlainFrame
<1>6. /\ inbox \in [Streams -> Seq(Frames)] /\ inbox' \in [Streams -> Seq(Frames)]
      /\ \A r \in Streams : Len(inbox'[r]) <= RelayCap /\ OfStream(inbox'[r], r)
      /\ \A r \in Streams : inbox'[r] = inbox[r] \/ inbox'[r] = Append(inbox[r], Frame("error", s))
  <2>1. CASE inbox' = inbox
    BY <2>1 DEF IInv, Shapes, ShapesOfChannels, QueueInv
  <2>2. CASE Room(inbox[s], RelayCap) /\ inbox' = [inbox EXCEPT ![s] = Append(@, Frame("error", s))]
    BY <1>3, <1>5, <2>2, InboxAppend DEF IInv, Shapes, ShapesOfChannels
  <2> QED
    BY <1>2, <2>1, <2>2
<1>7. Shapes'
  BY <1>1, <1>4, <1>6 DEF IInv, Shapes, ShapesOfRelay, ShapesOfChannels, ShapesOfBridge, bridgeVars
<1>8. QueueInv' /\ PlaceInv' /\ LinkInv'
  BY <1>1, <1>6 DEF IInv, QueueInv, PlaceInv, LinkInv, bridgeVars
<1>9. LockInv' /\ HandInv'
  BY <1>1, <1>4 DEF IInv, LockInv, HandInv, bridgeVars
<1>10. OwnerInv'
  <2>1. ServeForward
    BY <1>1 DEF ServeForward
  <2> QED
    BY <1>1, <1>4, <2>1, OwnerIdle DEF IInv, Shapes, bridgeVars
<1>11. UpInv'
  BY <1>1, UpIdle DEF IInv, Shapes, bridgeVars
<1>12. ASSUME NEW r \in Streams PROVE DownAt(r)'
  <2>1. sent[<<r, "down">>] \in Nat
    BY PipeTypes DEF IInv, Shapes
  <2>2. RunKept(inbox[r], inbox'[r], r)
    <3>1. inbox[r] \in Seq(Frames) /\ ~IsData(Frame("error", s), r)
      BY <1>5, <1>6 DEF IsData
    <3> QED
      BY <1>5, <1>6, <3>1, RunKeeps
  <2>3. DownSteady(r)
    BY <1>1, <1>4, <2>1, <2>2 DEF DownSteady, RunKept, DownHand, DownTie, bridgeVars
  <2> QED
    BY <2>3, DownKeep DEF IInv, Shapes, DownInv
<1> QED
  BY <1>7, <1>8, <1>9, <1>10, <1>11, <1>12 DEF IInv, DownInv

(* The teardown lets the mutex go. *)
LEMMA TeardownDoneKeeps ==
  ASSUME IInv, NEW b \in Sessions, TeardownDone(b), UNCHANGED bridgeVars
  PROVE  IInv'
<1>1. /\ UNCHANGED <<bridge, streams, closed, serve, up, down, inbox, link, client, sent, got, bridgeVars>>
      /\ demux[b].pc = "tear" /\ lock' = None
      /\ demux' = [demux EXCEPT ![b].pc = "done"]
  BY DEF TeardownDone, DemuxTo, channelVars
<1>2. /\ demux' \in [Sessions -> Demuxes] /\ demux'[b].pc = "done"
      /\ \A a \in Sessions \ {b} : demux'[a] = demux[a]
  <2>1. DemuxAt(b, "done", demux[b].f, demux[b].todo)
    BY <1>1, DemuxMoves DEF IInv, Shapes, DemuxPCs
  <2> QED
    BY <2>1 DEF DemuxAt
<1>3. Shapes'
  BY <1>1, <1>2 DEF IInv, Shapes, ShapesOfRelay, ShapesOfChannels, ShapesOfBridge, bridgeVars
<1>4. QueueInv' /\ PlaceInv' /\ HandInv' /\ LinkInv'
  BY <1>1, <1>2 DEF IInv, QueueInv, PlaceInv, HandInv, LinkInv, bridgeVars
<1>5. LockInv'
  <2>1. \A a \in Sessions : a # None
    BY TunnelAssumption DEF Sessions
  <2> QED
    BY <1>1, <1>2, <2>1 DEF IInv, LockInv
<1>6. OwnerInv'
  <2>1. ServeForward
    BY <1>1 DEF ServeForward
  <2> QED
    BY <1>1, <1>2, <2>1, OwnerIdle DEF IInv, Shapes, bridgeVars
<1>7. UpInv'
  BY <1>1, UpIdle DEF IInv, Shapes, bridgeVars
<1>8. ASSUME NEW s \in Streams PROVE DownAt(s)'
  <2>1. sent[<<s, "down">>] \in Nat
    BY PipeTypes DEF IInv, Shapes
  <2>2. DownSteady(s)
    BY <1>1, <1>2, <2>1 DEF DownSteady, RunKept, DownHand, DownTie, bridgeVars
  <2> QED
    BY <2>2, DownKeep DEF IInv, Shapes, DownInv
<1> QED
  BY <1>3, <1>4, <1>5, <1>6, <1>7, <1>8 DEF IInv, DownInv

(* The end of the bridge's input: what it still held is not read. *)
LEMMA DemuxEndKeeps ==
  ASSUME IInv, NEW b \in Sessions, demux[b].pc = "read", DemuxTo(b, "end"),
         down' = [down EXCEPT ![b] = <<>>],
         UNCHANGED <<bridge, lock, streams, closed, serve, up, inbox, link, client, sent, got, bridgeVars>>
  PROVE  IInv'
<1>1. /\ demux' \in [Sessions -> Demuxes] /\ demux'[b].pc = "end"
      /\ \A a \in Sessions \ {b} : demux'[a] = demux[a]
  <2>1. DemuxAt(b, "end", demux[b].f, demux[b].todo)
    BY DemuxMoves DEF IInv, Shapes, DemuxPCs, DemuxTo
  <2> QED
    BY <2>1 DEF DemuxAt
<1>2. /\ down' \in [Sessions -> Seq(Frames)] /\ down'[b] = <<>>
      /\ \A a \in Sessions \ {b} : down'[a] = down[a]
  BY DEF IInv, Shapes, ShapesOfChannels
<1>3. Shapes'
  BY <1>1, <1>2 DEF IInv, Shapes, ShapesOfRelay, ShapesOfChannels, ShapesOfBridge, bridgeVars
<1>4. QueueInv'
  <2>1. Len(<<>>) <= BridgeCap
    BY TunnelAssumption
  <2> QED
    BY <1>2, <2>1 DEF IInv, QueueInv, bridgeVars
<1>5. PlaceInv' /\ HandInv' /\ LinkInv' /\ LockInv'
  BY <1>1 DEF IInv, PlaceInv, HandInv, LinkInv, LockInv, bridgeVars
<1>6. OwnerInv'
  <2>1. ServeForward
    BY DEF ServeForward
  <2>2. ASSUME NEW a \in Sessions PROVE UpFrames(a)' /\ Holds(a)'
    BY <1>1, <2>1, FramesKeep DEF IInv, Shapes, OwnerInv, Holds, bridgeVars
  <2>3. ASSUME NEW a \in Sessions PROVE DownFrames(a)'
    BY <1>2 DEF IInv, OwnerInv, DownFrames, bridgeVars
  <2>4. ASSUME NEW s \in Streams PROVE Owned(s)'
    BY DEF IInv, OwnerInv, Owned, bridgeVars
  <2> QED
    BY <2>2, <2>3, <2>4 DEF OwnerInv
<1>7. UpInv'
  BY UpIdle DEF IInv, Shapes, bridgeVars
<1>8. ASSUME NEW s \in Streams PROVE DownAt(s)'
  <2>1. sent[<<s, "down">>] \in Nat
    BY PipeTypes DEF IInv, Shapes
  <2>2. DownSteady(s)
    BY <1>1, <1>2, <2>1 DEF DownSteady, RunKept, DownHand, DownTie, bridgeVars
  <2> QED
    BY <2>2, DownKeep DEF IInv, Shapes, DownInv
<1> QED
  BY <1>3, <1>4, <1>5, <1>6, <1>7, <1>8 DEF IInv, DownInv

(* The next frame of the bridge is taken in hand, or dropped. *)
LEMMA DemuxTakeKeeps ==
  ASSUME IInv, NEW b \in Sessions, NEW f, demux[b].pc = "read", down[b] # <<>>, f = Head(down[b]),
         demux' = IF f.s \in streams THEN [demux EXCEPT ![b].pc = "send", ![b].f = f] ELSE demux,
         down' = [down EXCEPT ![b] = Tail(@)],
         UNCHANGED <<bridge, lock, streams, closed, serve, up, inbox, link, client, sent, got, bridgeVars>>
  PROVE  IInv'
<1>1. down \in [Sessions -> Seq(Frames)] /\ down[b] \in Seq(Frames)
  BY DEF IInv, Shapes, ShapesOfChannels
<1>2. /\ Len(down[b]) \in Nat \ {0} /\ f = down[b][1] /\ f \in Frames
      /\ Tail(down[b]) \in Seq(Frames) /\ Len(Tail(down[b])) = Len(down[b]) - 1
      /\ \A i \in 1..Len(Tail(down[b])) : i + 1 \in 1..Len(down[b]) /\ Tail(down[b])[i] = down[b][i + 1]
  BY <1>1, QueueTail
<1>3. /\ down' \in [Sessions -> Seq(Frames)] /\ down'[b] = Tail(down[b])
      /\ \A a \in Sessions \ {b} : down'[a] = down[a]
  BY <1>1, <1>2
<1>4. f.s \in Streams /\ (f.kind = "data" => owner[f.s] = b)
  <2>1. 1 \in 1..Len(down[b]) /\ DownFrames(b)
    BY <1>2 DEF IInv, OwnerInv
  <2> QED
    BY <1>2, <2>1 DEF DownFrames, Frames
<1>5. /\ demux' \in [Sessions -> Demuxes] /\ \A a \in Sessions \ {b} : demux'[a] = demux[a]
      /\ \/ f.s \in streams /\ demux'[b].pc = "send" /\ demux'[b].f = f
         \/ f.s \notin streams /\ demux'[b].pc = "read"
  <2>1. CASE f.s \in streams
    <3>1. demux' = [demux EXCEPT ![b].pc = "send", ![b].f = f]
      BY <2>1
    <3>2. DemuxAt(b, "send", f, demux[b].todo)
      BY <1>2, <3>1, DemuxMoves DEF IInv, Shapes, DemuxPCs
    <3> QED
      BY <2>1, <3>2 DEF DemuxAt
  <2>2. CASE f.s \notin streams
    BY <2>2 DEF IInv, Shapes, ShapesOfRelay
  <2> QED
    BY <2>1, <2>2
<1>6. Shapes'
  BY <1>3, <1>5 DEF IInv, Shapes, ShapesOfRelay, ShapesOfChannels, ShapesOfBridge, bridgeVars
<1>7. QueueInv'
  <2>1. Len(down[b]) <= BridgeCap /\ BridgeCap \in Nat
    BY TunnelAssumption DEF IInv, QueueInv
  <2>2. Len(down'[b]) <= BridgeCap
    BY <1>2, <1>3, <2>1
  <2> QED
    BY <1>3, <2>2 DEF IInv, QueueInv, bridgeVars
<1>8. PlaceInv' /\ LinkInv' /\ LockInv'
  BY <1>5 DEF IInv, PlaceInv, LinkInv, LockInv, bridgeVars
<1>9. HandInv'
  BY <1>2, <1>5 DEF IInv, HandInv, bridgeVars
<1>10. OwnerInv'
  <2>1. ServeForward
    BY DEF ServeForward
  <2>2. ASSUME NEW a \in Sessions PROVE UpFrames(a)' /\ Holds(a)'
    BY <1>4, <1>5, <2>1, FramesKeep DEF IInv, Shapes, OwnerInv, Holds, bridgeVars
  <2>3. ASSUME NEW a \in Sessions PROVE DownFrames(a)'
    <3>1. CASE a # b
      BY <1>3, <3>1 DEF IInv, OwnerInv, DownFrames, bridgeVars
    <3>2. DownFrames(b) /\ owner' = owner
      BY DEF IInv, OwnerInv, bridgeVars
    <3>3. \A i \in 1..Len(Tail(down[b])) : Tail(down[b])[i].kind = "data" => owner[Tail(down[b])[i].s] = b
      BY <1>2, <3>2 DEF DownFrames
    <3>4. CASE a = b
      BY <1>3, <3>2, <3>3, <3>4 DEF DownFrames
    <3> QED
      BY <3>1, <3>4
  <2>4. ASSUME NEW s \in Streams PROVE Owned(s)'
    BY DEF IInv, OwnerInv, Owned, bridgeVars
  <2> QED
    BY <2>2, <2>3, <2>4 DEF OwnerInv
<1>11. UpInv'
  BY UpIdle DEF IInv, Shapes, bridgeVars
<1>12. ASSUME NEW s \in Streams, ~IsData(f, s) \/ s \notin streams PROVE DownAt(s)'
  <2>1. sent[<<s, "down">>] \in Nat
    BY PipeTypes DEF IInv, Shapes
  <2>2. ~DownHand(b, s) /\ ~DownHand(b, s)'
    BY <1>5, <1>12 DEF DownHand, IsData
  <2>3. ASSUME NEW a \in Sessions, ~IsData(f, s) PROVE RunKept(down[a], down'[a], s)
    BY <1>1, <1>3, <2>3, RunKeeps
  <2>4. IsData(f, s) => owner[s] = b
    BY <1>4 DEF IsData
  <2>5. ASSUME NEW a \in Sessions, owner[s] = a, s \in streams \/ DownHand(a, s)'
        PROVE  RunKept(down[a], down'[a], s)
    <3>1. CASE ~IsData(f, s)
      BY <2>3, <3>1
    <3>2. CASE IsData(f, s)
      BY <1>12, <2>2, <2>4, <2>5, <3>2
    <3> QED
      BY <3>1, <3>2
  <2>6. DownSteady(s)
    BY <1>5, <2>1, <2>2, <2>5 DEF DownSteady, RunKept, DownHand, DownTie, bridgeVars
  <2> QED
    BY <2>6, DownKeep DEF IInv, Shapes, DownInv
<1>13. ASSUME NEW s \in Streams, IsData(f, s), s \in streams PROVE DownAt(s)'
  <2> SUFFICES ASSUME client[s] # "gone" PROVE DownAt(s)'
    BY DEF DownAt
  <2>1. owner[s] = b /\ b # None
    BY <1>4, <1>13, TunnelAssumption DEF IsData, Sessions
  <2>2. PICK k \in 0..sent[<<s, "down">>] : Run(inbox[s], s, Len(got[<<s, "down">>]), k) /\ DownLink(s, k)
    BY DEF IInv, DownInv, DownAt
  <2>3. ~DownHand(b, s) /\ DownHand(b, s)' /\ demux'[b].f = f /\ owner'[s] = b
    BY <1>5, <1>13, <2>1 DEF DownHand, IsData, bridgeVars
  <2>4. PICK top \in 0..sent[<<s, "down">>] : DownTie(b, s, top) /\ Run(down[b], s, k, top)
    BY <1>13, <2>1, <2>2, <2>3 DEF DownLink
  <2>5. sent[<<s, "down">>] \in Nat
    BY PipeTypes DEF IInv, Shapes
  <2>6. k \in Nat /\ top \in Nat
    BY <2>5
  <2>7. f.n = k + 1 /\ Run(down'[b], s, k + 1, top)
    BY <1>1, <1>3, <1>13, <2>4, <2>6, RunTailData
  <2>8. DownTie(b, s, top)'
    BY <2>4 DEF DownTie, bridgeVars
  <2>9. DownLink(s, k)'
    BY <2>3, <2>4, <2>7, <2>8 DEF DownLink
  <2> QED
    BY <2>2, <2>9 DEF DownAt
<1> QED
  BY <1>6, <1>7, <1>8, <1>9, <1>10, <1>11, <1>12, <1>13 DEF IInv, DownInv

(* A step of the demultiplexer's read. *)
LEMMA DemuxReadKeeps ==
  ASSUME IInv, NEW b \in Sessions, DemuxRead(b), UNCHANGED bridgeVars
  PROVE  IInv'
BY DemuxTakeKeeps, DemuxEndKeeps DEF DemuxRead

(* The frame in hand goes to the connector, or finds it gone. *)
LEMMA DemuxSendKeeps ==
  ASSUME IInv, NEW b \in Sessions, DemuxSend(b), UNCHANGED bridgeVars
  PROVE  IInv'
<1>1. /\ UNCHANGED <<bridge, lock, closed, serve, up, down, link, client, sent, got, bridgeVars>>
      /\ demux[b].pc = "send" /\ demux' = [demux EXCEPT ![b].pc = "read", ![b].f = None]
  BY DEF DemuxSend
<1>2. PICK f \in Frames : f = demux[b].f
  BY <1>1 DEF IInv, HandInv
<1>3. PICK r \in Streams : r = f.s
  BY DEF Frames
<1>4. \/ client[r] = "gone" /\ inbox' = inbox /\ streams' = streams
      \/ /\ client[r] # "gone" /\ Room(inbox[r], RelayCap)
         /\ inbox' = [inbox EXCEPT ![r] = Append(@, f)]
         /\ streams' = IF Terminal(f) THEN streams \ {r} ELSE streams
  BY <1>2, <1>3 DEF DemuxSend
<1>5. /\ demux' \in [Sessions -> Demuxes] /\ demux'[b].pc = "read"
      /\ \A a \in Sessions \ {b} : demux'[a] = demux[a]
  <2>1. DemuxAt(b, "read", None, demux[b].todo)
    BY <1>1, DemuxMoves DEF IInv, Shapes, DemuxPCs
  <2> QED
    BY <2>1 DEF DemuxAt
<1>6. /\ inbox \in [Streams -> Seq(Frames)] /\ inbox' \in [Streams -> Seq(Frames)]
      /\ \A s \in Streams : Len(inbox'[s]) <= RelayCap /\ OfStream(inbox'[s], s)
      /\ \A s \in Streams : s # r => inbox'[s] = inbox[s]
      /\ \/ client[r] = "gone" /\ inbox'[r] = inbox[r]
         \/ inbox'[r] = Append(inbox[r], f)
  <2>1. CASE client[r] = "gone" /\ inbox' = inbox
    BY <2>1 DEF IInv, Shapes, ShapesOfChannels, QueueInv
  <2>2. CASE Room(inbox[r], RelayCap) /\ inbox' = [inbox EXCEPT ![r] = Append(@, f)]
    BY <1>3, <2>2, InboxAppend DEF IInv, Shapes, ShapesOfChannels
  <2> QED
    BY <1>4, <2>1, <2>2
<1>7. /\ streams \in SUBSET Streams /\ streams' \subseteq streams
      /\ f.kind = "data" => streams' = streams
  BY <1>4 DEF Terminal, IInv, Shapes, ShapesOfRelay
<1>8. Shapes'
  BY <1>1, <1>5, <1>6, <1>7 DEF IInv, Shapes, ShapesOfRelay, ShapesOfChannels, ShapesOfBridge, bridgeVars
<1>9. QueueInv' /\ LinkInv'
  BY <1>1, <1>6 DEF IInv, QueueInv, LinkInv, bridgeVars
<1>10. LockInv' /\ HandInv' /\ PlaceInv'
  BY <1>1, <1>5, <1>7 DEF IInv, LockInv, HandInv, PlaceInv, bridgeVars
<1>11. OwnerInv'
  <2>1. ServeForward
    BY <1>1 DEF ServeForward
  <2> QED
    BY <1>1, <1>5, <2>1, OwnerIdle DEF IInv, Shapes, bridgeVars
<1>12. UpInv'
  BY <1>1, UpIdle DEF IInv, Shapes, bridgeVars
<1>13. ASSUME NEW s \in Streams, ~IsData(f, s) \/ client[s] = "gone" PROVE DownAt(s)'
  <2> SUFFICES ASSUME client[s] # "gone" PROVE DownAt(s)'
    BY <1>1 DEF DownAt
  <2>1. sent[<<s, "down">>] \in Nat
    BY PipeTypes DEF IInv, Shapes
  <2>2. ~DownHand(b, s) /\ ~DownHand(b, s)'
    BY <1>2, <1>5, <1>13 DEF DownHand
  <2>3. RunKept(inbox[s], inbox'[s], s)
    <3>1. inbox[s] \in Seq(Frames)
      BY <1>6
    <3> QED
      BY <1>6, <1>13, <3>1, RunKeeps
  <2>4. DownSteady(s)
    BY <1>1, <1>5, <1>7, <2>1, <2>2, <2>3 DEF DownSteady, RunKept, DownHand, DownTie, bridgeVars
  <2> QED
    BY <2>4, DownKeep DEF IInv, Shapes, DownInv
<1>14. ASSUME f.kind = "data", client[r] # "gone" PROVE DownAt(r)'
  <2>1. IsData(f, r) /\ DownHand(b, r) /\ owner[r] = b /\ b # None
    <3>1. IsData(f, r) /\ DownHand(b, r)
      BY <1>1, <1>2, <1>3, <1>14 DEF IsData, DownHand
    <3>2. owner[r] = b
      BY <1>1, <1>2, <1>3, <1>14 DEF IInv, OwnerInv, Holds
    <3>3. b # None
      BY TunnelAssumption DEF Sessions
    <3> QED
      BY <3>1, <3>2, <3>3
  <2>2. PICK k \in 0..sent[<<r, "down">>] : Run(inbox[r], r, Len(got[<<r, "down">>]), k) /\ DownLink(r, k)
    BY <1>14 DEF IInv, DownInv, DownAt
  <2>3. PICK top \in 0..sent[<<r, "down">>] :
          DownTie(b, r, top) /\ f.n = k + 1 /\ Run(down[b], r, k + 1, top)
    BY <1>1, <1>2, <2>1, <2>2 DEF DownLink
  <2>4. sent[<<r, "down">>] \in Nat /\ Len(got[<<r, "down">>]) \in Nat
    BY PipeTypes DEF IInv, Shapes
  <2>5. k \in Nat /\ k + 1 \in 0..sent[<<r, "down">>]
    BY <2>3, <2>4 DEF Run
  <2>6. inbox'[r] = Append(inbox[r], f) /\ inbox[r] \in Seq(Frames)
    BY <1>6, <1>14
  <2>7. Run(inbox'[r], r, Len(got[<<r, "down">>]), k + 1)
    BY <2>1, <2>2, <2>3, <2>4, <2>5, <2>6, RunAppendData
  <2>8. ~DownHand(b, r)' /\ owner'[r] = b
    BY <1>1, <1>5, <2>1 DEF DownHand, bridgeVars
  <2>9. DownTie(b, r, top)'
    BY <1>1, <2>3 DEF DownTie, bridgeVars
  <2>10. DownLink(r, k + 1)'
    BY <1>1, <2>3, <2>8, <2>9 DEF DownLink
  <2> QED
    BY <1>1, <2>5, <2>7, <2>10 DEF DownAt
<1>15. ASSUME NEW s \in Streams PROVE DownAt(s)'
  <2>1. CASE s = r /\ f.kind = "data" /\ client[r] # "gone"
    BY <1>14, <2>1
  <2>2. CASE ~(s = r /\ f.kind = "data" /\ client[r] # "gone")
    BY <1>3, <1>13, <2>2 DEF IsData
  <2> QED
    BY <2>1, <2>2
<1> QED
  BY <1>8, <1>9, <1>10, <1>11, <1>12, <1>15 DEF IInv, DownInv

-----------------------------------------------------------------------------
(* The task of a stream at the relay. *)

(* The task of stream s goes to pc with frame f in hand, having changed no more *)
(* than its place, the connector's end and what it sends.                       *)
TaskMoves(s, pc, via, f) ==
  /\ ServeAt(s, pc, serve[s].home, via, f)
  /\ serve[s].pc # "none" /\ pc # "none"
  /\ UNCHANGED <<bridge, lock, closed, demux, down, link, got, bridgeVars>>
  /\ pc \in {"lookup", "send"} =>
       /\ f \in Frames /\ f.s = s /\ f.kind \in {"data", "closed", "error", "left"}
       /\ f.kind = "data" => f.n = sent'[<<s, "up">>]
       /\ f.kind = "left" => s \notin streams'
  /\ pc = "send" => via \in Sessions /\ (serve[s].home = bridge => via = bridge)
  /\ pc = "insert" => s \notin streams'
  /\ pc = "done" => s \notin streams'
  /\ serve[s].pc \notin Unannounced => pc \notin Unannounced
  /\ pc \in Unannounced \cup {"opened"} => serve[s].pc \in Unannounced \cup {"opened"}

(* The connector's end as a step of its stream's task leaves it. *)
EndMoves(s) ==
  /\ client' \in [Streams -> {"none", "waiting", "up", "gone"}]
  /\ client'[s] = client[s] \/ client'[s] = "gone"
  /\ \A r \in Streams : r # s => client'[r] = client[r]
  /\ inbox' \in [Streams -> Seq(Frames)]
  /\ \A r \in Streams : Len(inbox'[r]) <= RelayCap /\ OfStream(inbox'[r], r)
  /\ \A r \in Streams : client'[r] # "gone" => RunKept(inbox[r], inbox'[r], r)

(* The places, as a step of stream s leaves them. *)
PlaceMoves(s) ==
  /\ streams' \in SUBSET Streams
  /\ \A r \in Streams : r # s /\ r \in streams' => r \in streams
  /\ s \in streams' => s \in streams \/ owner[s] = None

(* The counts of what was sent, as a step of stream s leaves them. *)
SentMoves(s, pc) ==
  /\ sent' \in [Pipes -> Nat] /\ sent[<<s, "up">>] <= sent'[<<s, "up">>]
  /\ \A r \in Streams : sent'[<<r, "down">>] = sent[<<r, "down">>]
  /\ \A r \in Streams : r # s => sent'[<<r, "up">>] = sent[<<r, "up">>]
  /\ pc \in Unannounced \cup {"opened"} => sent'[<<s, "up">>] = sent[<<s, "up">>]

(* What it sent to a session, and its own way up, are for the step to show. *)
LEMMA TaskKeeps ==
  ASSUME IInv, NEW s \in Streams, NEW pc, NEW via, NEW f,
         TaskMoves(s, pc, via, f), EndMoves(s), PlaceMoves(s), SentMoves(s, pc),
         up' \in [Sessions -> Seq(Frames)],
         \A a \in Sessions : /\ Len(up'[a]) <= RelayCap /\ UpFrames(a)'
                             /\ closed[a] => up'[a] = <<>>
                             /\ \A r \in Streams : r # s => RunKept(up[a], up'[a], r),
         UpAt(s)'
  PROVE  IInv'
<1>1. /\ serve' \in [Streams -> Serves] /\ \A r \in Streams : r # s => serve'[r] = serve[r]
      /\ serve'[s].pc = pc /\ serve'[s].home = serve[s].home /\ serve'[s].via = via /\ serve'[s].f = f
      /\ serve[s].pc # "none" /\ pc # "none"
      /\ UNCHANGED <<bridge, lock, closed, demux, down, link, got, bridgeVars>>
  BY DEF TaskMoves, ServeAt
<1>2. Shapes'
  BY <1>1 DEF IInv, Shapes, ShapesOfRelay, ShapesOfChannels, ShapesOfBridge, bridgeVars,
              EndMoves, PlaceMoves, SentMoves
<1>3. QueueInv'
  BY <1>1 DEF IInv, QueueInv, EndMoves, bridgeVars
<1>4. LockInv'
  BY <1>1 DEF IInv, LockInv
<1>5. HandInv'
  <2>1. ASSUME NEW a \in Sessions
        PROVE  /\ demux'[a].pc = "send" => demux'[a].f \in Frames
               /\ session'[a].pc \in {"send", "refuse"} => session'[a].f \in Frames
               /\ session'[a].pc = "send" => session'[a].f.kind \in {"data", "closed", "error"}
               /\ session'[a].pc = "refuse" => session'[a].f.kind = "error"
    BY <1>1 DEF IInv, HandInv, bridgeVars
  <2>2. /\ serve'[s].pc \in {"lookup", "send"} =>
            /\ serve'[s].f \in Frames /\ serve'[s].f.s = s
            /\ serve'[s].f.kind \in {"data", "closed", "error", "left"}
            /\ serve'[s].f.kind = "data" => serve'[s].f.n = sent'[<<s, "up">>]
        /\ serve'[s].pc = "send" => serve'[s].via \in Sessions
    BY <1>1 DEF TaskMoves
  <2>3. /\ serve'[s].pc = "none" <=> serve'[s].home = None
        /\ serve'[s].pc = "none" <=> client'[s] = "none"
    <3>1. serve[s].home # None /\ client[s] # "none"
      BY <1>1 DEF IInv, HandInv
    <3> QED
      BY <1>1, <3>1 DEF EndMoves
  <2>4. ASSUME NEW r \in Streams, r # s
        PROVE  /\ serve'[r].pc \in {"lookup", "send"} =>
                   /\ serve'[r].f \in Frames /\ serve'[r].f.s = r
                   /\ serve'[r].f.kind \in {"data", "closed", "error", "left"}
                   /\ serve'[r].f.kind = "data" => serve'[r].f.n = sent'[<<r, "up">>]
               /\ serve'[r].pc = "send" => serve'[r].via \in Sessions
               /\ serve'[r].pc = "none" <=> serve'[r].home = None
               /\ serve'[r].pc = "none" <=> client'[r] = "none"
    BY <1>1, <2>4 DEF IInv, HandInv, EndMoves, SentMoves
  <2> QED
    BY <2>1, <2>2, <2>3, <2>4 DEF HandInv
<1>6. LinkInv'
  <2>1. \A r \in Streams : serve'[r].home = serve[r].home
    BY <1>1
  <2>2. serve'[s].pc = "send" /\ serve'[s].home = bridge => serve'[s].via = bridge
    BY <1>1 DEF TaskMoves
  <2> QED
    BY <1>1, <2>1, <2>2 DEF IInv, LinkInv
<1>7. PlaceInv'
  <2>1. ASSUME NEW r \in Streams, r # s
        PROVE  /\ serve'[r].pc \in {"none", "insert", "done"} => r \notin streams'
               /\ serve'[r].pc \in {"lookup", "send"} /\ serve'[r].f.kind = "left" => r \notin streams'
    BY <1>1, <2>1 DEF IInv, PlaceInv, PlaceMoves
  <2>2. /\ serve'[s].pc \in {"none", "insert", "done"} => s \notin streams'
        /\ serve'[s].pc \in {"lookup", "send"} /\ serve'[s].f.kind = "left" => s \notin streams'
    BY <1>1 DEF TaskMoves
  <2> QED
    BY <2>1, <2>2 DEF PlaceInv
<1>8. OwnerInv'
  <2>1. ServeForward
    BY <1>1 DEF ServeForward, TaskMoves
  <2>2. ASSUME NEW a \in Sessions PROVE DownFrames(a)' /\ Holds(a)'
    BY <1>1, <2>1, FramesKeep DEF IInv, Shapes, OwnerInv, Holds, bridgeVars
  <2>3. ASSUME NEW r \in Streams PROVE Owned(r)'
    <3>1. /\ serve'[r].pc \in Unannounced \cup {"opened"} => sent'[<<r, "up">>] = sent[<<r, "up">>]
          /\ sent'[<<r, "down">>] = sent[<<r, "down">>]
      BY <1>1 DEF SentMoves
    <3> QED
      BY <1>1, <2>1, <3>1 DEF IInv, OwnerInv, Owned, ServeForward, bridgeVars
  <2> QED
    BY <2>2, <2>3 DEF OwnerInv
<1>9. ASSUME NEW r \in Streams, r # s PROVE UpAt(r)'
  <2>1. sent[<<r, "up">>] \in Nat /\ sent'[<<r, "up">>] = sent[<<r, "up">>] /\ serve'[r] = serve[r]
    BY <1>1, <1>9, PipeTypes DEF IInv, Shapes, SentMoves
  <2>2. \A a \in Sessions : RunKept(up[a], up'[a], r)
    BY <1>9
  <2>3. UpSteady(r)
    BY <1>1, <2>1, <2>2 DEF UpSteady, RunKept, Alive, UpHand, UpTie, bridgeVars
  <2> QED
    BY <2>3, UpKeep DEF IInv, Shapes, UpInv
<1>10. ASSUME NEW r \in Streams PROVE DownAt(r)'
  <2>1. sent[<<r, "down">>] \in Nat /\ sent'[<<r, "down">>] = sent[<<r, "down">>]
    BY PipeTypes DEF IInv, Shapes, SentMoves
  <2>2. client'[r] # "gone" => client[r] # "gone" /\ RunKept(inbox[r], inbox'[r], r)
    BY DEF EndMoves
  <2>3. r \in streams' => r \in streams \/ owner[r] = None
    BY DEF PlaceMoves
  <2>4. \A a \in Sessions : a # None
    BY TunnelAssumption DEF Sessions
  <2>5. DownSteady(r)
    BY <1>1, <2>1, <2>2, <2>3, <2>4 DEF DownSteady, RunKept, DownHand, DownTie, bridgeVars
  <2> QED
    BY <2>5, DownKeep DEF IInv, Shapes, DownInv
<1> QED
  BY <1>2, <1>3, <1>4, <1>5, <1>6, <1>7, <1>8, <1>9, <1>10 DEF IInv, UpInv, DownInv

(* A step of the task that sends nothing to a session. *)
LEMMA TaskAlone ==
  ASSUME IInv, NEW s \in Streams, NEW pc, NEW via, NEW f,
         TaskMoves(s, pc, via, f), EndMoves(s), PlaceMoves(s), SentMoves(s, pc), up' = up,
         \A b \in Sessions : \A top \in Nat : serve[s].home = b /\ UpTie(b, s, top) => UpTie(b, s, top)'
  PROVE  IInv'
<1>1. /\ \A r \in Streams : r # s => serve'[r] = serve[r]
      /\ serve'[s].pc = pc /\ serve'[s].home = serve[s].home /\ serve'[s].via = via /\ serve'[s].f = f
      /\ UNCHANGED <<bridge, lock, closed, demux, down, link, got, bridgeVars>>
  BY DEF TaskMoves, ServeAt
<1>2. ServeForward
  BY <1>1 DEF ServeForward, TaskMoves
<1>3. ASSUME NEW a \in Sessions
      PROVE  /\ Len(up'[a]) <= RelayCap /\ UpFrames(a)'
             /\ closed[a] => up'[a] = <<>>
             /\ \A r \in Streams : r # s => RunKept(up[a], up'[a], r)
  <2>1. UpFrames(a)'
    BY <1>1, <1>2, FramesKeep DEF IInv, Shapes, OwnerInv, bridgeVars
  <2> QED
    BY <2>1 DEF IInv, QueueInv, LinkInv, RunKept
<1>4. UpAt(s)'
  <2>1. sent'[<<s, "up">>] \in Nat
    BY DEF SentMoves, Pipes
  <2>2. UpSteady(s)
    BY <1>1, <2>1 DEF UpSteady, RunKept, Alive, UpHand, bridgeVars, SentMoves
  <2> QED
    BY <2>2, UpKeep DEF IInv, Shapes, UpInv
<1>5. up' \in [Sessions -> Seq(Frames)]
  BY DEF IInv, Shapes, ShapesOfChannels
<1> QED
  BY <1>3, <1>4, <1>5, TaskKeeps

(* What a step leaves alone, and the two common changes. *)
LEMMA TaskRest ==
  ASSUME IInv, NEW s \in Streams
  PROVE  /\ UNCHANGED <<client, inbox>> => EndMoves(s)
         /\ client' = [client EXCEPT ![s] = "gone"] /\ (inbox' = inbox \/ inbox' = [inbox EXCEPT ![s] = <<>>])
              => EndMoves(s)
         /\ UNCHANGED streams => PlaceMoves(s)
         /\ streams' = streams \ {s} => PlaceMoves(s) /\ s \notin streams'
         /\ \A pc : UNCHANGED sent => SentMoves(s, pc)
<1>1. /\ client \in [Streams -> {"none", "waiting", "up", "gone"}] /\ inbox \in [Streams -> Seq(Frames)]
      /\ \A r \in Streams : Len(inbox[r]) <= RelayCap /\ OfStream(inbox[r], r)
      /\ sent \in [Pipes -> Nat] /\ streams \in SUBSET Streams
  BY DEF IInv, Shapes, ShapesOfChannels, ShapesOfRelay, QueueInv
<1>2. ASSUME UNCHANGED <<client, inbox>> PROVE EndMoves(s)
  BY <1>1, <1>2 DEF EndMoves, RunKept
<1>3. ASSUME client' = [client EXCEPT ![s] = "gone"], inbox' = inbox \/ inbox' = [inbox EXCEPT ![s] = <<>>]
      PROVE  EndMoves(s)
  <2>1. /\ client' \in [Streams -> {"none", "waiting", "up", "gone"}] /\ client'[s] = "gone"
        /\ \A r \in Streams : r # s => client'[r] = client[r]
    BY <1>1, <1>3
  <2>2. /\ inbox' \in [Streams -> Seq(Frames)] /\ (inbox'[s] = inbox[s] \/ inbox'[s] = <<>>)
        /\ \A r \in Streams : r # s => inbox'[r] = inbox[r]
    <3>1. CASE inbox' = inbox
      BY <1>1, <3>1
    <3>2. CASE inbox' = [inbox EXCEPT ![s] = <<>>]
      BY <1>1, <3>2
    <3> QED
      BY <1>3, <3>1, <3>2
  <2>3. Len(<<>>) <= RelayCap /\ OfStream(<<>>, s)
    BY TunnelAssumption DEF OfStream
  <2> QED
    BY <1>1, <2>1, <2>2, <2>3 DEF EndMoves, RunKept
<1>4. ASSUME UNCHANGED streams \/ streams' = streams \ {s} PROVE PlaceMoves(s)
  BY <1>1, <1>4 DEF PlaceMoves
<1>5. ASSUME NEW pc, UNCHANGED sent PROVE SentMoves(s, pc)
  <2>1. sent[<<s, "up">>] \in Nat
    BY PipeTypes DEF IInv, Shapes
  <2> QED
    BY <1>1, <1>5, <2>1 DEF SentMoves
<1> QED
  BY <1>2, <1>3, <1>4, <1>5

(* A place is taken, or there is none left. *)
LEMMA InsertStreamKeeps ==
  ASSUME IInv, NEW s \in Streams, InsertStream(s), UNCHANGED bridgeVars
  PROVE  IInv'
<1>1. /\ UNCHANGED <<bridge, lock, closed, demux, up, down, inbox, link, sent, got, bridgeVars>>
      /\ serve[s].pc = "insert"
  BY DEF InsertStream
<1>2. s \notin streams /\ owner[s] = None
  BY <1>1 DEF IInv, PlaceInv, OwnerInv, Owned, Unannounced
<1>3. CASE ServeTo(s, "done") /\ client' = [client EXCEPT ![s] = "gone"] /\ UNCHANGED streams
  <2>1. ServeAt(s, "done", serve[s].home, serve[s].via, serve[s].f)
    BY <1>3, ServeMoves DEF IInv, Shapes, ServePCs
  <2>2. TaskMoves(s, "done", serve[s].via, serve[s].f)
    BY <1>1, <1>2, <1>3, <2>1 DEF TaskMoves, Unannounced
  <2>3. ASSUME NEW b \in Sessions, NEW top \in Nat PROVE UpTie(b, s, top)'
    BY <2>1 DEF UpTie, ServeAt
  <2> QED
    BY <1>1, <1>3, <2>2, <2>3, TaskAlone, TaskRest
<1>4. CASE streams' = streams \cup {s} /\ ServeTo(s, "accept") /\ UNCHANGED client
  <2>1. ServeAt(s, "accept", serve[s].home, serve[s].via, serve[s].f)
    BY <1>4, ServeMoves DEF IInv, Shapes, ServePCs
  <2>2. TaskMoves(s, "accept", serve[s].via, serve[s].f)
    BY <1>1, <1>2, <1>4, <2>1 DEF TaskMoves, Unannounced
  <2>3. ASSUME NEW b \in Sessions, NEW top \in Nat, UpTie(b, s, top) PROVE UpTie(b, s, top)'
    BY <1>1, <2>1, <2>3 DEF UpTie, ServeAt
  <2>4. PlaceMoves(s)
    BY <1>2, <1>4 DEF PlaceMoves, IInv, Shapes, ShapesOfRelay
  <2> QED
    BY <1>1, <1>4, <2>2, <2>3, <2>4, TaskAlone, TaskRest
<1> QED
  BY <1>3, <1>4 DEF InsertStream

(* The connector is answered. *)
LEMMA SendOpenedKeeps ==
  ASSUME IInv, NEW s \in Streams, SendOpened(s), UNCHANGED bridgeVars
  PROVE  IInv'
<1>1. /\ UNCHANGED <<bridge, lock, streams, closed, demux, up, down, link, client, sent, got, bridgeVars>>
      /\ serve[s].pc = "opened" /\ Room(inbox[s], RelayCap) /\ ServeTo(s, "read")
      /\ inbox' = [inbox EXCEPT ![s] = Append(@, Frame("opened", s))]
  BY DEF SendOpened
<1>2. ServeAt(s, "read", serve[s].home, serve[s].via, serve[s].f)
  BY <1>1, ServeMoves DEF IInv, Shapes, ServePCs
<1>3. TaskMoves(s, "read", serve[s].via, serve[s].f)
  BY <1>1, <1>2 DEF TaskMoves, Unannounced
<1>4. ASSUME NEW b \in Sessions, NEW top \in Nat, UpTie(b, s, top) PROVE UpTie(b, s, top)'
  BY <1>1, <1>2, <1>4 DEF UpTie, ServeAt
<1>5. Frame("opened", s) \in Frames /\ Frame("opened", s).s = s /\ ~IsData(Frame("opened", s), s)
  BY PlainFrame DEF IsData
<1>6. EndMoves(s)
  <2>1. /\ inbox' \in [Streams -> Seq(Frames)] /\ inbox'[s] = Append(inbox[s], Frame("opened", s))
        /\ inbox[s] \in Seq(Frames)
        /\ \A r \in Streams : r # s => inbox'[r] = inbox[r]
        /\ \A r \in Streams : Len(inbox'[r]) <= RelayCap /\ OfStream(inbox'[r], r)
    BY <1>1, <1>5, InboxAppend
  <2>2. RunKept(inbox[s], inbox'[s], s)
    BY <1>5, <2>1, RunKeeps
  <2> QED
    BY <1>1, <2>1, <2>2 DEF EndMoves, RunKept, IInv, Shapes, ShapesOfChannels
<1> QED
  BY <1>1, <1>3, <1>4, <1>6, TaskAlone, TaskRest

(* The handler is dropped while it waits: nothing after the wait is run. *)
LEMMA CancelOpenKeeps ==
  ASSUME IInv, NEW s \in Streams, CancelOpen(s), UNCHANGED bridgeVars
  PROVE  IInv'
<1>1. /\ UNCHANGED <<bridge, lock, streams, closed, demux, up, down, link, sent, got, bridgeVars>>
      /\ serve[s].pc = "accept" /\ ServeTo(s, "cancelled")
      /\ client' = [client EXCEPT ![s] = "gone"] /\ inbox' = [inbox EXCEPT ![s] = <<>>]
  BY DEF CancelOpen
<1>2. ServeAt(s, "cancelled", serve[s].home, serve[s].via, serve[s].f)
  BY <1>1, ServeMoves DEF IInv, Shapes, ServePCs
<1>3. TaskMoves(s, "cancelled", serve[s].via, serve[s].f)
  BY <1>1, <1>2 DEF TaskMoves, Unannounced
<1>4. ASSUME NEW b \in Sessions, NEW top \in Nat PROVE UpTie(b, s, top)'
  BY <1>2 DEF UpTie, ServeAt
<1> QED
  BY <1>1, <1>3, <1>4, TaskAlone, TaskRest

(* The next data frame of the connector. *)
LEMMA ServeDataKeeps ==
  ASSUME IInv, NEW s \in Streams, ServeData(s), UNCHANGED bridgeVars
  PROVE  IInv'
<1>1. /\ UNCHANGED <<bridge, lock, streams, closed, demux, up, down, inbox, link, client, got, bridgeVars>>
      /\ serve[s].pc = "read"
      /\ serve' = [serve EXCEPT ![s].pc = "lookup", ![s].f = Data(s, sent[<<s, "up">>] + 1)]
      /\ sent' = [sent EXCEPT ![<<s, "up">>] = @ + 1]
  BY DEF ServeData, Forward
<1>2. PICK n \in Nat : n = sent[<<s, "up">>]
  BY PipeTypes DEF IInv, Shapes
<1>3. PICK f \in Frames : f = Data(s, n + 1)
  <2>1. n + 1 \in Nat
    OBVIOUS
  <2>2. Data(s, n + 1) \in Frames
    BY <2>1 DEF Data, Frames
  <2> QED
    BY <2>2
<1>4. f.kind = "data" /\ f.s = s /\ f.n = n + 1
  BY <1>3 DEF Data
<1>5. ServeAt(s, "lookup", serve[s].home, serve[s].via, f)
  <2>1. serve' = [serve EXCEPT ![s].pc = "lookup", ![s].f = f]
    BY <1>1, <1>2, <1>3
  <2> QED
    BY <2>1, ServeMoves DEF IInv, Shapes, ServePCs
<1>6. /\ sent' \in [Pipes -> Nat] /\ sent'[<<s, "up">>] = n + 1
      /\ \A r \in Streams : \A e \in {"up", "down"} :
           r # s \/ e # "up" => sent'[<<r, e>>] = sent[<<r, e>>]
  BY <1>1, <1>2, PipeMoves DEF IInv, Shapes
<1>7. TaskMoves(s, "lookup", serve[s].via, f)
  BY <1>1, <1>4, <1>5, <1>6 DEF TaskMoves, Unannounced
<1>8. SentMoves(s, "lookup")
  <2>1. sent[<<s, "up">>] <= sent'[<<s, "up">>]
    BY <1>2, <1>6
  <2>2. \A r \in Streams : sent'[<<r, "down">>] = sent[<<r, "down">>]
    BY <1>6
  <2>3. \A r \in Streams : r # s => sent'[<<r, "up">>] = sent[<<r, "up">>]
    BY <1>6
  <2>4. "lookup" \notin Unannounced \cup {"opened"}
    BY DEF Unannounced
  <2> QED
    BY <1>6, <2>1, <2>2, <2>3, <2>4 DEF SentMoves
<1>9. ASSUME NEW b \in Sessions, NEW top \in Nat, UpTie(b, s, top) PROVE UpTie(b, s, top)'
  <2>1. /\ serve'[s].pc = "lookup" /\ bridge' = bridge
        /\ bridge = b => top = n
    BY <1>1, <1>2, <1>5, <1>9 DEF UpTie, ServeAt
  <2> QED
    BY <1>6, <2>1 DEF UpTie
<1> QED
  BY <1>1, <1>7, <1>8, <1>9, TaskAlone, TaskRest

(* A terminal frame, one that is not valid, and the end of the connector's input. *)
LEMMA ServeLastKeeps ==
  ASSUME IInv, NEW s \in Streams, ServeTerminal(s) \/ ServeInvalid(s) \/ ServeEnd(s), UNCHANGED bridgeVars
  PROVE  IInv'
<1>1. /\ UNCHANGED <<bridge, lock, closed, demux, up, down, inbox, link, client, sent, got, bridgeVars>>
      /\ serve[s].pc = "read"
  BY DEF ServeTerminal, ServeInvalid, ServeEnd, channelVars
<1>2. PICK f \in Frames :
        /\ serve' = [serve EXCEPT ![s].pc = "lookup", ![s].f = f]
        /\ f.s = s /\ f.kind \in {"closed", "error", "left"}
        /\ (streams' = streams /\ f.kind # "left") \/ streams' = streams \ {s}
  <2>1. ASSUME NEW kind \in {"closed", "error", "left"}
        PROVE  Frame(kind, s) \in Frames /\ Frame(kind, s).s = s /\ Frame(kind, s).kind = kind
    BY PlainFrame
  <2>2. CASE ServeTerminal(s)
    BY <2>1, <2>2 DEF ServeTerminal, Forward
  <2>3. CASE ServeInvalid(s)
    BY <2>1, <2>3 DEF ServeInvalid, Forward
  <2>4. CASE ServeEnd(s)
    BY <2>1, <2>4 DEF ServeEnd
  <2> QED
    BY <2>2, <2>3, <2>4
<1>3. ServeAt(s, "lookup", serve[s].home, serve[s].via, f)
  BY <1>2, ServeMoves DEF IInv, Shapes, ServePCs
<1>4. TaskMoves(s, "lookup", serve[s].via, f)
  BY <1>1, <1>2, <1>3 DEF TaskMoves, Unannounced
<1>5. ASSUME NEW b \in Sessions, NEW top \in Nat PROVE UpTie(b, s, top)'
  BY <1>2, <1>3 DEF UpTie, ServeAt
<1>6. PlaceMoves(s)
  BY <1>2, TaskRest
<1> QED
  BY <1>1, <1>4, <1>5, <1>6, TaskAlone, TaskRest

(* Where a send leaves the task. *)
LEMMA SendDoneMoves ==
  ASSUME IInv, NEW s \in Streams, NEW ok \in BOOLEAN, SendDone(s, ok), serve[s].pc \in {"lookup", "send"}
  PROVE  /\ ServeAt(s, Afterwards(serve[s].f, ok), serve[s].home, None, None)
         /\ Afterwards(serve[s].f, ok) \in {"done", "read", "remove", "tell"}
         /\ Afterwards(serve[s].f, ok) = "done" => s \notin streams
         /\ Afterwards(serve[s].f, ok) = "read" => ok /\ serve[s].f.kind = "data"
<1>1. /\ serve[s].f \in Frames /\ serve[s].f.kind \in {"data", "closed", "error", "left"}
      /\ serve[s].f.kind = "left" => s \notin streams
  BY DEF IInv, HandInv, PlaceInv
<1>2. /\ Afterwards(serve[s].f, ok) \in {"done", "read", "remove", "tell"}
      /\ Afterwards(serve[s].f, ok) = "done" => serve[s].f.kind = "left"
      /\ Afterwards(serve[s].f, ok) = "read" => ok /\ serve[s].f.kind = "data"
  BY <1>1 DEF Afterwards
<1>3. ServeAt(s, Afterwards(serve[s].f, ok), serve[s].home, None, None)
  <2>1. Afterwards(serve[s].f, ok) \in ServePCs
    BY <1>2 DEF ServePCs
  <2> QED
    BY <2>1, ServeMoves DEF IInv, Shapes, SendDone
<1> QED
  BY <1>1, <1>2, <1>3

(* The session registered now is looked up. *)
LEMMA LookupBridgeKeeps ==
  ASSUME IInv, NEW s \in Streams, LookupBridge(s), UNCHANGED bridgeVars
  PROVE  IInv'
<1>1. /\ UNCHANGED <<bridge, lock, streams, closed, demux, up, down, inbox, link, client, sent, got, bridgeVars>>
      /\ serve[s].pc = "lookup"
  BY DEF LookupBridge, channelVars
<1>2. CASE bridge = None /\ SendDone(s, FALSE)
  <2>1. PICK pc \in {"done", "remove", "tell"} :
          ServeAt(s, pc, serve[s].home, None, None) /\ (pc = "done" => s \notin streams)
    BY <1>1, <1>2, SendDoneMoves
  <2>2. TaskMoves(s, pc, None, None)
    BY <1>1, <2>1 DEF TaskMoves, Unannounced
  <2>3. ASSUME NEW b \in Sessions, NEW top \in Nat PROVE UpTie(b, s, top)'
    BY <2>1 DEF UpTie, ServeAt
  <2> QED
    BY <1>1, <2>2, <2>3, TaskAlone, TaskRest
<1>3. CASE bridge # None /\ serve' = [serve EXCEPT ![s].pc = "send", ![s].via = bridge]
  <2>1. bridge \in Sessions
    BY <1>3 DEF IInv, Shapes, ShapesOfRelay
  <2>2. serve[s].f \in Frames \cup {None}
    BY DEF IInv, Shapes, ShapesOfRelay, Serves
  <2>3. ServeAt(s, "send", serve[s].home, bridge, serve[s].f)
    BY <1>3, <2>1, <2>2, ServeMoves DEF IInv, Shapes, ServePCs
  <2>4. /\ serve[s].f \in Frames /\ serve[s].f.s = s
        /\ serve[s].f.kind \in {"data", "closed", "error", "left"}
        /\ serve[s].f.kind = "data" => serve[s].f.n = sent[<<s, "up">>]
        /\ serve[s].f.kind = "left" => s \notin streams
    BY <1>1 DEF IInv, HandInv, PlaceInv
  <2>5. TaskMoves(s, "send", bridge, serve[s].f)
    BY <1>1, <2>1, <2>3, <2>4 DEF TaskMoves, Unannounced
  <2>6. ASSUME NEW b \in Sessions, NEW top \in Nat, UpTie(b, s, top) PROVE UpTie(b, s, top)'
    BY <1>1, <2>3, <2>6 DEF UpTie, ServeAt
  <2> QED
    BY <1>1, <2>5, <2>6, TaskAlone, TaskRest
<1> QED
  BY <1>2, <1>3 DEF LookupBridge

(* The last steps of a task. *)
LEMMA TellConnectorKeeps ==
  ASSUME IInv, NEW s \in Streams, TellConnector(s), UNCHANGED bridgeVars
  PROVE  IInv'
<1>1. /\ UNCHANGED <<bridge, lock, closed, demux, up, down, link, client, sent, got, bridgeVars>>
      /\ serve[s].pc \in {"remove", "tell"} /\ ServeTo(s, "done") /\ streams' = streams \ {s}
  BY DEF TellConnector
<1>2. ServeAt(s, "done", serve[s].home, serve[s].via, serve[s].f)
  BY <1>1, ServeMoves DEF IInv, Shapes, ServePCs
<1>3. TaskMoves(s, "done", serve[s].via, serve[s].f)
  BY <1>1, <1>2 DEF TaskMoves, Unannounced
<1>4. ASSUME NEW b \in Sessions, NEW top \in Nat PROVE UpTie(b, s, top)'
  BY <1>2 DEF UpTie, ServeAt
<1>5. EndMoves(s)
  <2>1. CASE inbox' = inbox
    BY <1>1, <2>1, TaskRest
  <2>2. CASE Room(inbox[s], RelayCap) /\ inbox' = [inbox EXCEPT ![s] = Append(@, Frame("error", s))]
    <3>1. Frame("error", s) \in Frames /\ Frame("error", s).s = s /\ ~IsData(Frame("error", s), s)
      BY PlainFrame DEF IsData
    <3>2. /\ inbox' \in [Streams -> Seq(Frames)] /\ inbox'[s] = Append(inbox[s], Frame("error", s))
          /\ inbox[s] \in Seq(Frames)
          /\ \A r \in Streams : r # s => inbox'[r] = inbox[r]
          /\ \A r \in Streams : Len(inbox'[r]) <= RelayCap /\ OfStream(inbox'[r], r)
      BY <2>2, <3>1, InboxAppend
    <3>3. RunKept(inbox[s], inbox'[s], s)
      BY <3>1, <3>2, RunKeeps
    <3> QED
      BY <1>1, <3>2, <3>3 DEF EndMoves, RunKept, IInv, Shapes, ShapesOfChannels
  <2> QED
    BY <2>1, <2>2 DEF TellConnector
<1> QED
  BY <1>1, <1>3, <1>4, <1>5, TaskAlone, TaskRest

(* One more frame on the way to session b. *)
LEMMA UpAppend ==
  ASSUME IInv, NEW b \in Sessions, NEW f \in Frames, ~closed[b], Room(up[b], RelayCap),
         up' = [up EXCEPT ![b] = Append(@, f)]
  PROVE  /\ up' \in [Sessions -> Seq(Frames)] /\ up'[b] = Append(up[b], f) /\ up[b] \in Seq(Frames)
         /\ \A a \in Sessions : a # b => up'[a] = up[a]
         /\ \A a \in Sessions : /\ Len(up'[a]) <= RelayCap
                                /\ closed[a] => up'[a] = <<>>
                                /\ \A r \in Streams : ~IsData(f, r) => RunKept(up[a], up'[a], r)
<1>1. up \in [Sessions -> Seq(Frames)] /\ up[b] \in Seq(Frames)
  BY DEF IInv, Shapes, ShapesOfChannels
<1>2. Append(up[b], f) \in Seq(Frames) /\ Len(up[b]) \in Nat /\ Len(Append(up[b], f)) = Len(up[b]) + 1
  BY <1>1, QueueAppend
<1>3. /\ up' \in [Sessions -> Seq(Frames)] /\ up'[b] = Append(up[b], f)
      /\ \A a \in Sessions : a # b => up'[a] = up[a]
  BY <1>1, <1>2
<1>4. RelayCap \in Nat
  BY TunnelAssumption
<1>5. Len(up'[b]) <= RelayCap
  BY <1>2, <1>3, <1>4 DEF Room
<1>6. ASSUME NEW a \in Sessions PROVE Len(up'[a]) <= RelayCap /\ (closed[a] => up'[a] = <<>>)
  BY <1>3, <1>5 DEF IInv, QueueInv, LinkInv
<1>7. ASSUME NEW a \in Sessions, NEW r \in Streams, ~IsData(f, r) PROVE RunKept(up[a], up'[a], r)
  <2>1. CASE a = b
    BY <1>1, <1>3, <1>7, <2>1, RunKeeps
  <2>2. CASE a # b
    BY <1>3, <2>2 DEF RunKept
  <2> QED
    BY <2>1, <2>2
<1> QED
  BY <1>1, <1>3, <1>6, <1>7

(* It is announced once, and it is announced before all else. *)
LEMMA UpFramesAppend ==
  ASSUME NEW b \in Sessions, NEW q \in Seq(Frames), NEW f \in Frames, NEW t, t = Append(q, f),
         up[b] = q, up'[b] = t, UpFrames(b), owner' = owner, ServeForward,
         serve'[f.s].pc \notin Unannounced, f.kind \in {"accepted", "data", "closed", "error"},
         f.kind = "accepted" => serve[f.s].home = b /\ owner[f.s] = None /\ serve[f.s].pc \in Unannounced
  PROVE  UpFrames(b)'
<1>1. /\ Len(q) \in Nat /\ Len(t) = Len(q) + 1 /\ t[Len(q) + 1] = f
      /\ \A i \in 1..Len(q) : t[i] = q[i]
  BY QueueAppend
<1>2. \A i \in 1..Len(t) : i \in 1..Len(q) \/ i = Len(q) + 1
  BY <1>1
<1>3. \A i \in 1..Len(q) : q[i] \in Frames
  OBVIOUS
<1>4. \A i \in 1..Len(q) : q[i].s \in Streams
  BY <1>3 DEF Frames
<1>5. f.s \in Streams
  BY DEF Frames
<1>6. \A i \in 1..Len(q) : serve[q[i].s].pc \notin Unannounced
  BY DEF UpFrames
<1>7. ASSUME NEW i \in 1..Len(t)
      PROVE  /\ t[i].kind \in {"accepted", "data", "closed", "error"}
             /\ serve'[t[i].s].pc \notin Unannounced
             /\ t[i].kind = "accepted" => serve'[t[i].s].home = b /\ owner[t[i].s] = None
  <2>1. CASE i \in 1..Len(q)
    BY <1>1, <1>4, <2>1 DEF UpFrames, ServeForward
  <2>2. CASE i = Len(q) + 1
    BY <1>1, <1>5, <2>2 DEF ServeForward
  <2> QED
    BY <1>2, <2>1, <2>2
<1>8. ASSUME NEW i \in 1..Len(t), NEW j \in 1..Len(t), t[i].kind = "accepted",
             t[j].kind = "accepted", t[j].s = t[i].s
      PROVE  j = i
  <2>1. CASE i \in 1..Len(q) /\ j \in 1..Len(q)
    BY <1>1, <1>8, <2>1 DEF UpFrames
  <2>2. CASE i = Len(q) + 1 /\ j \in 1..Len(q)
    <3>1. q[j].s = f.s /\ f.kind = "accepted"
      BY <1>1, <1>8, <2>2
    <3> QED
      BY <1>6, <2>2, <3>1
  <2>3. CASE j = Len(q) + 1 /\ i \in 1..Len(q)
    <3>1. q[i].s = f.s /\ f.kind = "accepted"
      BY <1>1, <1>8, <2>3
    <3> QED
      BY <1>6, <2>3, <3>1
  <2> QED
    BY <1>2, <2>1, <2>2, <2>3
<1> QED
  BY <1>7, <1>8 DEF UpFrames

(* The same for every session. *)
LEMMA UpFramesPut ==
  ASSUME IInv, NEW b \in Sessions, NEW f \in Frames, ~closed[b], Room(up[b], RelayCap),
         up' = [up EXCEPT ![b] = Append(@, f)], owner' = owner, ServeForward,
         serve'[f.s].pc \notin Unannounced, f.kind \in {"accepted", "data", "closed", "error"},
         f.kind = "accepted" => serve[f.s].home = b /\ owner[f.s] = None /\ serve[f.s].pc \in Unannounced
  PROVE  \A a \in Sessions : UpFrames(a)'
<1>1. up'[b] = Append(up[b], f) /\ up[b] \in Seq(Frames) /\ \A a \in Sessions : a # b => up'[a] = up[a]
  BY UpAppend
<1>2. \A a \in Sessions : UpFrames(a)
  BY DEF IInv, OwnerInv
<1>3. UpFrames(b)'
  BY <1>1, <1>2, UpFramesAppend
<1>4. ASSUME NEW a \in Sessions, a # b PROVE UpFrames(a)'
  BY <1>1, <1>2, <1>4, FramesKeep DEF IInv, Shapes
<1> QED
  BY <1>3, <1>4

(* The stream is announced, or its place given back. *)
LEMMA SendAcceptedKeeps ==
  ASSUME IInv, NEW s \in Streams, SendAccepted(s), UNCHANGED bridgeVars
  PROVE  IInv'
<1>1. /\ UNCHANGED <<bridge, lock, closed, demux, down, link, sent, got, bridgeVars>>
      /\ serve[s].pc = "accept"
  BY DEF SendAccepted
<1>2. CASE /\ streams' = streams \ {s} /\ ServeTo(s, "done") /\ client' = [client EXCEPT ![s] = "gone"]
           /\ inbox' = [inbox EXCEPT ![s] = <<>>] /\ UNCHANGED up
  <2>1. ServeAt(s, "done", serve[s].home, serve[s].via, serve[s].f)
    BY <1>2, ServeMoves DEF IInv, Shapes, ServePCs
  <2>2. TaskMoves(s, "done", serve[s].via, serve[s].f)
    BY <1>1, <1>2, <2>1 DEF TaskMoves, Unannounced
  <2>3. ASSUME NEW b \in Sessions, NEW top \in Nat PROVE UpTie(b, s, top)'
    BY <2>1 DEF UpTie, ServeAt
  <2> QED
    BY <1>1, <1>2, <2>2, <2>3, TaskAlone, TaskRest
<1>3. CASE /\ ~closed[serve[s].home] /\ Room(up[serve[s].home], RelayCap)
           /\ up' = [up EXCEPT ![serve[s].home] = Append(@, Frame("accepted", s))]
           /\ ServeTo(s, "opened") /\ UNCHANGED <<streams, client, inbox>>
  <2>1. PICK b \in Sessions : b = serve[s].home
    <3>1. serve[s].home # None /\ serve[s].home \in Sessions \cup {None}
      BY <1>1 DEF IInv, Shapes, ShapesOfRelay, Serves, HandInv
    <3> QED
      BY <3>1
  <2>2. PICK f \in Frames : f = Frame("accepted", s)
    BY PlainFrame
  <2>3. f.kind = "accepted" /\ f.s = s /\ \A r \in Streams : ~IsData(f, r)
    BY <2>2, PlainFrame DEF IsData
  <2>4. ServeAt(s, "opened", serve[s].home, serve[s].via, serve[s].f)
    BY <1>3, ServeMoves DEF IInv, Shapes, ServePCs
  <2>5. TaskMoves(s, "opened", serve[s].via, serve[s].f)
    BY <1>1, <1>3, <2>4 DEF TaskMoves, Unannounced
  <2>6. ~closed[b] /\ Room(up[b], RelayCap) /\ up' = [up EXCEPT ![b] = Append(@, f)]
    BY <1>3, <2>1, <2>2
  <2>7. /\ up' \in [Sessions -> Seq(Frames)]
        /\ \A a \in Sessions : /\ Len(up'[a]) <= RelayCap
                               /\ closed[a] => up'[a] = <<>>
                               /\ \A r \in Streams : RunKept(up[a], up'[a], r)
    BY <2>3, <2>6, UpAppend
  <2>8. \A a \in Sessions : UpFrames(a)'
    <3>1. ServeForward
      BY <1>1, <2>4 DEF ServeForward, ServeAt, Unannounced
    <3>2. owner[s] = None /\ serve'[s].pc \notin Unannounced /\ owner' = owner
      BY <1>1, <2>4 DEF IInv, OwnerInv, Owned, Unannounced, ServeAt, bridgeVars
    <3>3. serve[s].pc \in Unannounced /\ serve[s].home = b
      BY <1>1, <2>1 DEF Unannounced
    <3> QED
      BY <2>3, <2>6, <3>1, <3>2, <3>3, UpFramesPut
  <2>9. UpAt(s)'
    <3>1. sent[<<s, "up">>] \in Nat
      BY PipeTypes DEF IInv, Shapes
    <3>2. ASSUME NEW a \in Sessions, NEW top \in Nat, UpTie(a, s, top) PROVE UpTie(a, s, top)'
      BY <1>1, <2>4, <3>2 DEF UpTie, ServeAt
    <3>3. UpSteady(s)
      BY <1>1, <2>4, <2>7, <3>1, <3>2 DEF UpSteady, RunKept, Alive, UpHand, ServeAt, bridgeVars
    <3> QED
      BY <3>3, UpKeep DEF IInv, Shapes, UpInv
  <2>10. EndMoves(s) /\ PlaceMoves(s) /\ SentMoves(s, "opened")
    BY <1>1, <1>3, TaskRest
  <2> QED
    BY <2>5, <2>7, <2>8, <2>9, <2>10, TaskKeeps
<1> QED
  BY <1>2, <1>3 DEF SendAccepted

(* The frame in hand goes on its way: if that is to the stream's home, it is the *)
(* next one; if not, the home is not registered any more.                         *)
LEMMA UpSend ==
  ASSUME IInv, NEW s \in Streams, NEW b \in Sessions, NEW f \in Frames, NEW pc,
         b = serve[s].via, serve[s].pc = "send", pc \in {"done", "read", "remove", "tell"},
         pc = "read" => f.kind = "data",
         f.kind = "data" => f = serve[s].f, f.s = s,
         ServeAt(s, pc, serve[s].home, None, None),
         up[b] \in Seq(Frames), up'[b] = Append(up[b], f), \A a \in Sessions : a # b => up'[a] = up[a],
         UNCHANGED <<bridge, closed, sent, got, bridgeVars>>
  PROVE  UpAt(s)'
<1>1. sent[<<s, "up">>] \in Nat /\ Len(got[<<s, "up">>]) \in Nat
  BY PipeTypes DEF IInv, Shapes
<1>2. serve'[s].pc = pc /\ serve'[s].home = serve[s].home
  BY DEF ServeAt
<1>3. CASE f.kind # "data" \/ b # serve[s].home
  <2>1. ASSUME NEW a \in Sessions, a = serve[s].home
        PROVE  RunKept(up[a], up'[a], s) /\ \A top \in Nat : UpTie(a, s, top)'
    <3>1. CASE f.kind # "data"
      <4>1. ~IsData(f, s) /\ pc # "read"
        BY <3>1 DEF IsData
      <4>2. RunKept(up[b], up'[b], s)
        BY <4>1, RunKeeps
      <4>4. RunKept(up[a], up'[a], s)
        <5>1. CASE a = b
          BY <4>2, <5>1
        <5>2. CASE a # b
          BY <5>2 DEF RunKept
        <5> QED
          BY <5>1, <5>2
      <4>3. \A top \in Nat : UpTie(a, s, top)'
        BY <1>2, <4>1 DEF UpTie
      <4> QED
        BY <4>3, <4>4
    <3>2. CASE b # serve[s].home
      <4>1. bridge # a
        BY <2>1, <3>2 DEF IInv, LinkInv
      <4>2. \A top \in Nat : UpTie(a, s, top)'
        BY <1>2, <4>1 DEF UpTie
      <4>3. RunKept(up[a], up'[a], s)
        BY <2>1, <3>2 DEF RunKept
      <4> QED
        BY <4>2, <4>3
    <3> QED
      BY <1>3, <3>1, <3>2
  <2>2. UpSteady(s)
    BY <1>1, <1>2, <2>1 DEF UpSteady, RunKept, Alive, UpHand, bridgeVars
  <2> QED
    BY <2>2, UpKeep DEF IInv, Shapes, UpInv
<1>4. CASE f.kind = "data" /\ b = serve[s].home
  <2>1. PICK k \in 0..sent[<<s, "up">>] : Run(tcpq[s], s, Len(got[<<s, "up">>]), k) /\ UpLink(s, k)
    BY DEF IInv, UpInv, UpAt
  <2>2. k \in Nat /\ IsData(f, s) /\ f.n = sent[<<s, "up">>]
    BY <1>1, <1>4 DEF IsData, IInv, HandInv
  <2>3. UpLink(s, k)'
    <3> SUFFICES ASSUME b # None, Alive(b), writer[s] # "done"
                 PROVE  /\ UpHand(b, s) => session[b].f.n = k + 1 /\ k + 1 <= sent[<<s, "up">>]
                        /\ ~closed[b] =>
                             \E top \in 0..sent[<<s, "up">>] :
                               /\ UpTie(b, s, top)'
                               /\ UpHand(b, s) => Run(up'[b], s, k + 1, top)
                               /\ ~UpHand(b, s) => Run(up'[b], s, k, top)
      BY <1>2, <1>4 DEF UpLink, Alive, UpHand, bridgeVars
    <3>1. UpHand(b, s) => session[b].f.n = k + 1 /\ k + 1 <= sent[<<s, "up">>]
      BY <1>4, <2>1 DEF UpLink
    <3> SUFFICES ASSUME ~closed[b]
                 PROVE  \E top \in 0..sent[<<s, "up">>] :
                          /\ UpTie(b, s, top)'
                          /\ UpHand(b, s) => Run(up'[b], s, k + 1, top)
                          /\ ~UpHand(b, s) => Run(up'[b], s, k, top)
      BY <3>1
    <3>2. PICK top \in 0..sent[<<s, "up">>] :
            /\ UpTie(b, s, top)
            /\ UpHand(b, s) => Run(up[b], s, k + 1, top)
            /\ ~UpHand(b, s) => Run(up[b], s, k, top)
      BY <1>4, <2>1 DEF UpLink
    <3>3. top \in Nat /\ top + 1 = sent[<<s, "up">>]
      <4>1. serve[s].f.kind = "data"
        BY <1>4
      <4> QED
        BY <1>1, <3>2, <4>1 DEF UpTie
    <3>4. f.n = top + 1
      BY <2>2, <3>3
    <3>5. /\ UpHand(b, s) => Run(up'[b], s, k + 1, top + 1)
          /\ ~UpHand(b, s) => Run(up'[b], s, k, top + 1)
      <4>1. k + 1 \in Nat
        BY <2>2
      <4> QED
        BY <2>2, <3>2, <3>3, <3>4, <4>1, RunAppendData
    <3>6. PICK n \in Nat : n = top + 1
      BY <3>3
    <3>7. n \in 0..sent[<<s, "up">>] /\ n = sent[<<s, "up">>]
      BY <1>1, <3>3, <3>6
    <3>8. UpTie(b, s, n)'
      BY <1>2, <3>7 DEF UpTie
    <3> QED
      BY <3>5, <3>6, <3>7, <3>8
  <2> QED
    BY <2>1, <2>3 DEF UpAt, bridgeVars
<1> QED
  BY <1>3, <1>4

(* A frame goes to the session the task looked up, or finds it over. *)
LEMMA SendToBridgeKeeps ==
  ASSUME IInv, NEW s \in Streams, SendToBridge(s), UNCHANGED bridgeVars
  PROVE  IInv'
<1>1. /\ UNCHANGED <<bridge, lock, streams, closed, demux, down, inbox, link, client, sent, got, bridgeVars>>
      /\ serve[s].pc = "send"
  BY DEF SendToBridge
<1>2. PICK b \in Sessions : b = serve[s].via
  BY <1>1 DEF IInv, HandInv
<1>3. PICK g \in Frames :
        /\ g = serve[s].f /\ g.s = s /\ g.kind \in {"data", "closed", "error", "left"}
  BY <1>1 DEF IInv, HandInv
<1>4. CASE SendDone(s, FALSE) /\ UNCHANGED up
  <2>1. PICK pc \in {"done", "remove", "tell"} :
          ServeAt(s, pc, serve[s].home, None, None) /\ (pc = "done" => s \notin streams)
    BY <1>1, <1>4, SendDoneMoves
  <2>2. TaskMoves(s, pc, None, None)
    BY <1>1, <2>1 DEF TaskMoves, Unannounced
  <2>3. ASSUME NEW a \in Sessions, NEW top \in Nat PROVE UpTie(a, s, top)'
    BY <2>1 DEF UpTie, ServeAt
  <2> QED
    BY <1>1, <1>4, <2>2, <2>3, TaskAlone, TaskRest
<1>5. CASE /\ ~closed[b] /\ Room(up[b], RelayCap)
           /\ up' = [up EXCEPT ![b] = Append(@, IF g.kind = "left" THEN Frame("closed", s) ELSE g)]
           /\ SendDone(s, TRUE)
  <2>1. PICK f \in Frames :
          /\ f = IF g.kind = "left" THEN Frame("closed", s) ELSE g
          /\ f.s = s /\ f.kind \in {"data", "closed", "error"}
          /\ f.kind = "data" => f = g
          /\ g.kind = "data" => f.kind = "data"
    <3>1. CASE g.kind = "left"
      BY <3>1, PlainFrame
    <3>2. CASE g.kind # "left"
      BY <1>3, <3>2
    <3> QED
      BY <3>1, <3>2
  <2>2. PICK pc \in {"done", "read", "remove", "tell"} :
          /\ ServeAt(s, pc, serve[s].home, None, None)
          /\ pc = "done" => s \notin streams
          /\ pc = "read" => g.kind = "data"
    BY <1>1, <1>3, <1>5, SendDoneMoves
  <2>3. TaskMoves(s, pc, None, None)
    BY <1>1, <2>2 DEF TaskMoves, Unannounced
  <2>4. up' = [up EXCEPT ![b] = Append(@, f)]
    BY <1>5, <2>1
  <2>5. /\ up' \in [Sessions -> Seq(Frames)] /\ up'[b] = Append(up[b], f) /\ up[b] \in Seq(Frames)
        /\ \A a \in Sessions : a # b => up'[a] = up[a]
        /\ \A a \in Sessions : /\ Len(up'[a]) <= RelayCap
                               /\ closed[a] => up'[a] = <<>>
                               /\ \A r \in Streams : ~IsData(f, r) => RunKept(up[a], up'[a], r)
    BY <1>5, <2>4, UpAppend
  <2>6. \A a \in Sessions : \A r \in Streams : r # s => RunKept(up[a], up'[a], r)
    BY <2>1, <2>5 DEF IsData
  <2>7. \A a \in Sessions : UpFrames(a)'
    <3>1. ServeForward
      BY <1>1, <2>2 DEF ServeForward, ServeAt, Unannounced
    <3>2. serve'[s].pc \notin Unannounced /\ owner' = owner
      BY <1>1, <2>2 DEF Unannounced, ServeAt, bridgeVars
    <3> QED
      BY <1>5, <2>1, <2>4, <3>1, <3>2, UpFramesPut
  <2>8. UpAt(s)'
    BY <1>1, <1>2, <1>3, <2>1, <2>2, <2>5, UpSend
  <2>9. EndMoves(s) /\ PlaceMoves(s) /\ SentMoves(s, pc)
    BY <1>1, TaskRest
  <2> QED
    BY <2>3, <2>5, <2>6, <2>7, <2>8, <2>9, TaskKeeps
<1> QED
  BY <1>2, <1>3, <1>4, <1>5 DEF SendToBridge

(* Of a stream that is not announced there is nothing on the way. *)
LEMMA NothingUp ==
  ASSUME IInv, NEW s \in Streams, serve[s].pc \in Unannounced
  PROVE  /\ owner[s] = None /\ sent[<<s, "up">>] = 0 /\ tcpq[s] = <<>>
         /\ Len(got[<<s, "up">>]) = 0
         /\ \A b \in Sessions : ~UpHand(b, s) /\ \A i \in 1..Len(up[b]) : up[b][i].s # s
<1>1. owner[s] = None /\ sent[<<s, "up">>] = 0
  BY DEF IInv, OwnerInv, Owned
<1>2. tcpq[s] = <<>>
  BY <1>1 DEF IInv, OwnerInv, Owned
<1>3. Len(got[<<s, "up">>]) = 0
  <2>1. Len(got[<<s, "up">>]) \in Nat
    BY PipeTypes DEF IInv, Shapes
  <2>2. PICK k \in 0..0 : Len(got[<<s, "up">>]) <= k
    BY <1>1 DEF IInv, UpInv, UpAt, Run
  <2> QED
    BY <2>1, <2>2
<1>4. ASSUME NEW b \in Sessions PROVE ~UpHand(b, s)
  <2>1. b # None
    BY TunnelAssumption DEF Sessions
  <2>2. session[b].pc = "send" => owner[session[b].f.s] = b
    BY DEF IInv, OwnerInv, Holds
  <2> QED
    BY <1>1, <2>1, <2>2 DEF UpHand, IsData
<1>5. ASSUME NEW b \in Sessions, NEW i \in 1..Len(up[b]) PROVE up[b][i].s # s
  <2>1. serve[up[b][i].s].pc \notin Unannounced
    BY DEF IInv, OwnerInv, UpFrames
  <2> QED
    BY <2>1
<1> QED
  BY <1>1, <1>2, <1>3, <1>4, <1>5

(* A connector opens its tunnel. *)
LEMMA OpenTunnelKeeps ==
  ASSUME IInv, NEW s \in Streams, OpenTunnel(s), UNCHANGED bridgeVars
  PROVE  IInv'
<1>1. /\ UNCHANGED <<bridge, lock, streams, closed, demux, up, down, inbox, link, sent, got, bridgeVars>>
      /\ client[s] = "none" /\ client' = [client EXCEPT ![s] = "waiting"]
      /\ serve' = [serve EXCEPT ![s].pc = "insert", ![s].home = bridge]
  BY DEF OpenTunnel
<1>u. UNCHANGED <<bridge, lock, streams, closed, demux, up, down, inbox, link, sent, got, bridgeVars>>
  BY <1>1
<1>2. bridge \in Sessions /\ bridge # None
  BY DEF OpenTunnel, IInv, Shapes, ShapesOfRelay
<1>3. ServeAt(s, "insert", bridge, serve[s].via, serve[s].f)
  BY <1>1, <1>2, ServeMoves DEF IInv, Shapes, ServePCs
<1>4. /\ serve' \in [Streams -> Serves] /\ \A r \in Streams : r # s => serve'[r] = serve[r]
      /\ serve'[s].pc = "insert" /\ serve'[s].home = bridge
  BY <1>3 DEF ServeAt
<1>5. /\ client' \in [Streams -> {"none", "waiting", "up", "gone"}] /\ client'[s] = "waiting"
      /\ \A r \in Streams : r # s => client'[r] = client[r]
  BY <1>1 DEF IInv, Shapes, ShapesOfChannels
<1>6. serve[s].pc = "none"
  BY <1>1 DEF IInv, HandInv
<1>7. /\ owner[s] = None /\ sent[<<s, "up">>] = 0 /\ tcpq[s] = <<>> /\ Len(got[<<s, "up">>]) = 0
      /\ \A b \in Sessions : ~UpHand(b, s) /\ \A i \in 1..Len(up[b]) : up[b][i].s # s
  BY <1>6, NothingUp DEF Unannounced
<1>8. Shapes'
  BY <1>1, <1>4, <1>5 DEF IInv, Shapes, ShapesOfRelay, ShapesOfChannels, ShapesOfBridge, bridgeVars
<1>9. QueueInv' /\ LockInv'
  BY <1>1 DEF IInv, QueueInv, LockInv, bridgeVars
<1>10. HandInv'
  <2>1. ASSUME NEW r \in Streams
        PROVE  /\ serve'[r].pc \in {"lookup", "send"} =>
                   /\ serve'[r].f \in Frames /\ serve'[r].f.s = r
                   /\ serve'[r].f.kind \in {"data", "closed", "error", "left"}
                   /\ serve'[r].f.kind = "data" => serve'[r].f.n = sent'[<<r, "up">>]
               /\ serve'[r].pc = "send" => serve'[r].via \in Sessions
               /\ serve'[r].pc = "none" <=> serve'[r].home = None
               /\ serve'[r].pc = "none" <=> client'[r] = "none"
    <3>1. CASE r = s
      BY <1>2, <1>4, <1>5, <3>1
    <3>2. CASE r # s
      BY <1>u, <1>4, <1>5, <3>2 DEF IInv, HandInv
    <3> QED
      BY <3>1, <3>2
  <2>2. ASSUME NEW a \in Sessions
        PROVE  /\ demux'[a].pc = "send" => demux'[a].f \in Frames
               /\ session'[a].pc \in {"send", "refuse"} => session'[a].f \in Frames
               /\ session'[a].pc = "send" => session'[a].f.kind \in {"data", "closed", "error"}
               /\ session'[a].pc = "refuse" => session'[a].f.kind = "error"
    BY <1>u DEF IInv, HandInv, bridgeVars
  <2> QED
    BY <2>1, <2>2 DEF HandInv
<1>11. LinkInv' /\ PlaceInv'
  <2>1. link[bridge] # "none" /\ s \notin streams
    BY <1>2, <1>6 DEF IInv, LinkInv, PlaceInv
  <2>2. LinkInv'
    BY <1>1, <1>4, <2>1 DEF IInv, LinkInv
  <2>3. PlaceInv'
    BY <1>1, <1>4, <2>1 DEF IInv, PlaceInv
  <2> QED
    BY <2>2, <2>3
<1>12. OwnerInv'
  <2>1. ASSUME NEW b \in Sessions PROVE UpFrames(b)'
    <3>1. \A i \in 1..Len(up[b]) : up[b][i] \in Frames
      BY DEF IInv, Shapes, ShapesOfChannels
    <3>2. \A i \in 1..Len(up[b]) : up[b][i].s \in Streams /\ up[b][i].s # s
      BY <1>7, <3>1 DEF Frames
    <3>3. \A i \in 1..Len(up[b]) : serve'[up[b][i].s] = serve[up[b][i].s]
      BY <1>4, <3>2
    <3> QED
      BY <1>u, <3>3 DEF IInv, OwnerInv, UpFrames, bridgeVars
  <2>2. ASSUME NEW b \in Sessions PROVE DownFrames(b)' /\ Holds(b)'
    BY <1>1 DEF IInv, OwnerInv, DownFrames, Holds, bridgeVars
  <2>3. ASSUME NEW r \in Streams PROVE Owned(r)'
    <3>1. CASE r = s
      BY <1>1, <1>4, <1>7, <3>1 DEF IInv, OwnerInv, Owned, bridgeVars
    <3>2. CASE r # s
      BY <1>1, <1>4, <3>2 DEF IInv, OwnerInv, Owned, bridgeVars
    <3> QED
      BY <3>1, <3>2
  <2> QED
    BY <2>1, <2>2, <2>3 DEF OwnerInv
<1>13. ASSUME NEW r \in Streams, r # s PROVE UpAt(r)'
  <2>1. sent[<<r, "up">>] \in Nat /\ serve'[r] = serve[r]
    BY <1>4, <1>13, PipeTypes DEF IInv, Shapes
  <2>2. UpSteady(r)
    BY <1>u, <2>1 DEF UpSteady, RunKept, Alive, UpHand, UpTie, bridgeVars
  <2> QED
    BY <2>2, UpKeep DEF IInv, Shapes, UpInv
<1>14. UpAt(s)'
  <2>1. Run(tcpq[s], s, 0, 0)
    BY <1>7, RunEmpty
  <2>2. Run(up[bridge], s, 0, 0)
    BY <1>2, <1>7 DEF Run, IsData
  <2>3. ~UpHand(bridge, s)'
    BY <1>1, <1>2, <1>7 DEF UpHand, bridgeVars
  <2>4. UpTie(bridge, s, 0)'
    BY <1>1, <1>4, <1>7 DEF UpTie
  <2>5. UpLink(s, 0)'
    BY <1>1, <1>4, <1>7, <2>2, <2>3, <2>4 DEF UpLink
  <2> QED
    BY <1>1, <1>7, <2>1, <2>5 DEF UpAt, bridgeVars
<1>15. DownInv'
  <2>1. \A r \in Streams : client'[r] # "gone" => client[r] # "gone"
    BY <1>1, <1>5
  <2> QED
    BY <1>1, <2>1, DownIdle DEF IInv, Shapes, bridgeVars
<1> QED
  BY <1>8, <1>9, <1>10, <1>11, <1>12, <1>13, <1>14, <1>15 DEF IInv, UpInv

-----------------------------------------------------------------------------
(* The connector's end. *)

(* A connector that leaves or is told: what it had not read is lost. *)
LEMMA ClientGone ==
  ASSUME IInv, NEW s \in Streams, client[s] # "none", client' = [client EXCEPT ![s] = "gone"],
         inbox' = inbox \/ inbox' = [inbox EXCEPT ![s] = <<>>],
         UNCHANGED <<relayVars, bridgeVars, up, down, link, sent, got>>
  PROVE  IInv'
<1>1. UNCHANGED <<bridge, lock, streams, closed, demux, serve, up, down, link, sent, got, bridgeVars>>
  BY DEF relayVars
<1>2. ServeAt(s, serve[s].pc, serve[s].home, serve[s].via, serve[s].f)
  BY <1>1 DEF ServeAt, IInv, Shapes, ShapesOfRelay
<1>3. serve[s].pc # "none"
  BY DEF IInv, HandInv
<1>4. /\ serve[s].pc \in {"lookup", "send"} =>
           /\ serve[s].f \in Frames /\ serve[s].f.s = s
           /\ serve[s].f.kind \in {"data", "closed", "error", "left"}
           /\ serve[s].f.kind = "data" => serve[s].f.n = sent[<<s, "up">>]
           /\ serve[s].f.kind = "left" => s \notin streams
      /\ serve[s].pc = "send" => serve[s].via \in Sessions /\ (serve[s].home = bridge => serve[s].via = bridge)
      /\ serve[s].pc \in {"insert", "done"} => s \notin streams
  BY DEF IInv, HandInv, PlaceInv, LinkInv
<1>5. TaskMoves(s, serve[s].pc, serve[s].via, serve[s].f)
  BY <1>1, <1>2, <1>3, <1>4 DEF TaskMoves
<1>6. ASSUME NEW b \in Sessions, NEW top \in Nat, UpTie(b, s, top) PROVE UpTie(b, s, top)'
  BY <1>1, <1>6 DEF UpTie
<1> QED
  BY <1>1, <1>5, <1>6, TaskAlone, TaskRest

(* A step that only takes frames of another kind or stream from the connectors' queues. *)
LEMMA InboxSteady ==
  ASSUME NEW r \in Streams, sent[<<r, "down">>] \in Nat, RunKept(inbox[r], inbox'[r], r),
         client'[r] # "gone" => client[r] # "gone", got'[<<r, "down">>] = got[<<r, "down">>],
         UNCHANGED <<sent, owner, demux, streams, down, link, reader>>
  PROVE  DownSteady(r)
BY DEF DownSteady, RunKept, DownHand, DownTie

(* The connector reads the next frame. *)
LEMMA ClientTakes ==
  ASSUME IInv, NEW s \in Streams, NEW f \in Frames, client[s] \in {"waiting", "up"}, inbox[s] # <<>>, f = Head(inbox[s]),
         client' = [client EXCEPT ![s] = "up"], inbox' = [inbox EXCEPT ![s] = Tail(@)],
         f.kind = "data" => got' = [got EXCEPT ![<<s, "down">>] = Append(@, f.n)],
         f.kind # "data" => got' = got,
         UNCHANGED <<relayVars, bridgeVars, up, down, link, sent>>
  PROVE  IInv'
<1>1. inbox \in [Streams -> Seq(Frames)] /\ inbox[s] \in Seq(Frames)
  BY DEF IInv, Shapes, ShapesOfChannels
<1>2. /\ f \in Frames /\ Tail(inbox[s]) \in Seq(Frames)
      /\ Len(Tail(inbox[s])) = Len(inbox[s]) - 1 /\ Len(inbox[s]) \in Nat
  BY <1>1, QueueTail
<1>3. OfStream(Tail(inbox[s]), s) /\ f.s = s
  BY <1>1, OfStreamKeeps DEF IInv, QueueInv
<1>4. f.n \in Nat
  BY <1>2 DEF Frames
<1>5. /\ inbox' \in [Streams -> Seq(Frames)] /\ inbox'[s] = Tail(inbox[s])
      /\ \A r \in Streams : r # s => inbox'[r] = inbox[r]
  BY <1>1, <1>2
<1>6. /\ client' \in [Streams -> {"none", "waiting", "up", "gone"}] /\ client'[s] = "up"
      /\ \A r \in Streams : r # s => client'[r] = client[r]
  BY DEF IInv, Shapes, ShapesOfChannels
<1>7. /\ got' \in [Pipes -> Seq(Nat)]
      /\ f.kind = "data" => Len(got'[<<s, "down">>]) = Len(got[<<s, "down">>]) + 1
      /\ f.kind # "data" => got'[<<s, "down">>] = got[<<s, "down">>]
      /\ \A r \in Streams : \A e \in {"up", "down"} :
           r # s \/ e # "down" => got'[<<r, e>>] = got[<<r, e>>]
  <2>1. CASE f.kind = "data"
    BY <1>4, <2>1, PipeMoves DEF IInv, Shapes
  <2>2. CASE f.kind # "data"
    BY <2>2 DEF IInv, Shapes, ShapesOfChannels
  <2> QED
    BY <2>1, <2>2
<1>8. Shapes'
  BY <1>5, <1>6, <1>7 DEF IInv, Shapes, ShapesOfRelay, ShapesOfChannels, ShapesOfBridge, relayVars, bridgeVars
<1>9. QueueInv'
  <2>1. Len(inbox[s]) <= RelayCap /\ RelayCap \in Nat
    BY TunnelAssumption DEF IInv, QueueInv
  <2>2. Len(inbox'[s]) <= RelayCap /\ OfStream(inbox'[s], s)
    BY <1>2, <1>3, <1>5, <2>1
  <2> QED
    BY <1>5, <2>2 DEF IInv, QueueInv, bridgeVars
<1>10. LockInv' /\ LinkInv' /\ PlaceInv'
  BY DEF IInv, LockInv, LinkInv, PlaceInv, relayVars
<1>11. HandInv'
  BY <1>6 DEF IInv, HandInv, relayVars, bridgeVars
<1>12. OwnerInv'
  <2>1. ServeForward
    BY DEF ServeForward, relayVars
  <2> QED
    BY <2>1, OwnerIdle DEF IInv, Shapes, relayVars, bridgeVars
<1>13. UpInv'
  <2>1. \A r \in Streams : got'[<<r, "up">>] = got[<<r, "up">>]
    BY <1>7
  <2> QED
    BY <2>1, UpIdle DEF IInv, Shapes, relayVars, bridgeVars
<1>14. ASSUME NEW r \in Streams, r # s \/ f.kind # "data" PROVE DownAt(r)'
  <2>1. sent[<<r, "down">>] \in Nat /\ got'[<<r, "down">>] = got[<<r, "down">>]
    BY <1>7, <1>14, PipeTypes DEF IInv, Shapes
  <2>2. RunKept(inbox[r], inbox'[r], r)
    <3>1. CASE r # s
      BY <1>5, <3>1 DEF RunKept
    <3>2. CASE r = s
      BY <1>1, <1>5, <1>14, <3>2, RunKeeps DEF IsData
    <3> QED
      BY <3>1, <3>2
  <2>3. client'[r] # "gone" => client[r] # "gone"
    BY <1>6
  <2>4. UNCHANGED <<sent, owner, demux, streams, down, link, reader>>
    BY DEF relayVars, bridgeVars
  <2>5. DownSteady(r)
    BY <2>1, <2>2, <2>3, <2>4, InboxSteady
  <2> QED
    BY <2>5, DownKeep DEF IInv, Shapes, DownInv
<1>15. ASSUME f.kind = "data" PROVE DownAt(s)'
  <2>1. sent[<<s, "down">>] \in Nat /\ Len(got[<<s, "down">>]) \in Nat
    BY PipeTypes DEF IInv, Shapes
  <2>2. PICK k \in 0..sent[<<s, "down">>] : Run(inbox[s], s, Len(got[<<s, "down">>]), k) /\ DownLink(s, k)
    BY DEF IInv, DownInv, DownAt
  <2>3. k \in Nat /\ IsData(f, s)
    BY <1>3, <1>15, <2>1 DEF IsData
  <2>4. Run(inbox'[s], s, Len(got'[<<s, "down">>]), k)
    BY <1>1, <1>5, <1>7, <1>15, <2>1, <2>2, <2>3, RunTailData
  <2>5. DownLink(s, k)'
    BY <2>2 DEF DownLink, DownHand, DownTie, relayVars, bridgeVars
  <2> QED
    BY <2>2, <2>4, <2>5 DEF DownAt
<1>16. DownInv'
  BY <1>14, <1>15 DEF DownInv
<1> QED
  BY <1>8, <1>9, <1>10, <1>11, <1>12, <1>13, <1>16 DEF IInv

(* Every step of a connector. *)
LEMMA ClientKeeps ==
  ASSUME IInv, NEW s \in Streams, ClientRead(s) \/ ClientEnd(s) \/ ClientLeave(s),
         UNCHANGED <<relayVars, bridgeVars>>
  PROVE  IInv'
<1>1. CASE ClientRead(s)
  <2> DEFINE f == Head(inbox[s])
  <2> DEFINE bad == Terminal(f) \/ (client[s] = "waiting" /\ f.kind # "opened")
  <2>1. /\ client[s] \in {"waiting", "up"} /\ inbox[s] # <<>> /\ UNCHANGED <<up, down, link, sent>>
        /\ client' = [client EXCEPT ![s] = IF bad THEN "gone" ELSE "up"]
        /\ inbox' = [inbox EXCEPT ![s] = IF bad THEN <<>> ELSE Tail(@)]
        /\ got' = IF f.kind = "data" /\ ~bad
                  THEN [got EXCEPT ![<<s, "down">>] = Append(@, f.n)] ELSE got
    BY <1>1 DEF ClientRead
  <2> HIDE DEF bad
  <2>2. CASE bad
    <3>1. /\ client[s] # "none" /\ client' = [client EXCEPT ![s] = "gone"]
          /\ inbox' = [inbox EXCEPT ![s] = <<>>] /\ UNCHANGED <<up, down, link, sent, got>>
      BY <2>1, <2>2
    <3> QED
      BY <3>1, ClientGone
  <2>3. CASE ~bad
    <3>1. PICK g \in Frames : g = f
      BY <2>1, QueueTail DEF IInv, Shapes, ShapesOfChannels
    <3>2. /\ client' = [client EXCEPT ![s] = "up"] /\ inbox' = [inbox EXCEPT ![s] = Tail(@)]
          /\ g.kind = "data" => got' = [got EXCEPT ![<<s, "down">>] = Append(@, g.n)]
          /\ g.kind # "data" => got' = got
      BY <2>1, <2>3, <3>1
    <3>3. g = Head(inbox[s]) /\ UNCHANGED <<relayVars, bridgeVars, up, down, link, sent>>
      BY <2>1, <3>1
    <3>4. client[s] \in {"waiting", "up"} /\ inbox[s] # <<>>
      BY <2>1
    <3> HIDE DEF f
    <3> QED
      BY <3>2, <3>3, <3>4, ClientTakes
  <2> QED
    BY <2>2, <2>3
<1>2. CASE ClientEnd(s)
  BY <1>2, ClientGone DEF ClientEnd
<1>3. CASE ClientLeave(s)
  BY <1>3, ClientGone DEF ClientLeave
<1> QED
  BY <1>1, <1>2, <1>3

-----------------------------------------------------------------------------
(* The whole tunnel. *)

(* Nothing is on the way at first. *)
LEMMA Initially == Init => IInv
<1> SUFFICES ASSUME Init PROVE IInv
  OBVIOUS
<1>1. /\ up = [b \in Sessions |-> <<>>] /\ down = [b \in Sessions |-> <<>>]
      /\ inbox = [s \in Streams |-> <<>>] /\ tcpq = [s \in Streams |-> <<>>]
      /\ link = [b \in Sessions |-> "none"] /\ client = [s \in Streams |-> "none"]
      /\ sent = [p \in Pipes |-> 0] /\ got = [p \in Pipes |-> <<>>]
  BY DEF Init, InitChannels, InitBridge
<1>2. /\ bridge = None /\ lock = None /\ streams = {} /\ closed = [b \in Sessions |-> FALSE]
      /\ demux = [b \in Sessions |-> [pc |-> "none", f |-> None, todo |-> {}]]
      /\ serve = [s \in Streams |-> [pc |-> "none", home |-> None, via |-> None, f |-> None]]
  BY DEF Init, InitRelay
<1>3. /\ session = [b \in Sessions |-> [pc |-> "none", f |-> None]]
      /\ known = [b \in Sessions |-> {}] /\ owner = [s \in Streams |-> None]
      /\ writer = [s \in Streams |-> "none"] /\ reader = [s \in Streams |-> "none"]
  BY DEF Init, InitBridge
<1>4. \A s \in Streams : \A d \in {"up", "down"} : sent[<<s, d>>] = 0 /\ got[<<s, d>>] = <<>>
  BY <1>1 DEF Pipes
<1>5. \A b \in Sessions : b # None
  BY TunnelAssumption DEF Sessions
<1>6. Shapes
  BY <1>1, <1>2, <1>3 DEF Shapes, ShapesOfChannels, ShapesOfRelay, ShapesOfBridge, Demuxes, Serves, Loops, ServePCs
<1>7. QueueInv
  <2>1. RelayCap \in Nat /\ BridgeCap \in Nat
    BY TunnelAssumption
  <2> QED
    BY <1>1, <2>1 DEF QueueInv, OfStream
<1>8. LockInv /\ HandInv /\ LinkInv /\ PlaceInv
  BY <1>1, <1>2, <1>3, <1>5 DEF LockInv, HandInv, LinkInv, PlaceInv
<1>9. OwnerInv
  <2>1. ASSUME NEW b \in Sessions PROVE UpFrames(b) /\ DownFrames(b) /\ Holds(b)
    BY <1>1, <1>2, <1>3 DEF UpFrames, DownFrames, Holds
  <2>2. ASSUME NEW s \in Streams PROVE Owned(s)
    BY <1>1, <1>2, <1>3, <1>4 DEF Owned
  <2> QED
    BY <2>1, <2>2 DEF OwnerInv
<1>10. ASSUME NEW s \in Streams PROVE UpAt(s)
  <2>1. Run(tcpq[s], s, Len(got[<<s, "up">>]), 0)
    BY <1>1, <1>4, RunEmpty
  <2>2. UpLink(s, 0)
    BY <1>2 DEF UpLink
  <2>3. 0 \in 0..sent[<<s, "up">>]
    <3>1. PICK n \in Nat : n = sent[<<s, "up">>]
      BY <1>6, PipeTypes DEF Shapes
    <3> QED
      BY <3>1
  <2> QED
    BY <2>1, <2>2, <2>3 DEF UpAt
<1>11. ASSUME NEW s \in Streams PROVE DownAt(s)
  <2>1. Run(inbox[s], s, Len(got[<<s, "down">>]), 0)
    BY <1>1, <1>4, RunEmpty
  <2>2. DownLink(s, 0)
    BY <1>3 DEF DownLink
  <2>3. 0 \in 0..sent[<<s, "down">>]
    <3>1. PICK n \in Nat : n = sent[<<s, "down">>]
      BY <1>6, PipeTypes DEF Shapes
    <3> QED
      BY <3>1
  <2> QED
    BY <2>1, <2>2, <2>3 DEF DownAt
<1> QED
  BY <1>6, <1>7, <1>8, <1>9, <1>10, <1>11 DEF IInv, UpInv, DownInv

(* A step in which nothing happens. *)
LEMMA Stutters ==
  ASSUME IInv, UNCHANGED vars
  PROVE  IInv'
<1>1. UNCHANGED <<up, down, inbox, link, client, sent, got, bridge, lock, streams, closed, demux, serve,
                  session, known, tcpq, owner, writer, reader>>
  BY DEF vars, channelVars, relayVars, bridgeVars
<1>2. Shapes' /\ QueueInv' /\ LockInv' /\ HandInv' /\ LinkInv' /\ PlaceInv'
  BY <1>1 DEF IInv, Shapes, ShapesOfChannels, ShapesOfRelay, ShapesOfBridge, QueueInv, LockInv, HandInv,
              LinkInv, PlaceInv
<1>3. OwnerInv'
  BY <1>1 DEF IInv, OwnerInv, UpFrames, DownFrames, Holds, Owned
<1>4. UpInv' /\ DownInv'
  BY <1>1, UpIdle, DownIdle DEF IInv, Shapes
<1> QED
  BY <1>2, <1>3, <1>4 DEF IInv

(* What the tasks do by themselves. *)
LEMMA ProgressKeeps ==
  ASSUME IInv, Progress
  PROVE  IInv'
<1>1. ASSUME NEW b \in Sessions, RelaySession(b), UNCHANGED bridgeVars PROVE IInv'
  BY <1>1, DemuxReadKeeps, DemuxSendKeeps, TeardownKeeps, TeardownSendKeeps, TeardownDoneKeeps,
     DropResponseKeeps DEF RelaySession
<1>2. ASSUME NEW b \in Sessions, BridgeSession(b), UNCHANGED relayVars PROVE IInv'
  BY <1>2, ReadFrameKeeps, RefuseStreamKeeps, SendToStreamKeeps, SessionEndsKeeps DEF BridgeSession
<1>3. ASSUME NEW s \in Streams, RelayStream(s), UNCHANGED bridgeVars PROVE IInv'
  BY <1>3, InsertStreamKeeps, SendAcceptedKeeps, SendOpenedKeeps, ServeDataKeeps, ServeLastKeeps,
     LookupBridgeKeeps, SendToBridgeKeeps, TellConnectorKeeps DEF RelayStream
<1>4. ASSUME NEW s \in Streams, BridgeStream(s), UNCHANGED relayVars PROVE IInv'
  BY <1>4, ConnectKeeps, UpstreamFailedKeeps, WriteUpstreamKeeps, SendUpstreamDataKeeps, ReaderKeeps
     DEF BridgeStream
<1>5. ASSUME NEW s \in Streams, ClientRead(s) \/ ClientEnd(s), UNCHANGED <<relayVars, bridgeVars>> PROVE IInv'
  BY <1>5, ClientKeeps
<1> QED
  BY <1>1, <1>2, <1>3, <1>4, <1>5 DEF Progress

(* Connections that break, peers that leave or misbehave. *)
LEMMA FaultKeeps ==
  ASSUME IInv, Fault
  PROVE  IInv'
<1>1. ASSUME NEW b \in Sessions, Disconnect(b), UNCHANGED relayVars PROVE IInv'
  BY <1>1, DisconnectKeeps
<1>2. ASSUME NEW s \in Streams, ConnectFails(s) \/ WriteFails(s) \/ ReadFails(s), UNCHANGED relayVars PROVE IInv'
  BY <1>2, ConnectKeeps, WriteFailsKeeps, ReaderKeeps
<1>3. ASSUME NEW s \in Streams, ServeTerminal(s) \/ ServeInvalid(s), UNCHANGED bridgeVars PROVE IInv'
  BY <1>3, ServeLastKeeps
<1>4. ASSUME NEW s \in Streams, ClientLeave(s), UNCHANGED <<relayVars, bridgeVars>> PROVE IInv'
  BY <1>4, ClientKeeps
<1> QED
  BY <1>1, <1>2, <1>3, <1>4 DEF Fault

(* The invariant holds throughout. *)
LEMMA Invariance == Spec => []IInv
<1>1. IInv /\ [Next]_vars => IInv'
  <2> SUFFICES ASSUME IInv, [Next]_vars PROVE IInv'
    OBVIOUS
  <2>1. ASSUME NEW s \in Streams, OpenTunnel(s) \/ CancelOpen(s), UNCHANGED bridgeVars PROVE IInv'
    BY <2>1, OpenTunnelKeeps, CancelOpenKeeps
  <2>2. ASSUME NEW s \in Streams, ReadUpstream(s), UNCHANGED relayVars PROVE IInv'
    BY <2>2, ReaderKeeps
  <2>3. CASE Next
    BY <2>1, <2>2, <2>3, ProgressKeeps, RegisterKeeps, FaultKeeps DEF Next
  <2>4. CASE UNCHANGED vars
    BY <2>4, Stutters
  <2> QED
    BY <2>3, <2>4
<1> QED
  BY <1>1, Initially, PTL DEF Spec

(* The queues keep their capacity and the mutex is held by a teardown only. *)
THEOREM TunnelTypes == Spec => []TypeOK
<1>1. IInv => TypeOK
  <2> SUFFICES ASSUME IInv PROVE TypeOK
    OBVIOUS
  <2>1. TypeOKChannels
    BY DEF IInv, Shapes, ShapesOfChannels, QueueInv, TypeOKChannels
  <2>2. ASSUME NEW b \in Sessions
        PROVE  /\ demux[b].pc \in {"none", "read", "send", "end", "tear", "done"}
               /\ lock = b <=> demux[b].pc = "tear"
               /\ session[b].pc \in {"none", "read", "send", "refuse", "ended", "failed", "unknown"}
    BY DEF IInv, Shapes, ShapesOfRelay, ShapesOfBridge, Demuxes, Loops, LockInv
  <2> QED
    BY <2>1, <2>2 DEF IInv, Shapes, ShapesOfRelay, QueueInv, TypeOK
<1> QED
  BY <1>1, Invariance, PTL

(* A stream whose task has returned, by any of its returns, holds no place in *)
(* connector_streams.                                                         *)
THEOREM ReturnsItsPlace == Spec => []NoStreamLeak
<1>1. IInv => NoStreamLeak
  BY DEF IInv, PlaceInv, NoStreamLeak
<1> QED
  BY <1>1, Invariance, PTL

-----------------------------------------------------------------------------
(* The tunnel implements BytePipes. *)

(* The frame at the head of a run is the next one, and it has been sent. *)
LEMMA NextOfRun ==
  ASSUME NEW q \in Seq(Frames), NEW s \in Streams, NEW n \in Nat, NEW m \in Nat, NEW k \in 0..m,
         q # <<>>, Run(q, s, n, k), IsData(Head(q), s)
  PROVE  Head(q).n = n + 1 /\ n < m
<1>1. k \in Nat
  OBVIOUS
<1>2. Head(q).n = n + 1 /\ n + 1 <= k
  BY <1>1, RunTailData
<1> QED
  BY <1>2

(* A frame is put into a pipe when the connector or the Authority hands it over. *)
LEMMA PutSteps ==
  ASSUME NEW s \in Streams, ServeData(s) \/ ReadUpstream(s)
  PROVE  Pipe!Next
<1>1. CASE ServeData(s)
  <2>1. <<s, "up">> \in Pipes /\ Pipe!Put(<<s, "up">>)
    BY <1>1 DEF ServeData, Pipes, Pipe!Put
  <2> QED
    BY <2>1 DEF Pipe!Next
<1>2. CASE ReadUpstream(s)
  <2>1. <<s, "down">> \in Pipes /\ Pipe!Put(<<s, "down">>)
    BY <1>2 DEF ReadUpstream, Pipes, Pipe!Put
  <2> QED
    BY <2>1 DEF Pipe!Next
<1> QED
  BY <1>1, <1>2

(* The frame the writer writes to the Authority is the next one. *)
LEMMA WriteGets ==
  ASSUME IInv, NEW s \in Streams, WriteUpstream(s)
  PROVE  Pipe!Next \/ UNCHANGED <<sent, got>>
<1>1. CASE /\ tcpq[s] # <<>> /\ Head(tcpq[s]).kind = "data"
           /\ got' = [got EXCEPT ![<<s, "up">>] = Append(@, Head(tcpq[s]).n)]
  <2>1. tcpq[s] \in Seq(Frames) /\ OfStream(tcpq[s], s)
    BY DEF IInv, Shapes, ShapesOfBridge, QueueInv
  <2>2. IsData(Head(tcpq[s]), s)
    BY <1>1, <2>1, OfStreamKeeps DEF IsData
  <2>3. sent[<<s, "up">>] \in Nat /\ Len(got[<<s, "up">>]) \in Nat
    BY PipeTypes DEF IInv, Shapes
  <2>4. PICK k \in 0..sent[<<s, "up">>] : Run(tcpq[s], s, Len(got[<<s, "up">>]), k)
    BY DEF IInv, UpInv, UpAt
  <2>5. Head(tcpq[s]).n = Len(got[<<s, "up">>]) + 1 /\ Len(got[<<s, "up">>]) < sent[<<s, "up">>]
    BY <1>1, <2>1, <2>2, <2>3, <2>4, NextOfRun
  <2>6. <<s, "up">> \in Pipes /\ Pipe!Get(<<s, "up">>)
    BY <1>1, <2>5 DEF Pipe!Get, Pipes, WriteUpstream
  <2> QED
    BY <2>6 DEF Pipe!Next
<1>2. CASE UNCHANGED got
  BY <1>2 DEF WriteUpstream
<1> QED
  BY <1>1, <1>2 DEF WriteUpstream

(* The frame the connector reads is the next one. *)
LEMMA ReadGets ==
  ASSUME IInv, NEW s \in Streams, ClientRead(s)
  PROVE  Pipe!Next \/ UNCHANGED <<sent, got>>
<1>1. CASE /\ Head(inbox[s]).kind = "data"
           /\ got' = [got EXCEPT ![<<s, "down">>] = Append(@, Head(inbox[s]).n)]
  <2>1. inbox[s] \in Seq(Frames) /\ OfStream(inbox[s], s) /\ inbox[s] # <<>> /\ client[s] # "gone"
    BY DEF IInv, Shapes, ShapesOfChannels, QueueInv, ClientRead
  <2>2. IsData(Head(inbox[s]), s)
    BY <1>1, <2>1, OfStreamKeeps DEF IsData
  <2>3. sent[<<s, "down">>] \in Nat /\ Len(got[<<s, "down">>]) \in Nat
    BY PipeTypes DEF IInv, Shapes
  <2>4. PICK k \in 0..sent[<<s, "down">>] : Run(inbox[s], s, Len(got[<<s, "down">>]), k)
    BY <2>1 DEF IInv, DownInv, DownAt
  <2>5. Head(inbox[s]).n = Len(got[<<s, "down">>]) + 1 /\ Len(got[<<s, "down">>]) < sent[<<s, "down">>]
    BY <2>1, <2>2, <2>3, <2>4, NextOfRun
  <2>6. <<s, "down">> \in Pipes /\ Pipe!Get(<<s, "down">>)
    BY <1>1, <2>5 DEF Pipe!Get, Pipes, ClientRead
  <2> QED
    BY <2>6 DEF Pipe!Next
<1>2. CASE UNCHANGED got
  BY <1>2 DEF ClientRead
<1> QED
  BY <1>1, <1>2 DEF ClientRead

(* Each direction of each stream is a pipe: whatever breaks, reconnects or is *)
(* torn down, the Authority and the connector get what the other sent in      *)
(* order, without a gap and without a replay.                                 *)
THEOREM ImplementsPipes == Spec => PipeSpec
<1>1. Init => Pipe!Init
  BY DEF Init, InitChannels, Pipe!Init
<1>2. IInv /\ [Next]_vars => [Pipe!Next]_<<sent, got>>
  <2> SUFFICES ASSUME IInv, [Next]_vars PROVE Pipe!Next \/ UNCHANGED <<sent, got>>
    OBVIOUS
  <2>1. ASSUME NEW b \in Sessions, RelaySession(b) PROVE UNCHANGED <<sent, got>>
    BY <2>1 DEF RelaySession, DemuxRead, DemuxSend, Teardown, TeardownSend, TeardownDone, DropResponse,
                channelVars
  <2>2. ASSUME NEW b \in Sessions, BridgeSession(b) \/ Register(b) \/ Disconnect(b)
        PROVE  UNCHANGED <<sent, got>>
    BY <2>2 DEF BridgeSession, ReadFrame, RefuseStream, SendToStream, SessionEnds, Register, Disconnect,
                RegisterAuthorityBridge
  <2>3. ASSUME NEW s \in Streams, RelayStream(s) PROVE Pipe!Next \/ UNCHANGED <<sent, got>>
    BY <2>3, PutSteps DEF RelayStream, InsertStream, SendAccepted, SendOpened, ServeEnd, LookupBridge,
                          SendToBridge, TellConnector, channelVars
  <2>4. ASSUME NEW s \in Streams, BridgeStream(s) PROVE Pipe!Next \/ UNCHANGED <<sent, got>>
    BY <2>4, WriteGets DEF BridgeStream, ConnectUpstream, UpstreamFailed, SendUpstreamData, StopReader,
                           channelVars
  <2>5. ASSUME NEW s \in Streams, ClientRead(s) \/ ClientEnd(s) PROVE Pipe!Next \/ UNCHANGED <<sent, got>>
    BY <2>5, ReadGets DEF ClientEnd
  <2>6. ASSUME NEW s \in Streams, OpenTunnel(s) \/ CancelOpen(s) PROVE UNCHANGED <<sent, got>>
    BY <2>6 DEF OpenTunnel, CancelOpen
  <2>7. ASSUME NEW s \in Streams, ConnectFails(s) \/ WriteFails(s) \/ ReadFails(s) \/ ServeTerminal(s)
                                  \/ ServeInvalid(s) \/ ClientLeave(s)
        PROVE  UNCHANGED <<sent, got>>
    BY <2>7 DEF ConnectFails, WriteFails, ReadFails, ServeTerminal, ServeInvalid, ClientLeave, channelVars
  <2>8. CASE Progress
    BY <2>1, <2>2, <2>3, <2>4, <2>5, <2>8 DEF Progress
  <2>9. CASE Fault
    BY <2>2, <2>7, <2>9 DEF Fault
  <2>10. CASE UNCHANGED vars
    BY <2>10 DEF vars, channelVars
  <2> QED
    BY <2>2, <2>6, <2>8, <2>9, <2>10, PutSteps DEF Next
<1> QED
  BY <1>1, <1>2, Invariance, PTL DEF Spec, PipeSpec, Pipe!Spec

=============================================================================
